----------------------------- MODULE MCDlrClient -----------------------------
(* The instances on which TLC checks DlrClient and DlrArchive.             *)
EXTENDS DlrClient

CONSTANTS c1, c2

Section(s) == [section |-> s]
Key(k, v) == [key |-> k, value |-> v]
Item(k, n, d) == [kind |-> k, name |-> n, data |-> d]
File(n) == Item("file", n, "new")
Info(more) == <<Section("info"), Key("name", "tool")>> \o more

Zero == Item("zero", <<>>, None)
\* As a server elsewhere sends it: under "tool/", with a long name.
Tar == [format |-> "tar", announced |-> "tar", items |->
    <<Item("dir", <<"tool", "">>, None), Item("file", <<"tool", "m.pkg">>,
          Info(<<Section("install.minimalos"), Key("run", <<"a">>)>>)),
      Item("long", <<"tool", "d", "a">>, None), Item("file", <<"tool", "d">>, "new"),
      File(<<"tool", "a">>), Zero, Zero, Item("bad", <<>>, None)>>]
\* The same cut short by the closing of the staging file.
Short == [Tar EXCEPT !.items = SubSeq(@, 1, 4)]
\* As Minimal-OS sends it, with a list of what to copy, and where; it calls
\* itself something else than it is asked for by.
Mpkg == [format |-> "mpkg", announced |-> "mpkg", items |->
    <<File(<<"a">>), Item("file", <<"n.pkg">>, <<Section("install.minimalos"), Key("target", <<"0:">>)>>),
      Item("file", <<"m.pkg">>, <<Section("info"), Key("name", "kit"), Key("os", {"any"}), Key("run", <<"b">>),
          Section("install.minimalos"), Key("copy", {<<"a">>, <<"b">>, <<"tool", "a">>}),
          Key("target", <<"0:", "t">>), Key("run", <<"0:", "programs", "old">>)>>),
      Item("file", <<".", "tool", "a">>, "newer"), File(<<"kit", "b">>), File(<<"c">>),
      Item("file", <<"o.pkg">>, Info(<<>>))>>]
Damaged == [format |-> "mpkg", announced |-> "tar", items |->
    <<File(<<"a">>), Item("file", <<"m.pkg">>, Info(<<>>)), Item("bad", <<"b">>, None)>>]
Foreign == [format |-> "tar", announced |-> "tar", items |->
    <<File(<<"a">>), Item("file", <<".", "m.pkg">>, Info(<<Key("os", {"windows"})>>)),
      Item("other", <<"l">>, None)>>]
Above == [format |-> "tar", announced |-> "tar", items |->
    <<Item("file", <<"m.pkg">>, Info(<<>>)), File(<<"a", "..", "b">>)>>]
\* A tar that is said to be an .mpkg.
Claimed == [format |-> "tar", announced |-> "mpkg", items |->
    <<Item("file", <<"m.pkg">>, Info(<<>>)), File(<<"a">>)>>]

MCClients == {c1, c2}
Symmetric == Permutations(MCClients)
MCHellos == {[addr |-> "10.0.0.1", name |-> "lab"], [addr |-> "10.0.0.2", name |-> "lab"]}
MCLists == {<<>>, <<CHOOSE h \in MCHellos : h.addr = "10.0.0.1">>}
MCNames == {"lab", "10.0.0.2"}
MCPackages == {"tool"}
MCArchives == {Tar, Short, Mpkg, Damaged, Foreign, Above, Claimed}
MCPreinstalled == {<<"0:", "programs", "old">>}
MCCommands == {"scan", "add", "ask", "install", "download", "tui"}
MCFaults == {"net", "disk", "flush", "kill"}
=============================================================================
