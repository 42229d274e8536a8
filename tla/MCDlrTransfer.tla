---------------------------- MODULE MCDlrTransfer ----------------------------
(* Model values and the instances on which TLC checks DlrTransfer.         *)
EXTENDS DlrTransfer

CONSTANTS a, b, right, wrong

MCChunk == {a, b}
MCPasswords == {right, wrong}

\* Two archives of the same size that differ, and a shorter one.
MCArchives == {<<a>>, <<a, b>>, <<b, b>>}
MCTwoArchives == {<<a>>, <<a, b>>}

MCEveryClient == {right, wrong, NoPassword}

MCFaultsLive == {"drop", "rebuild", "disk", "read", "connect", "memory"}
MCFaultsAll == MCFaultsLive \cup {"timeout", "stall", "crash", "delete", "flush", "memory"}
=============================================================================
