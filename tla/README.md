# Verification of the Minimal-OS SDK

TLA+ models of the programs and libraries in this repository, checked with TLC
on small instances, and theorems about them proved with TLAPS. Names in the
modules are the names of the C code where TLA+ allows it.

## What the repository holds

| part | state it keeps | operations | how it meets the others |
| --- | --- | --- | --- |
| dlr transfer (`dlr_proto.c`, `dlr_client.c`, `dlr_server.c`) | the session on each side: key, where it is in the handshake, announced size, running hashes, staging file | connect, authenticate, list, search, install | frames over one TCP connection |
| dlr package store (`dlr_registry.c`) | package directories and archives on disk; nothing in memory | present, rebuild, remove, search, find | read by every server session; written by other processes |
| dlr server loop (`dlr_server.c`) | listener, hello timer, children, error count | start, poll, run, stop | spawns one process per client, or serves it inside the loop |
| dlr known servers (`dlr_db.c`, `main.c`) | `servers.txt` and an array of 16 | load, save, add, discover | UDP hellos of the server loop; every process of the machine shares the file |
| dlr install (`dlr_client.c`, `dlr_tar.c`, `dlr_mpkg.c`, `dlr_pkg.c`) | the staging file, the files of the package | two passes over the archive, copy, run | after a verified download; every process shares the staging file |
| dlr ports (`dlr_port_mos.c`, `tests/dlr-host/dlr_port_host.c`) | four open files, one directory listing (Minimal-OS) | files, directories, sockets, processes | everything above goes through it |
| Deliver Manager (`programs/delivermanager`) | one queued job, busy flag, selections, a server state | handlers of the widgets, jobs, a frame function | easyui calls its handlers, jobs call back into easyui |
| easyui (`easyui.h`, `easyui_text.h`) | widgets, focus, pressed, open popup, modal | create, remove, events, update | calls the program's handlers |
| minimaSSL | GCM and SHA contexts | init, update, final, ctrl | called by the TLS record layer |
| farcadegl (`farcadegl.h`) | a context: what was set, dirty flags, a command buffer, two surfaces | state, textures, shaders, draw, submit, present | the GPU behind system calls |
| FGL shading language (`fglsl.h`) | registers, constants, patches of one compilation | compile two stages | its code runs on the GPU |
| mosmedia (`mosmedia.h`, `mosmedia_motion.h`) | a writer, a reader, the reference frame, adaptive probabilities | encode (by several threads), write, seek, decode | files, and the kernel's decoder |
| windows, graphics, fonts | | draw | libraries of programs |
| libc and system call wrappers | none | | the kernel, which is not in this repository |

What is hard here, and what the models are about:

* **Two processes and a wire.** Client and server decide alone which messages
  come next; the store changes while it is read; the connection breaks or stalls
  anywhere. Correct means: a verified download is a whole archive, nothing is
  left after a failed one, nobody is served without the password, every session
  ends.
* **Recursion through callbacks over shared state.** Walking a directory calls
  back into code that walks another. Correct means: what is offered is what was
  presented, undo and remove clear everything, a listing is exact.
* **One thread that does everything.** The accept loop on Minimal-OS, or the
  frame function of the Deliver Manager, serves a client, says hello and handles
  the user. Correct means: nobody waits for ever because of somebody else, what
  is served is limited, closing closes.
* **State that has to be equal in two places.** The writer and the reader of a video
  adapt probabilities and reference frames; farcadegl decides from what it
  remembers what the GPU still has to be told; the compiler decides from its marks
  which register is free. Correct means: what is shown, drawn or computed is what
  was meant, after any order of calls and any failure on the way.
* **Handlers in the middle of things.** easyui calls a program's handlers between
  two statements of its own functions, and the jobs of the Deliver Manager let
  handlers run while they wait. Correct means: nothing that is used afterwards
  (a widget, an index, a list) has moved or gone.

## Modules

| module | models | composed of |
| --- | --- | --- |
| `DlrTransfer`, `DlrDelivery` | `dlr_proto.c`, one session of `dlr_client.c` and `dlr_server.c`; what a caller of it may rely on | `DlrTransfer` implements `DlrDelivery` |
| `StoreWalk` | `dlr_registry.c` on either port | |
| `ServerLoop` | the loop of `dlr_server.c` | |
| `DlrArchive`, `DlrClient` | archive formats and manifests; the commands of `main.c` on one machine | `DlrClient` extends `DlrArchive` |
| `DeliverManager` | `programs/delivermanager/main.c` | |
| `EuiPicker`, `EasyUi` | the pickers of `easyui.h`; its events and handlers | `EasyUi` extends `EuiPicker` |
| `FarcadeGl` | `farcadegl.h` | |
| `FgslCode`, `FgslCompiler`, `FgslMeaning`, `Fgsl` | code generation of `fglsl.h`; statements and functions; the reference interpreter; compiling a program | each extends the one before |
| `MediaRange`, `MediaMotion`, `MediaTiles`, `MediaVideo` | the range coder, the two codecs, writer and reader of `mosmedia.h` | `MediaVideo` extends the others |

`MC...` modules hold the values of the constants, `..._proofs` the theorems.

### DlrTransfer: one client, one server, one archive

`DlrTransfer.tla` models `dlr_connect`, the end of `dlr_client_open`,
`dlr_download` and the query of `dlr_client_packages` on one side, and
`dlr_server_session` with `handle_install` on the other. `cpc` and `spc` say
where each side is; every blocking call of the code (send or receive a frame,
open, measure, read the archive, create, append, delete the staging file) is one
step, so that everything else can happen in between.

* The wire is two queues of frames. `dlr_tcp_write` can fail when the peer is
  gone, when the connection is broken or when it stalls (`WriteMayFail`), and can
  also succeed although nobody will read what was written (`ToServer`,
  `ToClient`). A receive fails at the end of the stream or by timeout
  (`ReadMayFail`). `Drop` breaks the connection and loses any tail of what is in
  flight.
* The store is the file of one package. `DeleteArchive` and `BuildArchive` are
  the two steps of `dlr_reg_rebuild` in another process; a removal is the first
  without the second.
* `HandlePins` says what an open handle reads after the file was replaced: TRUE
  for the bytes it was opened on (a POSIX host, and a port that keeps the file in
  memory), FALSE for whatever is at the path by then.
* A chunk is a model value, a file is the sequence of its chunks, and the digest
  of a file is the file: equal digests mean equal contents. The session key has
  no value; a frame that does not open is a failed receive.
* Frames the code would ignore or refuse but that neither side of this code ever
  sends are not enumerated; `StayInStep` shows that none arrives. It names the two
  refusals `dlr_client.c` has no case for and takes for a failure: ERROR after a
  password that is not the server's, and "Out of memory" in answer to LIST or SEARCH
  (`dlr_server.c:145`, `:158`).
* `dlr_file_close` and `dlr_remove` fail unseen: with the fault `"flush"` closing
  the staging file loses its end (`Closed`), also after the digest was found right
  (`dlr_proto.c:343`, `:352`).
* `marred` is history, for `NoPartialStage`: deleting or closing the staging file has
  failed, or the client was killed while it received, since the last download
  that created or deleted it.

`DlrDelivery.tla` is what a caller of `dlr_download` may rely on: either one
whole content that the store has offered, or a failure and nothing to install
from; only where closing a file may lose its end (`Cuts`) can a download that was
verified leave the beginning of an archive. `DeliverySpec` is its specification under the mapping `result <- Result`,
`file <-` the staging file of a verified download, `offered <- shown`.

### StoreWalk: the package store and its directory walks

`StoreWalk.tla` models `dlr_reg_present` (`copy_tree`, the archiver, the undo),
`dlr_reg_rebuild`, `dlr_reg_remove` (`remove_tree`) and `dlr_reg_search` as one
process runs them on a store of directory trees. `stack` is the stack of active
`dlr_dir_each` calls; each step handles one directory entry. `SharedBuffer`
tells the ports apart: on Minimal-OS all calls share the static array
`g_dir_entries` (`buffer`), on the host port each has its own (`own`).

File contents are left out: an archive is the set of files that went into it.
A listing comes in any order, cut at `MaxEntries`. A source is any finite directory
tree over `Names` (`SourcesAssumption`). `spoiled` is history: a delete
of the command under way has failed, so that nothing can be said of what it
leaves (`FailedLeavesNothing`, `RemovedIsGone`). `from` is what an archive is
compared with: the source that was presented, or the half-done directory that a
rebuild has taken since.

`PresentBegins` fails before the first entry as well: with nothing made, or with a
directory to undo because the source cannot be listed. `Rebuild` is two steps,
`RebuildBegins` and `Repack`: the process may be killed between the two, and a
deletion of the old archive that fails, which `dlr_reg_rebuild` does not look at,
leaves the old archive in place when the archiver fails too. A directory that cannot be
listed stops a removal as a first entry that cannot be deleted does, so
the model has the second only.

### ServerLoop: the accept loop and its children

`ServerLoop.tla` models `dlr_server_start`, `dlr_server_poll` and
`dlr_server_stop` as `dlr_server_run` calls them: one action for each thing a
pass does (`Hello`, `Reap`, `FindSlot`, `Accept...`, `Spawn`, `ServeInline`,
`Sleep`), so that children, clients, Ctrl+C and the clock step in between.
`spawns` tells the builds apart: with `MINIMALOS_TARGET`, and when no
process can be started, `dlr_server_session` runs inside the loop.

* What is said on a connection is `DlrTransfer`; here a session lasts as long as
  its client wants (`Chatty` clients never leave: each PING restarts the
  120 seconds of idle time).
* Time is two flags, `helloDue` and `reapDue`, which become true some time after
  they were cleared. No property needs more.
* `process` is the process table of the kernel: a pid is free, running or a
  zombie until `dlr_proc_alive` collects it. `conn` and `connected` say who holds
  which connection, `backlog` is the queue of the listener.
* A child inherits the listening socket over `fork` and `execv` (there is no
  `FD_CLOEXEC`, and `dlr_server_child` does not close it), so `dlr_server_stop` closes
  the queue only when no child runs: `LetGo` empties it with the last process that has
  the socket, and `Connect` works until then. The inherited UDP socket does nothing.

### DeliverManager: one window, one thread

`DeliverManager.tla` models `programs/delivermanager/main.c`. `pc` says where the
thread is: handling events, at the start of `on_frame`, in a job, or polling the
server. Jobs call `log_line`, which pumps `eui_update` (and greeting a client
does): at the program points `Pumping` **any handler may run between two
statements of a job**. `busy` and `job` are `g_busy` and `g_job`; `StartJob` and
`EndJob` are `set_busy(1)` and `set_busy(0)`.

* Indices count from 1, and 0 stands for C's -1. `pkgServer` is an index into the
  array `servers`, which scans, additions and removals change; the history
  variable `listed` is the server the packages came from.
* Left out: what packages a server has, what is in the store (only whether there
  is anything), texts, positions and which widgets are shown. So `ListsUndisturbed`
  is about arrays and indices: a text that a job reads after a pump (the folder in
  `job_present`, the query and the password in `job_list`) is whatever the box holds
  by then.

### EasyUi: widgets, events and handlers

`EasyUi.tla` models how `easyui.h` turns the events of the window into calls of
handlers. `todo` is **what is left of the event: the C stack**, the next step
first. A handler may make any call in `allowed`, and so start further handlers;
what the C function does after each call of a handler is a step of its own
(`"pressed"`, `"grab"`, `"released"`, `"radio"`, ...), taken with the widget number
the function holds, whatever that slot has become.

* `w` is `eui_w` without the window in slot 0; `focus`, `hover`, `pressed`, `open`,
  `message`, `picker`, `down` are the static variables.
* Every widget has a handler for every event (one that does nothing stands for
  none). `ONCE` is part of `ONCLICK`; timers and the events of the window are like
  `ONFRAME`.
* A widget's place in the window is its id: widgets do not overlap. Where in a
  widget the mouse is becomes a choice (which row, which value). Scrolling, texts,
  painting and themes are left out.
* `pk` is `eui_pk`, the picker that is up. `EuiPicker` gives its functions as
  operators from a picker to the set of pickers they may leave: `Load`
  (`eui_pk_load`; a listing may fail), `Up`, `Accept`, `Pressing` and `Keys` (the
  mouse and the keyboard). `files` is what is on the drive; other programs make and
  delete files while a picker is up (`OtherProgram`). Names are numbers, in the
  order the picker sorts them; whether a click is the second of a double-click is a
  choice. A folder with more than `MaxEntries` entries is listed without some, whichever
  (`Listed`), and a path that is too long for `eui_pk_join` loses its end (`Clip`): `Long`
  gives what is left of each such path, and `Fair` excepts it, as the limits in
  `docs/easyui.md` do. `picks` and `paths` say which modes a program uses and what may be there.
* Two history variables name what the code does not promise: `nested` (a radio
  button was selected by a handler while another one was being selected) and
  `reused` (a handler made a widget in a slot that the event under way still
  names).

### DlrClient: the commands of one machine

`DlrClient.tla` models what processes that run `dlr` share: `servers.txt` (`db`),
the staging file (`stage`) and what is installed or saved. Each process has its
place (`pc`), the list it has loaded (`list`), and the archive it holds in memory
(`mem`). A download (`DlrTransfer` has its inside) is two steps here, the creation
of the staging file and its last write; other processes run in between, and at
every other step. `Ask` stands for the commands that end with an answer, `Enter`
for the package list inside `servers-tui`, `Kill` for Ctrl+C and the power.

* A staging file that two processes wrote is `Mixed`. Installing takes it for an
  archive that cannot be read; what its bytes would be is not modelled.
* `alone` and `orderly` are history: nobody else was in a command during this one;
  no two commands ever overlapped.
* `wrote` and `missed` are what the installation under way has written, and what it has
  reported as left out or had cut in closing the file, by place in the archive.
* `lost` is what went wrong without a word: the end of the download that is lost when
  the staging file is closed, after its digest was found right (`"stage"`: what stays is
  the beginning of the archive, `CutOff`, or none at all), and a staging file that could
  not be removed (`"removal"`). Nobody looks at either result (`dlr_proto.c:352`,
  `dlr_client.c:496`).

`DlrArchive.tla` gives, for an archive as a sequence of items, the calls that
`dlr_tar_extract_mem` and `dlr_mpkg_extract_mem` make (`Extract`: what is announced
against what the magic says, long names, unsafe names, end markers, what is skipped),
what `dlr_pkg_parse` reads from a manifest, and which file `install_on_file` makes of a
call (`Wanted`, `PathOf`). Texts are sequences of path components; sizes and checksums
are whether an item is `"bad"`.

`DoneIsWhole` does not ask the model's own `Canonical`, `Wanted` or `ManifestOf` what was
to be installed. It says it in the words of whoever wrote the package: the first
manifest that names a package counts (`Counts`); a file that it asks for by itself and
that can only mean one thing (`Asks`) may come with `./`, below a directory named like
the package or like what was asked for, or plain (`Wrapped`); and the last one of these in
the archive is what must be in place.

### FarcadeGl: a context and the GPU behind it

`FarcadeGl.tla` models a context of `farcadegl.h`: what was set, which dirty flags
say that the GPU does not know it, the shaders with their uniforms, the textures,
and the two surfaces of page flipping. Commands are recorded and run at the next
submit, so the model keeps `gpu`, **the state the GPU will be in once it has run
what is recorded so far**, and `uses`, what the recorded draws refer to with the
pixels of then. `Bind` (`fgl__bind`) starts a command buffer from the GPU's
defaults; `Flush` (`fgl__flush_state`) sends what is dirty before a draw.

* `DrawsAsSet` compares the two at each draw, `RecordedStays` asks that nothing a
  recorded draw uses is destroyed or rewritten, `DrawsOffScreen` that a frame is not
  drawn on the surface that the screen shows.
* Failures are two kinds: a command finds no room in a buffer that cannot grow
  (`intact` becomes FALSE: the code says so in its error and the frame is lost), and
  a call into the GPU fails.
* With a `window_id` no second surface is made, but `page_flip` stays set
  (`farcadegl.h:386`): every other frame is drawn to handle 0 (`second = None`), which
  cannot be shown.
* Vertex buffers and indices, clearing, and contexts that share a window or a shader
  are left out.

### Fgsl: a compiler against the meaning of its language

`FgslCode` and `FgslCompiler` model code generation of `fglsl.h` as operators on the
state of the compiler: temporaries as a stack of marks, the pool of constants,
jumps that are placed later, stores that may rewrite the instruction before them,
swizzles and write masks, inlined calls, unrolled loops. `FgslCode` also has the
machine of `fgpu_abi.h`. `FgslMeaning` is an interpreter of the syntax tree written
from `docs/fgsl.md`: it has names and values and no registers. `Fgsl` reads a
shader line by line, in every order, compiles and interprets it, and after each
line runs the code for each of the inputs: **`Agrees` is compiler correctness on
these programs**, `FinishedIsSound` that a finished program has no jump without a
target or beyond its end, no index out of range and no read that the kernel refuses.

* Numbers are integers and vectors have `Lanes` components: a register is lanes, and
  rounding is left out, with the functions that need it. The scanner is left out:
  the input is the syntax tree. Outputs are zero before they are written.
* The limits (`MaxTemps`, `MaxCode`, ...) are constants; a program that exceeds one
  is refused (`Fail`), and refusing agrees with everything.

### MediaVideo: writers, readers and what they remember

`MediaRange` is the range coder with its carry and its adaptive probabilities, over
smaller words, its loops as folds; `MediaMotion` the motion codec as operators on `mmc_t`: prediction,
macroblocks, bit stream, deblocking, for an encoder and for a decoder;
`MediaTiles` the tile codec, lossless and not. `MediaVideo` is the writer and the
reader: the rows of a frame are decided by threads in any order that the waiting of
the code allows (`Ready`), a frame that does not fit is decided again, writes and
reads fail, one frame loses its end, and the reader seeks in any order.

* What the searches of the encoder choose is an input (`Decisions`), since whatever
  they choose has to be decoded; so is whether an intra attempt was made and lost.
* A block is one sample with two levels and a macroblock 2 x 2 luma blocks and one
  colour block; the second colour plane goes the way of the first.
* `Order` is how threads wait: `"left behind"` as `mosmedia_motion.h:943` asks,
  `"ahead"` as `mosmedia.h:430` f. says.
* Allocation, the growth of the index, the soundtrack and the cap of levels are left
  out. The kernel's decoder (SYS_MEDIA) is taken to leave the pixels alone when it
  answers that it cannot.

## Runs

| run | bounds | shows |
| --- | --- | --- |
| `transfer_safety` | three archives of one and two chunks, two sessions, two rebuilds; the right, the wrong and no password; every fault: rebuild, read, disk, broken connection, connect, timeout, stall, crash, delete, a last write lost in closing, no memory | `VerifiedIsComplete`, `VerifiedWasShown`, `NoPartialStage`, `NoServiceWithoutPassword`, `StayInStep`, and that the download implements `DlrDelivery` (`DeliverySpec`) |
| `transfer_live` | two archives, one rebuild, no timeouts, stalls or crashes, fair processes | `SessionsEnd`: sessions end on both sides |
| `walk_commands` | two packages, four source trees up to depth 3, every order of three commands; copying, packing and deleting fail anywhere, the process is killed at any step | `OfferedIsWhole`, `FailedLeavesNothing`, `RemovedIsGone`, `ListIsExact` |
| `walk_target_copy` | the static array of the Minimal-OS port | a violation, see below |
| `loop` | both builds; three clients of which one never leaves, two slots, three pids; fork, listener, UDP and accept failures, crashes of children, Ctrl+C | `ServedLimit`, `OneServerEach`, `WaitingIsServed`, `InterruptEnds`, `ZombiesAreReaped` |
| `client` | two processes (symmetric), two commands, two servers in a list of two, seven archives; network, disk, lost last writes, kill | `RefusedWritesNothing`, `UndisturbedIsVerified`, `NoTwins`, `DoneIsWhole` |
| `manager` | three servers, two fit in the list, lists of two packages, every handler at every pump | `ListedServer`, `InstallsFromLister`, `OneListener`, `ListsUndisturbed`, `WindowAnswers` |
| `easyui` | eight programs with up to three widgets; handlers make up to two calls during an event; a small drive | `FocusUsable`, `PointersExist`, `SelectionExists`, `OneRadio`, `PickerBlocksInput`, `PicksWhatWasShown` |
| `farcadegl` | eleven programs of a few kinds of calls; three shaders, two textures, one unit, one layout; no memory for commands, a GPU that refuses | `DrawsAsSet`, `RecordedStays`, `DrawsOffScreen` |
| `gl_viewport` | as `farcadegl` | a violation, see below |
| `fgsl` | vectors of three; up to two statements of each stage from 13 and 5, with all declarations or all but one; two inputs | `Agrees`, `FinishedIsSound` |
| `video` | three by two macroblocks, two tiles, up to three frames, two settings of the motion codec and four of the tiles; 486 still pictures | `FrameShown`, `UndamagedDecodes`, `NoDrift`, `ImageComesBack` |

Why the bounds are enough.

* *transfer*: two chunks are the shortest archive with a beginning and an end, so
  that a mixture of two archives can be told from either; archives of equal and of
  different lengths are both there, because the code compares lengths on one side
  and digests on the other. Two rebuilds let the archive change between measuring
  and opening and again while it is read; two sessions let a second download find
  what the first one left. `transfer_safety` opens handles that keep their bytes
  (`HandlePins`); `VerifiedIsComplete` is proved for both kinds.
* *walk*: a tree with a directory in a directory, and faults at any entry of it,
  has copies that succeed and copies that fail at every level. Three commands are a
  present that is cut short, a removal that sticks, and one more.
* *loop*: with two slots and three clients, all slots can be taken while somebody
  waits, one of them for ever; three pids let a slot be taken again while a zombie
  still has its pid.
* *manager*: with three servers for a list of two, a list is empty, partly filled,
  full, and overflows; forgetting the first of two shifts the other.
* *easyui*: two calls are what it takes to remove a widget and use its slot again,
  or to open a box and move the focus; three radio buttons are the smallest group
  in which a handler can interfere between two others. The programs differ in what
  their handlers call, because all calls on all widgets would be the same states
  many times over. The last program opens pickers of all modes on a root with a
  folder and two files, of which one is hidden by the filter, while other programs
  make and delete them: a folder to enter and to leave, one that vanishes while it
  is shown, one with an entry more than is listed, a name that is taken, and one that
  makes the path too long.
* *farcadegl*: eleven programs, each with the kinds of calls that can disturb each
  other; two shaders that can be switched, a third without uniforms, destroyed and
  made again at the same address; two textures, so that one can be dirty while the
  other is destroyed; two values, to tell old from new.
* *client*: two processes are what it takes to disturb; two commands let the second
  find what the first one left. The archives have each of the things that make an
  install hard: long names, a wrapping directory, a copy list with repeated names,
  the manifest in the middle, a package that is asked for by another name than its
  own, damage after the manifest, another system, an unsafe name, a tar announced as an
  `.mpkg`, and a tar whose beginning is another archive, for the last write that is lost.
  The processes are alike in everything the properties say, so that `Symmetric` is sound.
* *fgsl*: two statements of main from the lists in `MCFgsl`, with every
  declaration or all but one. Each line of the lists is there for something the code
  generator does specially (swizzled stores, inlined calls with early returns,
  unrolled loops with break and continue, jumps that meet, matrices, dynamic
  conditions), and two are enough for one to spoil what the other relies on. With
  `Lanes` = 3 a vector that is full and one that is not can be told apart, and two
  vertices take the branches differently.
* *video*: two rows of three macroblocks are the smallest frame in which a row can
  be ahead, a macroblock has all its neighbours, and vectors point outside. Three
  frames have a keyframe, one predicted from it, and one more of either kind. The
  caps are chosen so that some frames do not fit.

No counter in the code grows with these numbers. `CHECK_DEADLOCK FALSE` is said
where behaviours end: sessions are used up, the server stops, the window closes, a
shader or a video is finished. The other runs check deadlock: there is always
another command, event or call.

`TypeOK` of `DlrTransfer`, `StoreWalk`, `ServerLoop`, `DlrClient`, `DeliverManager`
and `FarcadeGl` is proved and not checked again by a run; in the other modules it
documents the state.

**Fairness.** `transfer_live` assumes that each process keeps running
(`WF_vars(Client)`, `WF_vars(Server)`): each is a process of its own that blocks
only in the calls modelled, and the kernel schedules both. Nothing is assumed of
users, the network or other processes. In `ServerLoop` the loop and its children
run, time passes, clients that are not chatty leave some day (or their sessions
time out), and on Minimal-OS the kernel ends a program a second after Ctrl+C
(`docs/process.md`). In `DeliverManager` the thread runs (`WF_vars(Work)`) and its waits have timeouts,
but two are not its own to end and `Work` leaves them out: a client that keeps asking
renews the 120 seconds of its session, a server that keeps sending those of a
download. `WindowAnswers` therefore ends in `"session"` and `"install"` too. Handlers
are never assumed to be called. The other modules state no fairness: their properties are
about what happens, not that something does.

## What the runs found

* `walk_target_copy`: on Minimal-OS a nested `dlr_dir_each` overwrites the array
  the outer one is walking. Presenting a directory that contains a directory can
  succeed and offer a package without some of its files; undoing a failed present
  and listing lose entries the same way, a listing also while no package has a
  directory. Presenting and removing such packages is right there too
  (`OffersAreWhole` and the two after it). The host port, which the end-to-end tests
  run on, has an array per call and none of this.
* `gl_viewport`: `docs/farcadegl.md` says that state changes between draws apply to
  the draws after them, in order. `fglViewport` records its command and the context
  forgets it: a call that submits in the middle of a frame (`fglTextureData` of a
  texture that is in use, the destruction of a texture or a shader) starts a new
  command buffer, and the draws after it use the whole surface again.

Seen in the models, where code and text disagree:

* The README of `dlr` says that each client is served by its own process. On
  Minimal-OS it is served inside the loop (`dlr_server.c:509`), and a client that
  keeps sending PING keeps every other one waiting, and the hello unsent.
  `WaitingIsServed` excepts exactly that.
* A server on the host that has stopped leaves its listening socket to the children
  that still run (`dlr_port_host.c:422`): clients go on being connected and queued, and
  nobody accepts them, until the last child ends. `OneServerEach` names that state
  (`Orphaned`), and `WaitingIsServed` says that such a client is told in the end unless
  one of the children serves a client that never leaves (`Lingering`).
* Start server and the closing of the window in one batch of events: `on_close`
  stops the server, and the queued job starts it afterwards (`main.c:721` of the
  Deliver Manager; its README, line 49, says that closing the window stops it).
* `eui_wheel` (`easyui.h:1317`) asks for the file picker and not for a message box: a
  slider that was under the pointer when the box came up changes with the wheel.
* `docs/easyui.md:250` says that a double-click chooses. `eui_pk_load` resets the
  selection and not `last_item` (`easyui.h:2013`): a single click on a row soon
  after another folder has come up (Up, a place) can count as the second click of a
  double-click, if the row clicked before had the same number. What it chooses was
  shown all the same (`PicksWhatWasShown`).
* `mosmedia.h:430` f. says that a row of macroblocks is at most two ahead of the one
  below; the code, and `mosmedia_motion.h:943`, keep it at least two ahead of it. With
  `Order = "ahead"` `FrameShown` fails.
* `docs/fgsl.md` says that `&&` and `||` give 0.0 or 1.0; the compiler multiplies and
  takes the maximum, so that operands that are not 0 or 1 give something else.
* A local of a caller shadows a global inside an inlined function (`fglsl.h:487`):
  the names of the call are looked up in one table, innermost first. The lines of
  `MCFgsl` have no such names.
* `dlr_tar.h` says that entries of other kinds are skipped with a warning; there is
  none. `mosmedia.h:25` refers to `docs/media.md`, which is not there.
* `writer_finish` of a video without frames succeeds, and `mvid_open` refuses the file.

Seen in the models, with no statement in the repository that they contradict:

* Two clients share one staging file (`dlr_client.c:379`): between the check of the
  digest and the read, another process can replace it, and one package is installed
  under the name of another. `UndisturbedIsVerified` is for commands that run alone.
* A directory with more entries than one listing holds (256 on the host, 64 on
  Minimal-OS) is presented without the rest.
* A rebuild after a crash in the middle of a copy offers the half-copied package.
* `accept_errors` is reset by an accepted connection only, so rare errors add up.
* A last write that is lost as the staging file is closed goes unseen, after the digest
  was found right (`dlr_proto.c:343`): the archive read from it is checked by its own
  format only. `dlr` has no case for the "Out of memory" of a list.
* A sealed frame can be longer than `DLR_MAX_FRAME` allows the other side to take
  (`dlr.h:40`) when a package list is long.
* `dlr add` prints Added when the list is full or cannot be saved; `pick_server`
  refuses even a literal address when the list is empty; an absolute `run=` may name
  a file that the package did not bring (`dlr_client.c:334`).
* `job_present` presents the text that is in the box after its log line was
  pumped; `job_add` reports a server as added that a full list has dropped; Install
  stays disabled after a package was chosen while a client was greeted; the
  highlighted server need not be the one whose packages are listed.
* In easyui, a widget made in the slot of one whose event is under way gets the
  rest of that event; a slider that is disabled while dragged still follows the
  mouse; a dropdown that is hidden, or covered by a box, in its own `ONPRESS` opens
  its list all the same; a selection inside the `ONCHANGE` of another can leave two
  radio buttons of a group selected; `ONRELEASE` never comes for a press that a
  box, a picker or the loss of the focus has ended.
* A context with both `page_flip` and `window_id` flips to a surface that it does not
  have: every other frame is lost (`farcadegl.h:837`).
* A path longer than 255 bytes that a picker returns has lost its end, and may name
  another file (`easyui.h:1959`).
* `fglReadPixels` right after a flip reads the older of the two surfaces; two contexts
  that share a shader each believe that the GPU has its own uniforms.
* When the kernel's decoder gives up with AGAIN or GENERIC half way, rows predicted
  from the last frame (PREV) would be added twice (`mosmedia.h:765`), unless it
  leaves the pixels alone, which the model assumes.

## Proofs

| module | theorem | says |
| --- | --- | --- |
| `DlrTransfer_proofs` | `TypeCorrect` | `Spec => []TypeOK` |
| | `VerifiedDownloadsAreComplete` | `Spec => []VerifiedIsComplete` |
| | `VerifiedDownloadsWereShown` | `Spec => []VerifiedWasShown` |
| | `DownloadImplementsDelivery` | `HandlePins` implies `Spec => DeliverySpec` |
| | `NoPartLeftBehind` | `Spec => []NoPartialStage` |
| | `PasswordGuardsRequests` | `Spec => []NoServiceWithoutPassword` |
| | `PeersStayInStep` | `Spec => []StayInStep` |
| `StoreWalk_proofs` | `TypesHold` | `SharedBuffer => Flat`, `ListingsFit` imply `Spec => []TypeOK` |
| | `OffersAreWhole` | the same for `[]OfferedIsWhole` |
| | `FailuresLeaveNothing` | the same for `[]FailedLeavesNothing` |
| | `RemovalsAreComplete` | the same for `[]RemovedIsGone` |
| | `ListingsAreExact` | `~SharedBuffer`, `ListingsFit` imply `Spec => []ListIsExact` |
| `ServerLoop_proofs` | `TypeCorrect` | `Spec => []TypeOK` |
| | `ServesAtMostMaxClients` | `Spec => []ServedLimit` |
| | `EachHasOneServer` | `Spec => []OneServerEach` |
| `DeliverManager_proofs` | `TypeCorrect` | `Spec => []TypeOK` |
| | `PackagesComeFromTheirServer` | `Spec => []ListedServer` |
| | `InstallsComeFromTheLister` | `Spec => []InstallsFromLister` |
| | `ServesOnce` | `Spec => []OneListener` |
| | `PumpsMoveNoList` | `Spec => ListsUndisturbed` |
| `EasyUi_proofs` | `FocusAlwaysUsable` | `Spec => []FocusUsable` |
| | `PointersAlwaysExist` | `Spec => []PointersExist` |
| | `SelectionsExist` | `Spec => []SelectionExists` |
| | `OneOfAGroup` | `Spec => []OneRadio` |
| | `PickersBlockInput` | `Spec => PickerBlocksInput` |
| | `PicksAreFair` | `Spec => PicksWhatWasShown` |
| `DlrClient_proofs` | `TypeCorrect` | `Spec => []TypeOK` |
| | `RefusalsWriteNothing` | `Spec => []RefusedWritesNothing` |
| | `UndisturbedInstallsVerified` | `Spec => []UndisturbedIsVerified` |
| | `ListHasNoTwins` | `Spec => []NoTwins` |
| | `DoneInstallsAreWhole` | `Spec => DoneIsWhole` |
| `FarcadeGl_proofs` | `TypeCorrect` | `Spec => []TypeOK` |
| | `DrawsWhatWasSet` | `Spec => []DrawsAsSet` |
| | `RecordedDrawsStay` | `Spec => []RecordedStays` |
| | `NeverDrawsOnScreen` | `Spec => []DrawsOffScreen` |
| `MediaVideo_proofs` | `FramesDoNotDrift` | `Spec => []NoDrift` |
| | `ImagesComeBack` | `Spec => []ImageComesBack` |
| | `TilesFramesAreShown` | `Spec => [](TilesVideo => FrameShown)` |
| | `TilesFramesDecode` | `Spec => [](TilesVideo => UndamagedDecodes)` |

They hold for all values of the constants: any archives, passwords and faults, any
number of sessions, clients, slots, pids, servers, packages and directory trees,
widgets, drives, programs, shaders, textures and calls, any pictures of any size and any
number of frames.
Assumptions are only the named `ASSUME`s of each module (archives are non-empty
sequences of chunks, `None` is no client, a saved list has each address once, what a
program has made before the first event is made of widgets as `eui_add` makes them with
a valid selection and one radio button of a group selected at most, a path is a
sequence of names and no file is a folder, the names in an archive are paths that are not
empty, what is presented is a finite directory
tree, a picture, a tile, a run and the table of colours are not empty, the frames that
are given are pictures, a writer has an interval of at least 1, as `mvid_writer_begin`
sees to, bounds are naturals); TLC evaluates them in every run.

**DlrTransfer.** `TypeOK` is not inductive alone: that a frame at the head of a
queue has a chunk or a digest, and that the handle is a file while it is read,
needs `Places` (what holds at each program point). `TypeInv` is the two together.
`VerifiedIsComplete` speaks of the moment `INSTALL_END` arrives, so the invariant
has to say at every earlier moment what is in the pipe: `PipeInv` is the
conjunction of `Handshake` (no frame of a download is in flight before the
request), `Asked` (at most one request is under way), `Announced` (the header is
the first frame of a stream and carries `size`), `Digested` (what the client has
hashed followed by the chunks in flight is what the server has hashed, a prefix of
it once the connection broke), `Staged` (the staging file is what was hashed) and
`Verified`. `StoreInv` adds `Pinned` (the handle holds bytes the store has held),
`HashShown` (what was hashed is a prefix of them) and `Undecided` for the moment
between the two. Both are preserved by each action, one lemma per process. The
refinement maps each step to a step of `DlrDelivery` or to a stutter; that a
delivered file is one of the offered ones is `VerifiedWasShown` in the next state.
`NoPartLeftBehind` adds `Leftover`: the file is as the property says whenever nothing is
received, not only where it looks. The exchange has `SpeechInv`: `Spoken` and `Heard`
give the frames on their way in each direction by the place of their reader, since
either side goes on alone as soon as it has sent. `Heard` carries the weight: a
request can wait behind the key, and does so only when no password lies between.

**StoreWalk.** `Inv` is `Disk`, `Commands` and `Walks`. `Disk` is what holds
of a package whatever happened to it: its tree is part of the tree it came from, a
directory above each entry, none deeper than `MaxDepth`, and its archive if there is
one is whole. `Walks` relates the stack of calls to the disk. Of a copy: the files in
the store are exactly those of the source that no call on the stack has ahead of it
(`Copies`, with `Ahead`: the innermost call has its own entry ahead, the others have
what comes after the entry they are in). Of a removal: each call has ahead of it
exactly what its directory still holds (`Removes`), so that a directory whose call is
through is empty. That a call moves on means one entry less ahead (`AheadAdvanced`,
`OnceLess`); that a callback goes down moves what is below that entry from one call to
the next (`CopyGoesDown`, `RemoveGoesDown`); `CopiedIsBehind` says that no file is
ahead twice. All of it asks of the port one thing only, `Own`: that a call reads each
entry where its listing has put it. `Ports` says what gives it. With an array per call
it is immediate, and `Told` adds of a listing that the packages reported are those no
longer ahead. With one array for all, `Shared`: no source has a directory (`FlatStore`),
so that every walk but a listing is a single call and has the array for itself
(`OneCall`, `WalkStep`).

The theorems have hypotheses. `SharedBuffer => Flat`: on Minimal-OS they are claimed for
packages without directories, since with one they are false, which `walk_target_copy`
shows; of `ListingsAreExact` not even that, `~SharedBuffer`, since finding the manifest
of each package overwrites the listing of the store root. `ListingsFit`: no directory of a source
has more entries than a listing holds, and two per package fit into the store root;
without it the rest is left out (see above). The instance of `walk_commands` satisfies
all of them.

**ServerLoop.** The limit counts processes, the code counts slots. `SlotInv` ties
them: `Remembered` (every running child is in a slot) and `Room` (from finding a free
slot to using it, one stays free); the running processes, and the session inside
the loop, then map one to one into the slots. `OwnerInv` does the same for
connections: `Holding` and `Busy` say when the loop and a child hold one, and no
client is twice in the queue. `QueueInv` says who has the listening socket: there is
nobody in the queue when no process has it.

**DeliverManager.** `Inv` is `TypeOK`, `BusyInv` (`busy` holds exactly inside jobs
and polls, and then no job is queued), `ListInv` (`ListedServer` with the indices in range, and what `at`
means while a list or an install job waits) and `OneListener`. The lemmas
`ListFits`, `Forgetting`, `Merging`, `Adding` and `Growing` say what each
operation does to the array and to an index into it. That pumps move no list
follows from `BusyInv`: every handler that could is behind `busy`. Text boxes are
not behind it, and `ListsUndisturbed` does not speak of them.

**EasyUi.** `Inv` says of the widgets that an empty slot is neither visible nor
enabled and that the four pointers point where they may, and of `todo` that every
step that goes on with a widget names one (`StepRecords`). One lemma per action;
`FocusSet` says what `eui_set_focus` leaves, `Pointed` is for everything that
moves pointers only, `Undisturbed` for everything that changes values only.
`ValueInv` is about values: besides the two properties, that only the first step of
`todo` may set a value, and then one that exists (`Orderly`, `Due`), and that the radio
buttons which the loop of `eui_select_radio` has passed are clear while no selection
nests in another (`Settled`, `Lone`). `PickerAhead` says that a widget the pointer is still on while a picker is up is
about to be left: `eui_pick_start` is not through. `PickInv` (`Known`) says of a picker
that each of its rows joined to its path was listed and is a folder exactly if it is
marked so; `LoadKnown`, `AcceptGives` and `PickerGives` carry that through
`eui_pk_load` and the functions that finish a picker.

**DlrClient.** What one process may find depends on the places of all others, so each
theorem has an invariant of its own over `pc`. `LookedThrough`: before the pass that
writes, nothing is written, and in it the archive in memory is `Installable`.
`StageIsOwn`: a command that is still `alone` is the only busy one (whoever begins
ends that), so that the staging file is what it created, then what it verified.
`ListsAreTwinless`: while `orderly`, one command at most is busy, all loaded lists
are twinless, and the file is empty when a list is written into it. `DbAddTwinless`
and `WrittenOver` say what `dlr_db_add` and the write of `dlr_db_save` do to a list;
`Apart` that a step of one process leaves the others' part alone. `LogInv` relates what
an installation has written to how far it is in its archive (`Log`), and, for one that is
`alone`, to what is installed (`Kept`): of each place the last file dealt with so far, if
it was not missed. That this is what `DoneIsWhole` expects rests on two lemmas about
names: `CanonicalIsEnd` (what `canonical_rel` leaves is an end of the name) and
`Unwrapping` (it leaves `e` exactly of the names that are `e`, wrapped in some way).

**FarcadeGl.** That a draw uses what was set is not inductive: between draws the
GPU may lag behind, and the flags say where. `OnTheGpu` says for each part of the
state that the GPU has it or a flag says that it has not (for the constants: those
of the shader that `uploaded` names). `Following` says that the shader in use
exists and that its own copy of the matrices is right or dirty too, which matters
when a shader is destroyed and another made at its address. `RecordedStays`
follows from `Bound` and `Recorded`: what a recorded draw refers to is alive, with
the pixels of then, until a submit empties `uses`; each operation that would
change that submits first. `DrawsOffScreen` follows from `Frames`, which ties
`back` to what the screen shows through failed presents. The three invariants are
independent of each other and proved one by one.

**MediaVideo.** The codec is a pure algorithm over data of any length, so its proof is
an induction over data. The library's induction theorems take an operator, which no
prover here can instantiate; `Induction` and `GreatestElement` say the same of sets,
from `LessIsWellFounded`, and a set `T` of the numbers for which something holds takes
the place of the predicate. A fold of the community modules is a `CHOOSE` of a
recursive function on sets of indices: `IterationExists` and `IterationIsChain` turn it
into a chain `F[0], F[1], ...`, one step of the loop at a time, and each loop of the
codec has its lemma that it is one (`LossyFrameIsClose` within, `CodeRow`,
`DrawRowChain`, `TileEncodeChain`, `TileDecodeChain`, `DecodeTilesChain`,
`DecodeFromChain`).

`NoDrift` needs that after each pixel of `LossyFrame` those behind it are near
(`NearEnough`), and of the writer that its last picture is one (`DriftInv`).
For the tile codec, `Match` relates the coder to the decoder after each value: the same
table, the same last value, and before the decoder the operations that the coder has
still to add; of a run that the coder is still counting, the decoder, which has taken it
whole, has the rest left. That is only so because an
operation is never taken back, and because a run is written when it ends: `Ahead` says
of a state of the coder what the whole sequence has at its place, a run that is still
being counted included, which may become longer. `NextValueIsCodeValue` is one value,
`PixelComesBack` one pixel with its filter, `RowComesBack`, `TileComesBack` and
`TilesComeBack` the loops around it, where `Covered`, `Covers` and `CoveredBy` say which
pixels are drawn by then; that tiles cover every pixel and each once is `PixelsAreAt`
and `AtIsUnique`. Which filter is taken does not matter, only that one is
(`CheapestExists`).
A filter that looks at the last frame needs that both sides have it, which is the
`SameAs` of `TileComesBack` and what the file adds: `VideoInv` says, while the file is
being written (`BeingWritten`), that each frame shows what is stored, a keyframe over
anything and another over the frame before (`ChunkShows`), that the index has each
where it is, and that the last picture of the writer is the last one stored. Once it is
finished (`BeingRead`), the same but for the damaged frame, and that the reader has what
it believes to have (`Showing`) and what it was asked for (`Asked`).
`KeyBeforeNext` says that a frame hangs on the same keyframe as the one before it unless
it is one, `FromStarts` where `mvid_decode` starts, and `StepShows` and `StepGoes`
what one more frame does: one for all errors, the other for their absence.

Only model-checked: `FrameShown` and `UndamagedDecodes` of a video with the motion
codec, where the range coder (a carry that runs through digits that are held back)
and the predictions would each need an induction of this kind; `Fgsl` (`Agrees`,
`FinishedIsSound`), whose compiler and machine are RECURSIVE operators on syntax trees,
which the prover refuses. And all liveness (`SessionsEnd`, `WaitingIsServed`,
`InterruptEnds`, `ZombiesAreReaped`, `WindowAnswers`): properties under fairness and
ENABLED are beyond the prover. No module with a theorem uses a RECURSIVE operator.

## Plan

In order: what is most important first, and what composes after its parts.

1. Proofs: the motion codec of `MediaVideo`. First the range coder alone: what
   `ReBit` and `ReDirect` write after `ReFlush` is read back by `RdBit` and `RdDirect`,
   by relating `low`, `cache` and `cached` to the number that the digits stand for;
   then that a row of macroblocks never reads what its neighbours have not written.
2. `PkgStore`: several processes in the store (present, rebuild, remove, serve;
   the check at `dlr_registry.c:354` and the copy are far apart); the abstract
   store it should implement, where a package is there or not. The hazard of two
   processes that present one name has no property until then.
3. `EvpGcm`, `FilePool`, the loops of `net.h`: protocols of calls on shared objects.
4. The text editor, lists that scroll and timers of easyui; `easyui_text`.
5. farcadegl with vertex buffers and with two contexts.

## Not modelled, and why

The kernel (not in this repository) appears only as what its calls may return.
Cryptographic arithmetic is replaced by its contract. Drawing, fonts, text layout
and pixel arithmetic have no state whose order can go wrong. Of the shader compiler
the scanner, and of the video encoder the searches are left out: the first is a
function from text to tokens, the second may choose anything. The build scripts and
the bundling tools are sequential programs from files to files. `PROJECT.json` lists
every part with its status.
