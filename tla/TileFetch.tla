----------------------------- MODULE TileFetch -----------------------------
(***************************************************************************)
(* The download of one tile (download_tile in tile_dl.c, http_get and      *)
(* connect_remote_with_timeouts in network.c) by the threads that          *)
(* TileDownloader schedules: the temporary file and its lock, the sockets  *)
(* and file descriptors of the process, and what a failure, a wrong or     *)
(* short response or the end of the process leaves behind.                 *)
(*                                                                         *)
(* A tile is a number of blocks, the same in every response for it.        *)
(* Descriptors are numbers of which the lowest free one is given out.  The *)
(* part of download_tile under the lock of the downloader is one action.   *)
(***************************************************************************)
EXTENDS Integers, Sequences, FiniteSetsExt

CONSTANTS
  Workers,    \* the download threads
  Tiles,
  Blocks,     \* blocks of a tile; a wrong response may have one more
  MaxAddrs,   \* addresses a host name may have
  MaxFd,      \* descriptors the process may have open
  MaxFaults,  \* bound of the model: failures of the network and of writes
  MaxCrashes  \* bound of the model: ends of the process

ASSUME FetchAssumption ==
  /\ 0 \notin Tiles /\ IsFiniteSet(Tiles) /\ IsFiniteSet(Workers)
  /\ Blocks \in Nat \ {0} /\ MaxAddrs \in Nat \ {0} /\ MaxFd \in Nat
  /\ MaxFaults \in Nat /\ MaxCrashes \in Nat

Fds == 1..MaxFd
Inodes == 1..(2 * Cardinality(Tiles) + Cardinality(Workers))
NoFile == 0
Page == 0         \* what a wrong response carries instead of a tile

VARIABLES
  job,        \* each worker: where it is, and the local variables of the two functions
  fds,        \* the descriptor table of the process
  tmp, path,  \* each tile: the file that its temporary name, and its name, lead to
  content,    \* each file: its blocks
  leaked,     \* how many descriptors are open that no worker knows of
  faults, crashes,  \* bounds of the model
  spoiled,    \* history: the tiles of which something happened that may leave a wrong file
  clash       \* history: was the descriptor of another worker closed?

fileVars == <<tmp, path, content>>
vars == <<job, fds, fileVars, leaked, faults, crashes, spoiled, clash>>

Closed == [kind |-> "closed"]
Socket(t, n) == [kind |-> "sock", body |-> t, next |-> 1, length |-> n]
File(i) == [kind |-> "file", ino |-> i, pos |-> 1]    \* opened and locked
Lost == [kind |-> "lost"]                             \* open, but its number is forgotten

NoJob == [at |-> "idle", tile |-> 0, fd |-> 0, sock |-> 0, addrs |-> 0, bad |-> FALSE]

Init ==
  /\ job = [w \in Workers |-> NoJob]
  /\ fds = [n \in Fds |-> Closed]
  /\ tmp = [t \in Tiles |-> NoFile] /\ path = [t \in Tiles |-> NoFile]
  /\ content = [i \in Inodes |-> <<>>]
  /\ leaked = 0 /\ faults = 0 /\ crashes = 0
  /\ spoiled = {} /\ clash = FALSE

-----------------------------------------------------------------------------
(* Descriptors and files *)

FreeFds == {n \in Fds : fds[n] = Closed}
Lowest == Min(FreeFds)

\* flock(LOCK_EX | LOCK_NB) fails: the file is locked through another descriptor.
OpenFiles(table) == {table[n].ino : n \in {m \in Fds : table[m].kind = "file"}}
Locked(i) == i \in OpenFiles(fds)

UnusedInodes == {i \in Inodes : ~Locked(i) /\ \A t \in Tiles : i \notin {tmp[t], path[t]}}

\* What a file holds is of no interest once no name leads to it and it is closed.
Kept(tmps, paths, open) ==
  [i \in Inodes |-> IF i \in open \/ \E t \in Tiles : i \in {tmps[t], paths[t]}
                    THEN content[i] ELSE <<>>]

\* Slip: O_TRUNC is among the flags of open.
Opened_truncated(i) == <<>>
Opened(i) == content[i]

\* Bound of the model: what the workers do once one has lost a descriptor to another is left out.
At(w, place) == job[w].at = place /\ ~clash
Goes(w, place) == job' = [job EXCEPT ![w].at = place]
Fails(w, place) == job' = [job EXCEPT ![w].at = place, ![w].bad = TRUE]

Fault == faults < MaxFaults /\ faults' = faults + 1

-----------------------------------------------------------------------------
(* download_tile up to the release of the lock of the downloader.  A tile that is there already, *)
(* and a file that cannot be opened, change nothing.                                             *)

\* After its file is closed and before it is renamed or deleted, a tile is nobody's.
InGap(t) == \E w \in Workers : job[w].tile = t /\ job[w].at = "post"

Opens(w, t) == At(w, "idle") /\ path[t] = NoFile /\ FreeFds # {}

Starts(w, t) ==
  /\ Opens(w, t) /\ ~Locked(tmp[t])
  /\ \E i \in IF tmp[t] # NoFile THEN {tmp[t]} ELSE {Min(UnusedInodes)} :
       /\ tmp' = [tmp EXCEPT ![t] = i]
       /\ content' = [content EXCEPT ![i] = IF tmp[t] = NoFile THEN <<>> ELSE Opened(i)]
       /\ fds' = [fds EXCEPT ![Lowest] = File(i)]
  /\ \E n \in 1..MaxAddrs :
       job' = [job EXCEPT ![w] = [NoJob EXCEPT !.at = "connect", !.tile = t, !.fd = Lowest,
                                               !.addrs = n]]
  /\ spoiled' = IF InGap(t) THEN spoiled \cup {t} ELSE spoiled
  /\ UNCHANGED <<path, leaked, faults, crashes, clash>>

\* Slip: the temporary file is removed on the way out.
AfterRefusal_removed(t) == NoFile
AfterRefusal(t) == tmp[t]

\* Another thread is at it: no error, and the descriptor just opened stays open.
Refused(w, t) ==
  /\ Opens(w, t) /\ Locked(tmp[t])
  /\ fds' = [fds EXCEPT ![Lowest] = Lost]
  /\ content' = [content EXCEPT ![tmp[t]] = Opened(tmp[t])]
  /\ tmp' = [tmp EXCEPT ![t] = AfterRefusal(t)]
  /\ leaked' = leaked + 1
  /\ UNCHANGED <<job, path, faults, crashes, spoiled, clash>>

-----------------------------------------------------------------------------
(* http_get and connect_remote_with_timeouts *)

\* The socket of the address before is forgotten.
Forgets(w) == leaked' = leaked + (IF job[w].sock # 0 THEN 1 ELSE 0)
Forgotten(w) == [n \in Fds |-> IF n = job[w].sock THEN Lost ELSE fds[n]]

\* Every address of the list gets a socket, all of them connected to the first one.
Connects(w) ==
  /\ At(w, "connect") /\ FreeFds # {}
  /\ Forgets(w)
  /\ fds' = [Forgotten(w) EXCEPT ![Lowest] = Socket(job[w].tile, Blocks)]
  /\ job' = [job EXCEPT ![w].sock = Lowest, ![w].addrs = @ - 1,
                        ![w].at = IF job[w].addrs = 1 THEN "send" ELSE "connect"]
  /\ UNCHANGED <<fileVars, faults, crashes, spoiled, clash>>

\* A URL that does not parse or names a port, an unknown host, no socket, no connection: the
\* last socket, if any, is closed again.
ConnectFails(w) ==
  /\ At(w, "connect")
  /\ IF FreeFds = {} THEN UNCHANGED faults ELSE Fault
  /\ Forgets(w)
  /\ job' = [job EXCEPT ![w].at = "unlock", ![w].bad = TRUE, ![w].sock = 0]
  /\ fds' = Forgotten(w)
  /\ UNCHANGED <<fileVars, crashes, spoiled, clash>>

\* A failed write closes the socket, and leaves its number in sock_fd.
Sends(w) ==
  /\ At(w, "send")
  /\ \/ Goes(w, "head") /\ UNCHANGED <<fds, faults>>
     \/ Fault /\ Fails(w, "reclose") /\ fds' = [fds EXCEPT ![job[w].sock] = Closed]
  /\ UNCHANGED <<fileVars, leaked, crashes, spoiled, clash>>

\* The status line and the headers: a page comes with a content type of its own, which is looked
\* at when the body is in the file.  A connection that ends within a line, after its \r, is read
\* for ever.
ReadsHead(w) ==
  /\ At(w, "head")
  /\ \/ Goes(w, "body") /\ UNCHANGED <<fds, faults>>
     \/ /\ Fault /\ Fails(w, "body")
        /\ \E n \in 1..(Blocks + 1) : fds' = [fds EXCEPT ![job[w].sock] = Socket(Page, n)]
     \/ Fault /\ Fails(w, "close") /\ UNCHANGED fds
     \/ Fault /\ Goes(w, "spin") /\ UNCHANGED fds
  /\ UNCHANGED <<fileVars, leaked, crashes, spoiled, clash>>

\* Block b written at position k, which may leave a hole before it.
Written(blocks, k, b) ==
  [i \in 1..Max({k, Len(blocks)}) |->
    IF i = k THEN b ELSE IF i <= Len(blocks) THEN blocks[i] ELSE <<Page, 0>>]

ReadsBlock(w) ==
  /\ At(w, "body")
  /\ LET s == fds[job[w].sock]
         f == fds[job[w].fd]
     IN /\ content' = [content EXCEPT ![f.ino] = Written(@, f.pos, <<s.body, s.next>>)]
        /\ fds' = [fds EXCEPT ![job[w].fd].pos = @ + 1, ![job[w].sock].next = @ + 1]
        /\ Goes(w, IF s.next = s.length THEN "close" ELSE "body")
  /\ UNCHANGED <<tmp, path, leaked, faults, crashes, spoiled, clash>>

\* A failed read or write, or more than the announced length; a read has no time-out.
BodyFails(w) ==
  /\ At(w, "body") /\ Fault /\ Fails(w, "close")
  /\ UNCHANGED <<fds, fileVars, leaked, crashes, spoiled, clash>>

\* The connection ends before the announced length: not seen as an error.
CutShort(w) ==
  /\ At(w, "body") /\ Fault /\ Goes(w, "close")
  /\ spoiled' = spoiled \cup {job[w].tile}
  /\ UNCHANGED <<fds, fileVars, leaked, crashes, clash>>

\* Slips: the socket is closed on success only; the file is closed instead.
Closing_good(w) == IF job[w].bad THEN {} ELSE {job[w].sock}
Closing_file(w) == {job[w].fd}
Closing(w) == {job[w].sock}

\* END: close(sock_fd), which closes the socket of another if the number is in use again.
Closes(w) ==
  /\ At(w, "close") \/ At(w, "reclose")
  /\ clash' = (At(w, "reclose") /\ fds[job[w].sock] # Closed)
  /\ fds' = [n \in Fds |-> IF n \in Closing(w) THEN Closed ELSE fds[n]]
  /\ job' = [job EXCEPT ![w].at = "unlock", ![w].sock = 0]
  /\ UNCHANGED <<fileVars, leaked, faults, crashes, spoiled>>

-----------------------------------------------------------------------------
(* The rest of download_tile, under no lock *)

Unlocks(w) ==
  /\ At(w, "unlock")
  /\ fds' = [fds EXCEPT ![job[w].fd] = Closed]
  /\ content' = Kept(tmp, path, OpenFiles(fds'))
  /\ job' = [job EXCEPT ![w].at = "post", ![w].fd = 0]
  /\ UNCHANGED <<tmp, path, leaked, faults, crashes, spoiled, clash>>

Accepted(w) == ~job[w].bad

\* rename(), which fails when the temporary name is gone; or unlink()
Posts(w) ==
  /\ At(w, "post")
  /\ LET t == job[w].tile
     IN /\ path' = IF Accepted(w) /\ tmp[t] # NoFile THEN [path EXCEPT ![t] = tmp[t]] ELSE path
        /\ tmp' = [tmp EXCEPT ![t] = NoFile]
  /\ content' = Kept(tmp', path', OpenFiles(fds))
  /\ job' = [job EXCEPT ![w] = NoJob]
  /\ UNCHANGED <<fds, leaked, faults, crashes, spoiled, clash>>

HoldsPage(i) == \E k \in DOMAIN content[i] : content[i][k][1] = Page

\* The process ends wherever its threads are, and is started again: the locks and the descriptors
\* are gone, the files stay.
Crash ==
  /\ crashes < MaxCrashes
  /\ crashes' = crashes + 1
  /\ spoiled' = spoiled \cup {t \in Tiles : tmp[t] # NoFile /\ HoldsPage(tmp[t])}
  /\ job' = [w \in Workers |-> NoJob]
  /\ fds' = [n \in Fds |-> Closed]
  /\ content' = Kept(tmp, path, {})
  /\ leaked' = 0 /\ clash' = FALSE
  /\ UNCHANGED <<tmp, path, faults>>

Step(w) ==
  \/ \E t \in Tiles : Starts(w, t) \/ Refused(w, t)
  \/ Connects(w) \/ ConnectFails(w) \/ Sends(w) \/ ReadsHead(w)
  \/ ReadsBlock(w) \/ BodyFails(w) \/ CutShort(w) \/ Closes(w)
  \/ Unlocks(w) \/ Posts(w)

Next == Crash \/ \E w \in Workers : Step(w)

Spec == Init /\ [][Next]_vars

-----------------------------------------------------------------------------
(* Properties *)

Working(w) == job[w].at \notin {"idle", "post"}

\* Every variable keeps its type; no worker holds a number without an open descriptor, but for the
\* socket a failed request has closed.
FetchTypeOK ==
  /\ job \in [Workers ->
       [at : {"idle", "connect", "send", "head", "spin", "body", "close", "reclose", "unlock",
              "post"},
        tile : Tiles \cup {0}, fd : {0} \cup Fds, sock : {0} \cup Fds, addrs : 0..MaxAddrs,
        bad : BOOLEAN]]
  /\ \A t \in Tiles : {tmp[t], path[t]} \subseteq {NoFile} \cup Inodes
  /\ \A i \in Inodes : Len(content[i]) <= Blocks + 1
  /\ \A w \in Workers : ~clash /\ Working(w) =>
       /\ fds[job[w].fd].kind = "file"
       /\ job[w].sock # 0 /\ job[w].at # "reclose" => fds[job[w].sock].kind = "sock"

\* A published tile is all of that tile and nothing else, at every moment: whatever fails, is
\* refused, or is left behind by an earlier process and opened again without being truncated.
\* There are three exceptions: a response for it ended short, the process ended with a wrong
\* response in its file, or it was fetched again between the close and the rename.
PublishedWhole ==
  \A t \in Tiles \ spoiled :
    path[t] # NoFile => content[path[t]] = [k \in 1..Blocks |-> <<t, k>>]

\* While a worker writes the file of a tile, the temporary name leads to that file, so that its
\* rename publishes what it has written (with the same exceptions), and no other worker has it.
WriterKeepsName ==
  \A w \in Workers : Working(w) /\ job[w].tile \notin spoiled /\ ~clash =>
    /\ tmp[job[w].tile] = fds[job[w].fd].ino
    /\ \A v \in Workers \ {w} : Working(v) => fds[job[v].fd].ino # fds[job[w].fd].ino

\* The descriptors that stay open are those of the workers, one for each refusal and one for each
\* further address of a host: no other path through a download loses one.
DescriptorsAccounted ==
  ~clash => Cardinality(Fds \ FreeFds) =
    leaked + Cardinality({w \in Workers : job[w].fd # 0})
           + Cardinality({w \in Workers : job[w].sock # 0 /\ job[w].at # "reclose"})
=============================================================================
