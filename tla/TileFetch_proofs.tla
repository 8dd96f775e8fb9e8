-------------------------- MODULE TileFetch_proofs --------------------------
(***************************************************************************)
(* Proofs about TileFetch for any numbers of workers, tiles, blocks,       *)
(* addresses and descriptors, and any number of failures and crashes.      *)
(***************************************************************************)
EXTENDS TileFetch, SequenceTheorems, FiniteSetTheorems, TLAPS

-----------------------------------------------------------------------------
(* Numbers *)

\* Min, a choice, has something to choose from.
LEMMA LeastNumber ==
  ASSUME NEW S, S \subseteq Nat, S # {}
  PROVE  /\ Min(S) \in S
         /\ \A y \in S : Min(S) <= y
<1> DEFINE R == StrictSubsetOrdering(Nat)
           T == {0..x : x \in S}
<1>1. IsWellFoundedOn(R, FiniteSubsetsOf(Nat))
  BY FS_StrictSubsetOrderingWellFounded
<1>2. T # {} /\ T \subseteq FiniteSubsetsOf(Nat)
  <2> SUFFICES ASSUME NEW x \in S PROVE (0..x) \in FiniteSubsetsOf(Nat)
    OBVIOUS
  <2> QED
    BY FS_Interval DEF FiniteSubsetsOf
<1>3. \A x, y \in Nat : x < y => <<0..x, 0..y>> \in R
  <2> SUFFICES ASSUME NEW x \in Nat, NEW y \in Nat, x < y PROVE <<0..x, 0..y>> \in R
    OBVIOUS
  <2>1. 0..x \subseteq 0..y /\ y \in 0..y /\ y \notin 0..x
    OBVIOUS
  <2> QED
    BY <2>1 DEF StrictSubsetOrdering
<1> HIDE DEF R
<1>4. \E X \in T : \A Y \in T : ~(<<Y, X>> \in R)
  <2> HIDE DEF T
  <2> QED
    BY <1>1, <1>2, WFMin
<1>5. PICK x \in S : \A y \in S : ~(<<0..y, 0..x>> \in R)
  BY <1>4
<1>6. \A y \in S : x =< y
  <2> SUFFICES ASSUME NEW y \in S, ~(x =< y) PROVE FALSE
    OBVIOUS
  <2>1. x \in Nat /\ y \in Nat /\ y < x
    OBVIOUS
  <2>2. <<0..y, 0..x>> \in R
    BY <1>3, <2>1
  <2> QED
    BY <1>5, <2>2
<1>7. QED
  BY <1>6 DEF Min

LEMMA FdsFinite == IsFiniteSet(Fds) /\ Fds \subseteq Nat \ {0}
BY FetchAssumption, FS_Interval DEF Fds

LEMMA InodesAre ==
  /\ IsFiniteSet(Inodes) /\ Inodes \subseteq Nat \ {0}
  /\ Cardinality(Inodes) = 2 * Cardinality(Tiles) + Cardinality(Workers)
<1> DEFINE n == 2 * Cardinality(Tiles) + Cardinality(Workers)
<1>1. Cardinality(Tiles) \in Nat /\ Cardinality(Workers) \in Nat
  BY FetchAssumption, FS_CardinalityType
<1>2. n \in Nat /\ Inodes = 1..n
  BY <1>1 DEF Inodes
<1> HIDE DEF n
<1>3. Cardinality(1..n) = n /\ IsFiniteSet(1..n)
  BY <1>2, FS_Interval
<1>4. QED
  BY <1>2, <1>3 DEF n

LEMMA MaxOfTwo ==
  ASSUME NEW a \in Nat, NEW b \in Nat
  PROVE  Max({a, b}) = IF a >= b THEN a ELSE b
BY DEF Max

-----------------------------------------------------------------------------
(* The inductive invariant *)

Bodies == Tiles \cup {Page}
BlockSet == Bodies \X Nat
Places ==
  {"idle", "connect", "send", "head", "spin", "body", "close", "reclose", "unlock", "post"}
Jobs == [at : Places, tile : Tiles \cup {0}, fd : {0} \cup Fds, sock : {0} \cup Fds,
         addrs : 0..MaxAddrs, bad : BOOLEAN]

\* The local variables of a worker fit its place.
JobOK(j) ==
  /\ j.at # "idle" => j.tile \in Tiles
  /\ j.fd # 0 <=> j.at \notin {"idle", "post"}
  /\ j.sock # 0 => j.at \notin {"idle", "unlock", "post"}
  /\ j.sock = 0 => j.at \in {"idle", "connect", "unlock", "post"}
  /\ j.at = "connect" => j.addrs # 0
  /\ j.at = "reclose" => j.bad
JobsOK == job \in [Workers -> Jobs] /\ \A w \in Workers : JobOK(job[w])

SocketEntries == [kind : {"sock"}, body : Bodies, next : Nat \ {0}, length : 1..(Blocks + 1)]
FileEntries == [kind : {"file"}, ino : Inodes, pos : Nat \ {0}]
EntryOK(e) == e \in {Closed, Lost} \/ e \in SocketEntries \/ e \in FileEntries
TableOK == fds = [n \in Fds |-> fds[n]] /\ \A n \in Fds : EntryOK(fds[n])

\* No two names lead to one file.
NamesOK ==
  /\ tmp \in [Tiles -> {NoFile} \cup Inodes]
  /\ path \in [Tiles -> {NoFile} \cup Inodes]
  /\ \A t, u \in Tiles :
       /\ tmp[t] # NoFile => tmp[t] # path[u]
       /\ t # u /\ tmp[t] # NoFile => tmp[t] # tmp[u]
       /\ t # u /\ path[t] # NoFile => path[t] # path[u]

ContentOK ==
  /\ content \in [Inodes -> Seq(BlockSet)]
  /\ \A i \in Inodes : Len(content[i]) <= Blocks + 1

FileOf(w) == fds[job[w].fd]
SockOf(w) == fds[job[w].sock]
Connected(w) == job[w].sock # 0 /\ job[w].at # "reclose"

\* What a worker has read and what it has written keep step.
InStep(w) ==
  /\ job[w].at \in {"connect", "send", "head"} => FileOf(w).pos = 1
  /\ job[w].at \in {"send", "head"} => SockOf(w) = Socket(job[w].tile, Blocks)
  /\ job[w].at = "body" =>
       /\ SockOf(w).next = FileOf(w).pos
       /\ SockOf(w).next <= SockOf(w).length
       /\ \/ SockOf(w).body = job[w].tile /\ SockOf(w).length = Blocks
          \/ SockOf(w).body = Page /\ job[w].bad
       /\ FileOf(w).pos <= Len(content[FileOf(w).ino]) + 1

\* The file a worker writes is that of its own tile, and no other tile has it.
HasFile(w) ==
  /\ FileOf(w).kind = "file"
  /\ \A u \in Tiles \ {job[w].tile} : FileOf(w).ino \notin {tmp[u], path[u]}
  /\ job[w].tile \notin spoiled => tmp[job[w].tile] = FileOf(w).ino

Has(w) ==
  /\ Working(w) => HasFile(w) /\ InStep(w)
  /\ Connected(w) => SockOf(w).kind = "sock"
Owned == \A w \in Workers : Has(w)

\* No two workers have one descriptor, or one file.
Apart ==
  \A w, v \in Workers : w # v =>
    /\ Working(w) /\ Working(v) => job[w].fd # job[v].fd /\ FileOf(w).ino # FileOf(v).ino
    /\ Connected(w) /\ Connected(v) => job[w].sock # job[v].sock

\* Every open file and socket is that of a worker, the others are lost.
Known ==
  \A n \in Fds :
    /\ fds[n].kind = "file" => \E w \in Workers : job[w].fd = n
    /\ fds[n].kind = "sock" => \E w \in Workers : Connected(w) /\ job[w].sock = n

DescriptorsOK == Owned /\ Apart /\ Known

LostFds == {n \in Fds : fds[n] = Lost}
LeakOK == ~clash => Cardinality(LostFds) = leaked
BoundsOK == clash \in BOOLEAN /\ leaked \in Nat

On(w, t) == job[w].at # "idle" /\ job[w].tile = t
Alone(t) == \A w, v \in Workers : On(w, t) /\ On(v, t) => w = v

\* The temporary file of a tile holds blocks of that tile at their places, and a page only while
\* one is at it that will delete it.
Clean(t) ==
  tmp[t] # NoFile => \A k \in DOMAIN content[tmp[t]] :
    \/ content[tmp[t]][k] = <<t, k>> /\ k <= Blocks
    \/ content[tmp[t]][k][1] = Page /\ \E w \in Workers : On(w, t) /\ job[w].bad

\* What is to be renamed is complete.
Full(t) ==
  \A w \in Workers : On(w, t) /\ job[w].at \in {"close", "unlock", "post"} /\ ~job[w].bad
    => (tmp[t] # NoFile => Blocks <= Len(content[tmp[t]]))

HistoryOK == \A t \in Tiles \ spoiled : Alone(t) /\ Clean(t) /\ Full(t)

State == JobsOK /\ TableOK /\ NamesOK /\ ContentOK /\ BoundsOK
IInv == State /\ (~clash => DescriptorsOK) /\ LeakOK /\ HistoryOK /\ PublishedWhole

-----------------------------------------------------------------------------
(* Descriptors and files *)

LEMMA KindOf ==
  ASSUME NEW e, EntryOK(e)
  PROVE  /\ e.kind \in {"closed", "lost", "sock", "file"}
         /\ e = Closed <=> e.kind = "closed"
         /\ e = Lost <=> e.kind = "lost"
         /\ e \in SocketEntries <=> e.kind = "sock"
         /\ e \in FileEntries <=> e.kind = "file"
BY DEF EntryOK, Closed, Lost, SocketEntries, FileEntries

LEMMA NewEntries ==
  /\ EntryOK(Closed) /\ EntryOK(Lost) /\ Closed.kind = "closed" /\ Lost.kind = "lost"
  /\ \A i \in Inodes : /\ EntryOK(File(i))
                       /\ File(i).kind = "file" /\ File(i).ino = i /\ File(i).pos = 1
  /\ \A b \in Bodies, n \in 1..(Blocks + 1) :
       /\ EntryOK(Socket(b, n))
       /\ Socket(b, n).kind = "sock" /\ Socket(b, n).body = b
       /\ Socket(b, n).next = 1 /\ Socket(b, n).length = n
BY FetchAssumption DEF EntryOK, Closed, Lost, SocketEntries, FileEntries, Socket, File

LEMMA LowestIsFree ==
  ASSUME FreeFds # {}
  PROVE  Lowest \in Fds /\ fds[Lowest] = Closed /\ Lowest # 0
<1>1. FreeFds \subseteq Fds
  BY DEF FreeFds
<1>2. FreeFds \subseteq Nat
  BY <1>1, FdsFinite
<1>3. Lowest \in FreeFds
  BY <1>2, LeastNumber DEF Lowest
<1>4. QED
  BY <1>3, <1>1, FdsFinite DEF FreeFds

LEMMA WrittenBlocks ==
  ASSUME NEW s \in Seq(BlockSet), NEW k \in Nat \ {0}, k <= Len(s) + 1, NEW b \in BlockSet
  PROVE  /\ Written(s, k, b) \in Seq(BlockSet)
         /\ Len(Written(s, k, b)) = IF k <= Len(s) THEN Len(s) ELSE k
         /\ \A i \in DOMAIN Written(s, k, b) :
              Written(s, k, b)[i] = IF i = k THEN b ELSE s[i]
         /\ \A i \in DOMAIN Written(s, k, b) : i # k => i \in DOMAIN s
<1> DEFINE n == IF k <= Len(s) THEN Len(s) ELSE k
<1>1. n \in Nat /\ Len(s) \in Nat /\ n = Max({k, Len(s)})
  BY MaxOfTwo
<1>2. Written(s, k, b) = [i \in 1..n |-> IF i = k THEN b
                                        ELSE IF i <= Len(s) THEN s[i] ELSE <<Page, 0>>]
  BY <1>1 DEF Written
<1>3. \A i \in 1..n : i # k => i \in 1..Len(s)
  BY <1>1
<1>4. \A i \in 1..Len(s) : s[i] \in BlockSet
  OBVIOUS
<1>5. Written(s, k, b) = [i \in 1..n |-> IF i = k THEN b ELSE s[i]]
  BY <1>1, <1>2, <1>3
<1> DEFINE f == [i \in 1..n |-> IF i = k THEN b ELSE s[i]]
<1>6. f \in [1..n -> BlockSet]
  BY <1>3, <1>4
<1> HIDE DEF n
<1>7. f \in Seq(BlockSet) /\ Len(f) = n /\ DOMAIN f = 1..n
  <2> HIDE DEF f
  <2>1. f \in Seq(BlockSet)
    BY <1>1, <1>6, SeqDef
  <2>2. DOMAIN f = 1..Len(f) /\ Len(f) \in Nat
    BY <2>1, LenProperties
  <2>3. DOMAIN f = 1..n
    BY <1>6
  <2>4. Len(f) = n
    BY <1>1, <2>2, <2>3
  <2> QED
    BY <2>1, <2>3, <2>4
<1>8. DOMAIN s = 1..Len(s)
  OBVIOUS
<1>9. QED
  BY <1>3, <1>5, <1>7, <1>8 DEF n

\* Closing and deleting clears no file that is open or has a name.
LEMMA KeptFiles ==
  ASSUME ContentOK, NEW tmps, NEW paths, NEW open
  PROVE  LET kept == Kept(tmps, paths, open)
         IN /\ kept \in [Inodes -> Seq(BlockSet)]
            /\ \A i \in Inodes : Len(kept[i]) <= Blocks + 1
            /\ \A i \in Inodes : i \in open => kept[i] = content[i]
            /\ \A i \in Inodes, t \in Tiles : i \in {tmps[t], paths[t]} => kept[i] = content[i]
<1> DEFINE kept == Kept(tmps, paths, open)
<1>1. \A i \in Inodes : kept[i] = content[i] \/ kept[i] = <<>>
  BY DEF Kept
<1>2. PICK e \in Seq(BlockSet) : e = <<>> /\ Len(e) = 0
  BY EmptySeq
<1>3. \A i \in Inodes : kept[i] = content[i] \/ kept[i] = e
  BY <1>1, <1>2
<1>4. \A i \in Inodes : kept[i] \in Seq(BlockSet) /\ Len(kept[i]) <= Blocks + 1
  <2> HIDE DEF kept
  <2>1. Blocks \in Nat
    BY FetchAssumption
  <2>2. ASSUME NEW i \in Inodes PROVE kept[i] \in Seq(BlockSet) /\ Len(kept[i]) <= Blocks + 1
    <3>1. CASE kept[i] = content[i]
      BY <3>1 DEF ContentOK
    <3>2. CASE kept[i] = e
      BY <3>2, <1>2, <2>1
    <3> QED
      BY <1>3, <3>1, <3>2
  <2> QED
    BY <2>2
<1>5. kept = [i \in Inodes |-> kept[i]]
  BY DEF Kept
<1>6. \A i \in Inodes : i \in open => kept[i] = content[i]
  BY DEF Kept
<1>7. \A i \in Inodes, t \in Tiles : i \in {tmps[t], paths[t]} => kept[i] = content[i]
  BY DEF Kept
<1> HIDE DEF kept
<1>8. kept \in [Inodes -> Seq(BlockSet)]
  BY <1>4, <1>5
<1>9. QED
  BY <1>4, <1>6, <1>7, <1>8 DEF kept

LEMMA SmallImage ==
  ASSUME NEW S, IsFiniteSet(S), NEW f, f = [x \in S |-> f[x]]
  PROVE  /\ IsFiniteSet({f[x] : x \in S})
         /\ Cardinality({f[x] : x \in S}) \in Nat /\ Cardinality(S) \in Nat
         /\ Cardinality({f[x] : x \in S}) <= Cardinality(S)
<1> DEFINE T == {f[x] : x \in S}
<1>1. f \in [S -> T]
  OBVIOUS
<1>2. f \in Surjection(S, T)
  BY <1>1 DEF Surjection
<1> HIDE DEF T
<1>3. IsFiniteSet(T) /\ Cardinality(T) <= Cardinality(S)
  BY <1>2, FS_Surjection
<1>4. Cardinality(T) \in Nat /\ Cardinality(S) \in Nat
  BY <1>3, FS_CardinalityType
<1>5. QED
  BY <1>3, <1>4 DEF T

LEMMA UnionBound ==
  ASSUME NEW A, NEW B, IsFiniteSet(A), IsFiniteSet(B)
  PROVE  /\ IsFiniteSet(A \cup B)
         /\ Cardinality(A \cup B) \in Nat /\ Cardinality(A) \in Nat /\ Cardinality(B) \in Nat
         /\ Cardinality(A \cup B) <= Cardinality(A) + Cardinality(B)
<1>1. IsFiniteSet(A \cup B) /\ IsFiniteSet(A \cap B)
  BY FS_Union, FS_Intersection
<1>2. /\ Cardinality(A \cup B) \in Nat /\ Cardinality(A) \in Nat /\ Cardinality(B) \in Nat
      /\ Cardinality(A \cap B) \in Nat
  BY <1>1, FS_CardinalityType
<1>3. Cardinality(A \cup B) = Cardinality(A) + Cardinality(B) - Cardinality(A \cap B)
  BY FS_Union
<1>4. QED
  BY <1>1, <1>2, <1>3

\* There are enough files for all workers at once, each with a fresh one.
LEMMA FreshFile ==
  ASSUME State, DescriptorsOK, NEW w \in Workers, job[w].at = "idle"
  PROVE  /\ Min(UnusedInodes) \in Inodes
         /\ Min(UnusedInodes) \notin OpenFiles(fds)
         /\ \A t \in Tiles : Min(UnusedInodes) \notin {tmp[t], path[t]}
<1> DEFINE Writers == {v \in Workers : Working(v)}
           f == [v \in Writers |-> FileOf(v).ino]
           Open == {f[v] : v \in Writers}
           Tmps == {tmp[t] : t \in Tiles}
           Paths == {path[t] : t \in Tiles}
<1>1. IsFiniteSet(Writers) /\ Cardinality(Writers) \in Nat /\ Cardinality(Workers) \in Nat
      /\ Cardinality(Writers) <= Cardinality(Workers) - 1
  <2>1. Writers \subseteq Workers \ {w}
    BY DEF Working
  <2> HIDE DEF Writers
  <2>2. /\ IsFiniteSet(Workers \ {w})
        /\ Cardinality(Workers \ {w}) = Cardinality(Workers) - 1
    BY FetchAssumption, FS_RemoveElement
  <2>3. IsFiniteSet(Writers) /\ Cardinality(Writers) <= Cardinality(Workers \ {w})
    BY <2>1, <2>2, FS_Subset
  <2>4. Cardinality(Writers) \in Nat /\ Cardinality(Workers) \in Nat
    BY <2>3, FetchAssumption, FS_CardinalityType
  <2> QED
    BY <2>2, <2>3, <2>4
<1>2. OpenFiles(fds) = Open
  <2>1. ASSUME NEW n \in Fds, fds[n].kind = "file"
        PROVE  \E v \in Writers : job[v].fd = n
    <3>1. PICK v \in Workers : job[v].fd = n
      BY <2>1 DEF DescriptorsOK, Known
    <3>2. Working(v)
      BY <3>1, FdsFinite DEF State, JobsOK, JobOK, Working, Jobs, Places
    <3> QED
      BY <3>1, <3>2
  <2>2. ASSUME NEW v \in Writers PROVE job[v].fd \in Fds /\ FileOf(v).kind = "file"
    BY DEF DescriptorsOK, Owned, Has, HasFile, State, JobsOK, Jobs, JobOK, Working
  <2>3. OpenFiles(fds) \subseteq Open
    BY <2>1 DEF OpenFiles, FileOf
  <2>4. Open \subseteq OpenFiles(fds)
    BY <2>2 DEF OpenFiles, FileOf
  <2> QED
    BY <2>3, <2>4
<1>3. IsFiniteSet(Open) /\ Cardinality(Open) \in Nat /\ Cardinality(Open) <= Cardinality(Writers)
  <2>1. f = [v \in Writers |-> f[v]]
    OBVIOUS
  <2> HIDE DEF f, Writers
  <2> QED
    BY <1>1, <2>1, SmallImage
<1>4. /\ IsFiniteSet(Tmps) /\ Cardinality(Tmps) \in Nat /\ Cardinality(Tiles) \in Nat
      /\ Cardinality(Tmps) <= Cardinality(Tiles)
  <2>1. tmp = [t \in Tiles |-> tmp[t]]
    BY DEF State, NamesOK
  <2> QED
    BY <2>1, FetchAssumption, SmallImage
<1>5. /\ IsFiniteSet(Paths) /\ Cardinality(Paths) \in Nat
      /\ Cardinality(Paths) <= Cardinality(Tiles)
  <2>1. path = [t \in Tiles |-> path[t]]
    BY DEF State, NamesOK
  <2> QED
    BY <2>1, FetchAssumption, SmallImage
<1> DEFINE U == (Open \cup Tmps) \cup Paths
<1>6. Inodes \ U = UnusedInodes
  BY <1>2 DEF UnusedInodes, Locked
<1> HIDE DEF Open, Tmps, Paths, Writers
<1>7. IsFiniteSet(U) /\ Cardinality(U) \in Nat /\ Cardinality(U) < Cardinality(Inodes)
  <2>1. /\ IsFiniteSet(Open \cup Tmps) /\ Cardinality(Open \cup Tmps) \in Nat
        /\ Cardinality(Open \cup Tmps) <= Cardinality(Open) + Cardinality(Tmps)
    BY <1>3, <1>4, UnionBound
  <2>2. /\ IsFiniteSet(U) /\ Cardinality(U) \in Nat
        /\ Cardinality(U) <= Cardinality(Open \cup Tmps) + Cardinality(Paths)
    BY <2>1, <1>5, UnionBound
  <2> QED
    BY <1>1, <1>3, <1>4, <1>5, <2>1, <2>2, InodesAre
<1> HIDE DEF U
<1>8. ~(Inodes \subseteq U)
  <2> SUFFICES ASSUME Inodes \subseteq U PROVE FALSE
    OBVIOUS
  <2>1. Cardinality(Inodes) <= Cardinality(U) /\ Cardinality(Inodes) \in Nat
    BY <1>7, InodesAre, FS_Subset, FS_CardinalityType
  <2> QED
    BY <1>7, <2>1
<1>9. UnusedInodes # {} /\ UnusedInodes \subseteq Nat
  BY <1>6, <1>8, InodesAre
<1>10. Min(UnusedInodes) \in UnusedInodes
  BY <1>9, LeastNumber
<1>11. QED
  BY <1>10 DEF UnusedInodes, Locked

-----------------------------------------------------------------------------
(* What a step of one worker leaves alone *)

Mine(w, n) == (Working(w) /\ n = job[w].fd) \/ (Connected(w) /\ n = job[w].sock)

\* A step of w leaves the other workers, and the descriptors that are open and not its own.
OnlyOf(w) ==
  /\ \A v \in Workers \ {w} : job'[v] = job[v]
  /\ \A n \in Fds : fds'[n] = fds[n] \/ Mine(w, n) \/ fds[n] = Closed
  /\ spoiled \subseteq spoiled'

\* The files of the other workers keep their contents and their names.
SparesFiles(w) ==
  \A v \in Workers \ {w} : Working(v) =>
    /\ content'[FileOf(v).ino] = content[FileOf(v).ino]
    /\ \A u \in Tiles \ {job[v].tile} : FileOf(v).ino \notin {tmp'[u], path'[u]}
    /\ job[v].tile \notin spoiled' => tmp'[job[v].tile] = FileOf(v).ino

\* The descriptors that w has changed, and those it had, are closed, lost, or still its own.
Settles(w) ==
  /\ Working(w)' => (job'[w].fd = job[w].fd /\ Working(w)) \/ fds[job'[w].fd] = Closed
  /\ Connected(w)' =>
       (job'[w].sock = job[w].sock /\ Connected(w)) \/ fds[job'[w].sock] = Closed
  /\ \A n \in Fds : Mine(w, n) \/ fds'[n] # fds[n] =>
       /\ fds'[n].kind = "file" => n = job'[w].fd
       /\ fds'[n].kind = "sock" => Connected(w)' /\ n = job'[w].sock

LEMMA OwnDescriptors ==
  ASSUME State, NEW w \in Workers
  PROVE  /\ Working(w) <=> job[w].fd # 0
         /\ Working(w) => job[w].fd \in Fds /\ job[w].tile \in Tiles
         /\ Connected(w) => job[w].sock \in Fds /\ Working(w)
         /\ job[w].at \in Places
BY DEF State, JobsOK, JobOK, Jobs, Working, Connected, Places

LEMMA OpenOfOthers ==
  ASSUME State, DescriptorsOK, NEW w \in Workers, OnlyOf(w), NEW v \in Workers \ {w}
  PROVE  /\ Working(v) => fds'[job[v].fd] = FileOf(v) /\ FileOf(v) # Closed
         /\ Connected(v) => fds'[job[v].sock] = SockOf(v) /\ SockOf(v) # Closed
<1>1. Working(v) => FileOf(v).kind = "file" /\ job[v].fd \in Fds
  BY OwnDescriptors DEF DescriptorsOK, Owned, Has, HasFile
<1>2. Connected(v) => SockOf(v).kind = "sock" /\ job[v].sock \in Fds
  BY OwnDescriptors DEF DescriptorsOK, Owned, Has
<1>3. Working(w) => FileOf(w).kind = "file"
  BY DEF DescriptorsOK, Owned, Has, HasFile
<1>4. Connected(w) => SockOf(w).kind = "sock"
  BY DEF DescriptorsOK, Owned, Has
<1>5. Working(v) => ~Mine(w, job[v].fd)
  BY <1>1, <1>4 DEF DescriptorsOK, Apart, Mine, FileOf, SockOf
<1>6. Connected(v) => ~Mine(w, job[v].sock)
  BY <1>2, <1>3 DEF DescriptorsOK, Apart, Mine, FileOf, SockOf
<1>7. Closed.kind = "closed"
  BY DEF Closed
<1>8. QED
  BY <1>1, <1>2, <1>5, <1>6, <1>7 DEF OnlyOf, FileOf, SockOf

LEMMA DescriptorStep ==
  ASSUME State, DescriptorsOK, NEW w \in Workers, OnlyOf(w), SparesFiles(w), Settles(w),
         State', Has(w)',
         Working(w)' => \A v \in Workers \ {w} : Working(v) => FileOf(w)'.ino # FileOf(v).ino
  PROVE  DescriptorsOK'
<1>1. \A v \in Workers \ {w} :
        /\ Working(v)' <=> Working(v)
        /\ Connected(v)' <=> Connected(v)
        /\ Working(v) => FileOf(v)' = FileOf(v)
        /\ Connected(v) => SockOf(v)' = SockOf(v)
        /\ job'[v] = job[v]
  BY OpenOfOthers DEF OnlyOf, Working, Connected, FileOf, SockOf
<1>2. Owned'
  <2> SUFFICES ASSUME NEW v \in Workers PROVE Has(v)'
    BY DEF Owned
  <2>1. CASE v = w
    BY <2>1
  <2>2. CASE v # w
    <3>1. Working(v) => HasFile(v)'
      BY <1>1, <2>2 DEF SparesFiles, HasFile, DescriptorsOK, Owned, Has
    <3>2. Working(v) => InStep(v)'
      <4>1. job[v].at \in {"send", "head", "body"} => Connected(v)
        BY DEF State, JobsOK, JobOK, Connected
      <4>2. Working(v) => InStep(v)
        BY DEF DescriptorsOK, Owned, Has
      <4>3. Working(v) => content'[FileOf(v).ino] = content[FileOf(v).ino]
        BY <2>2 DEF SparesFiles
      <4> QED
        BY <4>1, <4>2, <4>3, <1>1, <2>2 DEF InStep
    <3>3. Connected(v) => SockOf(v)'.kind = "sock"
      BY <1>1, <2>2 DEF DescriptorsOK, Owned, Has
    <3> QED
      BY <1>1, <2>2, <3>1, <3>2, <3>3 DEF Has
  <2> QED
    BY <2>1, <2>2
<1>3. Apart'
  <2> SUFFICES ASSUME NEW u \in Workers, NEW v \in Workers, u # v
               PROVE  /\ (Working(u) /\ Working(v))' =>
                           job'[u].fd # job'[v].fd /\ FileOf(u)'.ino # FileOf(v)'.ino
                      /\ (Connected(u) /\ Connected(v))' => job'[u].sock # job'[v].sock
    BY DEF Apart
  <2>1. ASSUME NEW x \in Workers \ {w}
        PROVE  /\ (Working(w) /\ Working(x))' =>
                    job'[w].fd # job'[x].fd /\ FileOf(w)'.ino # FileOf(x)'.ino
               /\ (Connected(w) /\ Connected(x))' => job'[w].sock # job'[x].sock
    <3>1. Working(x) => FileOf(x) # Closed
      BY <2>1, OpenOfOthers
    <3>2. Connected(x) => SockOf(x) # Closed
      BY <2>1, OpenOfOthers
    <3>3. (Working(w) /\ Working(x))' => job'[w].fd # job'[x].fd
      BY <1>1, <3>1 DEF Settles, DescriptorsOK, Apart, FileOf
    <3>4. (Connected(w) /\ Connected(x))' => job'[w].sock # job'[x].sock
      BY <1>1, <3>2 DEF Settles, DescriptorsOK, Apart, SockOf
    <3> QED
      BY <1>1, <3>3, <3>4
  <2>2. CASE u = w
    BY <2>1, <2>2
  <2>3. CASE v = w
    BY <2>1, <2>3
  <2>4. CASE u # w /\ v # w
    BY <1>1, <2>4 DEF DescriptorsOK, Apart
  <2> QED
    BY <2>2, <2>3, <2>4
<1>4. Known'
  <2> SUFFICES ASSUME NEW n \in Fds
               PROVE  /\ fds'[n].kind = "file" => \E v \in Workers : job'[v].fd = n
                      /\ fds'[n].kind = "sock" =>
                           \E v \in Workers : Connected(v)' /\ job'[v].sock = n
    BY DEF Known
  <2>1. CASE Mine(w, n) \/ fds'[n] # fds[n]
    BY <2>1 DEF Settles
  <2>2. CASE ~Mine(w, n) /\ fds'[n] = fds[n]
    <3>1. ASSUME fds'[n].kind = "file" PROVE \E v \in Workers : job'[v].fd = n
      <4>1. PICK v \in Workers : job[v].fd = n
        BY <2>2, <3>1 DEF DescriptorsOK, Known
      <4>2. Working(v)
        BY <4>1, OwnDescriptors, FdsFinite
      <4>3. v # w
        BY <4>1, <4>2, <2>2 DEF Mine
      <4> QED
        BY <4>1, <4>3, <1>1
    <3>2. ASSUME fds'[n].kind = "sock"
          PROVE  \E v \in Workers : Connected(v)' /\ job'[v].sock = n
      <4>1. PICK v \in Workers : Connected(v) /\ job[v].sock = n
        BY <2>2, <3>2 DEF DescriptorsOK, Known
      <4>2. v # w
        BY <4>1, <2>2 DEF Mine
      <4> QED
        BY <4>1, <4>2, <1>1
    <3> QED
      BY <3>1, <3>2
  <2> QED
    BY <2>1, <2>2
<1>5. QED
  BY <1>2, <1>3, <1>4 DEF DescriptorsOK

LEMMA FilesSpared ==
  ASSUME DescriptorsOK, NEW w \in Workers, OnlyOf(w), UNCHANGED fileVars
  PROVE  SparesFiles(w)
BY DEF DescriptorsOK, Owned, Has, HasFile, OnlyOf, fileVars, SparesFiles

LEMMA SameLost ==
  ASSUME LeakOK, UNCHANGED leaked,
         \A n \in Fds : fds'[n] = Lost <=> fds[n] = Lost, clash = FALSE
  PROVE  LeakOK'
<1>1. LostFds' = LostFds
  BY DEF LostFds
<1>2. QED
  BY <1>1 DEF LeakOK

\* A worker that reads, writes to its socket or fails changes no file.
LEMMA QuietHistory ==
  ASSUME State, HistoryOK, PublishedWhole, NEW w \in Workers, UNCHANGED fileVars,
         \A v \in Workers \ {w} : job'[v] = job[v], spoiled \subseteq spoiled',
         job[w].at # "idle", job'[w].at # "idle", job'[w].tile = job[w].tile,
         job[w].bad => job'[w].bad,
         job'[w].at \in {"close", "unlock", "post"} /\ ~job'[w].bad
           /\ job[w].tile \notin spoiled' => job[w].at \in {"close", "unlock", "post"}
  PROVE  HistoryOK' /\ PublishedWhole'
<1>1. PublishedWhole'
  BY DEF PublishedWhole, fileVars
<1>2. ASSUME NEW t \in Tiles \ spoiled' PROVE (Alone(t) /\ Clean(t) /\ Full(t))'
  <2>1. t \in Tiles \ spoiled
    BY <1>2
  <2>2. \A v \in Workers : On(v, t)' <=> On(v, t)
    BY DEF On
  <2>3. \A v \in Workers : job[v].bad => job'[v].bad
    OBVIOUS
  <2>4. Alone(t)'
    BY <2>1, <2>2 DEF HistoryOK, Alone
  <2>5. Clean(t)'
    <3>1. Clean(t) /\ tmp' = tmp /\ content' = content
      BY <2>1 DEF HistoryOK, fileVars
    <3> QED
      BY <3>1, <2>2, <2>3 DEF Clean
  <2>6. Full(t)'
    <3> SUFFICES ASSUME NEW v \in Workers, On(v, t)', ~job'[v].bad,
                        job'[v].at \in {"close", "unlock", "post"}, tmp[t] # NoFile
                 PROVE  Blocks <= Len(content[tmp[t]])
      BY DEF Full, fileVars
    <3>1. Full(t)
      BY <2>1 DEF HistoryOK
    <3>2. job[v].at \in {"close", "unlock", "post"}
      BY <2>2, <1>2 DEF On
    <3> QED
      BY <3>1, <3>2, <2>2, <2>3 DEF Full
  <2> QED
    BY <2>4, <2>5, <2>6
<1>3. QED
  BY <1>1, <1>2 DEF HistoryOK

\* A step of a worker with its file that changes no file
QuietStep(w) ==
  /\ OnlyOf(w) /\ UNCHANGED fileVars
  /\ Working(w) /\ Working(w)'
  /\ job'[w].tile = job[w].tile /\ job'[w].fd = job[w].fd
  /\ FileOf(w)' = FileOf(w)
  /\ job[w].bad => job'[w].bad
  /\ job'[w].at \in {"close", "unlock"} /\ ~job'[w].bad /\ job[w].tile \notin spoiled' =>
       job[w].at \in {"close", "unlock"}

LEMMA QuietKeeps ==
  ASSUME IInv, clash = FALSE, NEW w \in Workers, QuietStep(w),
         JobsOK', TableOK', BoundsOK', Settles(w), InStep(w)',
         Connected(w)' => SockOf(w)'.kind = "sock", LeakOK'
  PROVE  IInv'
<1>1. State /\ DescriptorsOK /\ HistoryOK /\ PublishedWhole
  BY DEF IInv
<1>2. OnlyOf(w) /\ UNCHANGED fileVars
  BY DEF QuietStep
<1>3. State'
  <2>1. NamesOK'
    BY <1>1, <1>2 DEF State, NamesOK, fileVars
  <2>2. ContentOK'
    BY <1>1, <1>2 DEF State, ContentOK, fileVars
  <2> QED
    BY <2>1, <2>2 DEF State
<1>4. Has(w)'
  <2>1. HasFile(w)
    BY <1>1 DEF QuietStep, DescriptorsOK, Owned, Has
  <2>2. HasFile(w)'
    BY <2>1, <1>2 DEF QuietStep, HasFile, OnlyOf, fileVars
  <2> QED
    BY <2>2 DEF Has
<1>5. \A v \in Workers \ {w} : Working(v) => FileOf(w)'.ino # FileOf(v).ino
  BY <1>1 DEF QuietStep, DescriptorsOK, Apart
<1>6. DescriptorsOK'
  BY <1>1, <1>2, <1>3, <1>4, <1>5, FilesSpared, DescriptorStep
<1>7. HistoryOK' /\ PublishedWhole'
  <2>1. job[w].at # "idle" /\ job'[w].at \notin {"idle", "post"}
    BY DEF QuietStep, Working
  <2>2. job'[w].at \in {"close", "unlock", "post"} /\ ~job'[w].bad /\ job[w].tile \notin spoiled'
          => job[w].at \in {"close", "unlock", "post"}
    BY <2>1 DEF QuietStep
  <2>3. job'[w].tile = job[w].tile /\ (job[w].bad => job'[w].bad)
    BY DEF QuietStep
  <2>4. (\A v \in Workers \ {w} : job'[v] = job[v]) /\ spoiled \subseteq spoiled'
    BY <1>2 DEF OnlyOf
  <2> QED
    BY <1>1, <1>2, <2>1, <2>2, <2>3, <2>4, QuietHistory
<1>8. QED
  BY <1>3, <1>6, <1>7 DEF IInv

\* What is known of a worker at a place where it works
LEMMA WorkerAt ==
  ASSUME IInv, clash = FALSE, NEW w \in Workers, Working(w)
  PROVE  /\ State /\ DescriptorsOK /\ HistoryOK /\ LeakOK
         /\ job[w] \in Jobs /\ JobOK(job[w]) /\ job = [v \in Workers |-> job[v]]
         /\ job[w].fd \in Fds /\ job[w].tile \in Tiles
         /\ FileOf(w).kind = "file" /\ FileOf(w) # Closed /\ FileOf(w) \in FileEntries
         /\ HasFile(w) /\ InStep(w)
         /\ Connected(w) => /\ job[w].sock \in Fds /\ SockOf(w).kind = "sock"
                            /\ SockOf(w) # Closed /\ SockOf(w) \in SocketEntries
                            /\ job[w].sock # job[w].fd
<1>1. State /\ DescriptorsOK /\ HistoryOK /\ LeakOK
  BY DEF IInv
<1>2. job[w] \in Jobs /\ JobOK(job[w]) /\ job = [v \in Workers |-> job[v]]
  BY <1>1 DEF State, JobsOK
<1>3. job[w].fd \in Fds /\ job[w].tile \in Tiles /\ (Connected(w) => job[w].sock \in Fds)
  BY <1>1, OwnDescriptors
<1>4. HasFile(w) /\ InStep(w) /\ (Connected(w) => SockOf(w).kind = "sock")
  BY <1>1 DEF DescriptorsOK, Owned, Has
<1>5. FileOf(w).kind = "file" /\ EntryOK(FileOf(w))
  BY <1>1, <1>3, <1>4 DEF HasFile, State, TableOK, FileOf
<1>6. Connected(w) => EntryOK(SockOf(w))
  BY <1>1, <1>3 DEF State, TableOK, SockOf
<1>7. FileOf(w) # Closed /\ FileOf(w) \in FileEntries
  BY <1>5, KindOf
<1>8. Connected(w) => SockOf(w) # Closed /\ SockOf(w) \in SocketEntries
  BY <1>4, <1>6, KindOf
<1>9. Connected(w) => job[w].sock # job[w].fd
  BY <1>4, <1>5 DEF FileOf, SockOf
<1>10. QED
  BY <1>1, <1>2, <1>3, <1>4, <1>5, <1>7, <1>8, <1>9

LEMMA JobsStep ==
  ASSUME JobsOK, NEW w \in Workers, NEW j \in Jobs, JobOK(j), job' = [job EXCEPT ![w] = j]
  PROVE  JobsOK' /\ job'[w] = j /\ \A v \in Workers \ {w} : job'[v] = job[v]
BY DEF JobsOK

\* One descriptor of the table is changed.
LEMMA TableStep ==
  ASSUME TableOK, NEW n \in Fds, NEW e, EntryOK(e), fds' = [fds EXCEPT ![n] = e]
  PROVE  TableOK' /\ fds'[n] = e /\ \A m \in Fds \ {n} : fds'[m] = fds[m]
BY DEF TableOK

-----------------------------------------------------------------------------
(* http_get and connect_remote_with_timeouts *)

\* A step of a worker that changes no descriptor but its socket, which it keeps or closes
SocketStep(w, j) ==
  /\ job' = [job EXCEPT ![w] = j]
  /\ j.at \notin {"idle", "post"} /\ j.tile = job[w].tile /\ j.fd = job[w].fd
  /\ job[w].bad => j.bad
  /\ j.at \in {"close", "unlock"} /\ ~j.bad /\ job[w].tile \notin spoiled' =>
       job[w].at \in {"close", "unlock"}
  /\ \A n \in Fds : fds'[n] = fds[n] \/ (Connected(w) /\ n = job[w].sock)
  /\ IF Connected(w)' THEN Connected(w) /\ j.sock = job[w].sock /\ fds'[j.sock].kind = "sock"
                      ELSE Connected(w) => fds'[job[w].sock].kind = "closed"
  /\ UNCHANGED <<fileVars, leaked>>
  /\ spoiled \subseteq spoiled' /\ clash' \in BOOLEAN

LEMMA SocketStepKeeps ==
  ASSUME IInv, clash = FALSE, NEW w \in Workers, Working(w), NEW j \in Jobs, JobOK(j),
         SocketStep(w, j), TableOK', InStep(w)'
  PROVE  IInv'
<1>1. JobsOK' /\ job'[w] = j /\ \A v \in Workers \ {w} : job'[v] = job[v]
  BY JobsStep DEF IInv, State, SocketStep
<1>2. /\ j.at \notin {"idle", "post"} /\ j.tile = job[w].tile /\ j.fd = job[w].fd
      /\ \A n \in Fds : fds'[n] = fds[n] \/ (Connected(w) /\ n = job[w].sock)
      /\ UNCHANGED fileVars /\ UNCHANGED leaked /\ spoiled \subseteq spoiled'
  BY DEF SocketStep
<1>3. Working(w)' /\ FileOf(w)' = FileOf(w)
  BY <1>1, <1>2, WorkerAt DEF Working, FileOf
<1>4. QuietStep(w)
  <2>1. OnlyOf(w)
    BY <1>1, <1>2 DEF OnlyOf, Mine
  <2> QED
    BY <1>1, <1>2, <1>3, <2>1 DEF QuietStep, SocketStep
<1>5. CASE Connected(w)'
  <2>1. Connected(w) /\ j.sock = job[w].sock /\ fds'[j.sock].kind = "sock"
    BY <1>5 DEF SocketStep
  <2>2. Settles(w)
    BY <1>1, <1>2, <1>3, <1>5, <2>1, WorkerAt DEF Settles, Mine, FileOf, SockOf
  <2>3. SockOf(w)'.kind = "sock"
    BY <1>1, <2>1 DEF SockOf
  <2>4. LeakOK'
    <3>1. \A n \in Fds : fds[n] = Lost <=> fds[n].kind = "lost"
      BY KindOf DEF IInv, State, TableOK
    <3>2. \A n \in Fds : fds'[n] = Lost <=> fds'[n].kind = "lost"
      BY KindOf DEF TableOK
    <3>3. \A n \in Fds : fds'[n] = Lost <=> fds[n] = Lost
      BY <3>1, <3>2, <1>2, <2>1, WorkerAt DEF SockOf
    <3> QED
      BY <3>3, <1>2, SameLost DEF IInv
  <2>5. BoundsOK'
    BY <1>2 DEF IInv, State, BoundsOK, SocketStep
  <2> QED
    BY <1>1, <1>4, <2>2, <2>3, <2>4, <2>5, QuietKeeps
<1>6. CASE ~Connected(w)'
  <2>1. Connected(w) => fds'[job[w].sock].kind = "closed"
    BY <1>6 DEF SocketStep
  <2>2. Settles(w)
    BY <1>1, <1>2, <1>3, <1>6, <2>1, WorkerAt DEF Settles, Mine, FileOf, SockOf
  <2>3. Connected(w)' => SockOf(w)'.kind = "sock"
    BY <1>6
  <2>4. LeakOK'
    <3>1. \A n \in Fds : fds[n] = Lost <=> fds[n].kind = "lost"
      BY KindOf DEF IInv, State, TableOK
    <3>2. \A n \in Fds : fds'[n] = Lost <=> fds'[n].kind = "lost"
      BY KindOf DEF TableOK
    <3>3. \A n \in Fds : fds'[n] = Lost <=> fds[n] = Lost
      BY <3>1, <3>2, <1>2, <2>1, WorkerAt DEF SockOf
    <3> QED
      BY <3>3, <1>2, SameLost DEF IInv
  <2>5. BoundsOK'
    BY <1>2 DEF IInv, State, BoundsOK, SocketStep
  <2> QED
    BY <1>1, <1>4, <2>2, <2>3, <2>4, <2>5, QuietKeeps
<1>7. QED
  BY <1>5, <1>6


-----------------------------------------------------------------------------
(* http_get and connect_remote_with_timeouts *)

LEMMA BodyFailsKeeps ==
  ASSUME IInv, NEW w \in Workers, BodyFails(w)
  PROVE  IInv'
<1>1. clash = FALSE /\ job[w].at = "body" /\ Working(w)
  BY DEF BodyFails, At, IInv, State, BoundsOK, Working
<1> DEFINE j == [job[w] EXCEPT !.at = "close", !.bad = TRUE]
<1>2. job' = [job EXCEPT ![w] = j] /\ UNCHANGED <<fds, fileVars, leaked, spoiled, clash>>
  BY DEF BodyFails, Fails
<1>3. j \in Jobs /\ JobOK(j)
  BY <1>1, WorkerAt DEF Jobs, Places, JobOK
<1>4. j.at = "close" /\ j.bad /\ j.tile = job[w].tile /\ j.fd = job[w].fd /\ j.sock = job[w].sock
  BY <1>1, WorkerAt DEF Jobs
<1> HIDE DEF j
<1>5. job'[w] = j
  BY <1>1, <1>2, WorkerAt
<1>6. Connected(w) /\ Connected(w)'
  BY <1>1, <1>4, <1>5, WorkerAt DEF Connected, JobOK
<1>7. SocketStep(w, j)
  BY <1>1, <1>2, <1>4, <1>6, WorkerAt DEF SocketStep, SockOf
<1>8. TableOK' /\ InStep(w)'
  BY <1>2, <1>4, <1>5 DEF IInv, State, TableOK, InStep
<1>9. QED
  BY <1>1, <1>3, <1>7, <1>8, SocketStepKeeps

LEMMA CutShortKeeps ==
  ASSUME IInv, NEW w \in Workers, CutShort(w)
  PROVE  IInv'
<1>1. clash = FALSE /\ job[w].at = "body" /\ Working(w)
  BY DEF CutShort, At, IInv, State, BoundsOK, Working
<1> DEFINE j == [job[w] EXCEPT !.at = "close"]
<1>2. /\ job' = [job EXCEPT ![w] = j] /\ UNCHANGED <<fds, fileVars, leaked, clash>>
      /\ spoiled' = spoiled \cup {job[w].tile}
  BY DEF CutShort, Goes
<1>3. j \in Jobs /\ JobOK(j)
  BY <1>1, WorkerAt DEF Jobs, Places, JobOK
<1>4. /\ j.at = "close" /\ j.bad = job[w].bad
      /\ j.tile = job[w].tile /\ j.fd = job[w].fd /\ j.sock = job[w].sock
  BY <1>1, WorkerAt DEF Jobs
<1> HIDE DEF j
<1>5. job'[w] = j
  BY <1>1, <1>2, WorkerAt
<1>6. Connected(w) /\ Connected(w)'
  BY <1>1, <1>4, <1>5, WorkerAt DEF Connected, JobOK
<1>7. SocketStep(w, j)
  BY <1>1, <1>2, <1>4, <1>6, WorkerAt DEF SocketStep, SockOf
<1>8. TableOK' /\ InStep(w)'
  BY <1>2, <1>4, <1>5 DEF IInv, State, TableOK, InStep
<1>9. QED
  BY <1>1, <1>3, <1>7, <1>8, SocketStepKeeps

LEMMA SendsKeeps ==
  ASSUME IInv, NEW w \in Workers, Sends(w)
  PROVE  IInv'
<1>1. clash = FALSE /\ job[w].at = "send" /\ Working(w)
  BY DEF Sends, At, IInv, State, BoundsOK, Working
<1>2. Connected(w)
  BY <1>1, WorkerAt DEF Connected, JobOK
<1>3. UNCHANGED <<fileVars, leaked, spoiled, clash>>
  BY DEF Sends
<1>4. CASE Goes(w, "head") /\ UNCHANGED fds
  <2> DEFINE j == [job[w] EXCEPT !.at = "head"]
  <2>1. job' = [job EXCEPT ![w] = j]
    BY <1>4 DEF Goes
  <2>2. j \in Jobs /\ JobOK(j)
    BY <1>1, WorkerAt DEF Jobs, Places, JobOK
  <2>3. /\ j.at = "head" /\ j.bad = job[w].bad
        /\ j.tile = job[w].tile /\ j.fd = job[w].fd /\ j.sock = job[w].sock
    BY <1>1, WorkerAt DEF Jobs
  <2> HIDE DEF j
  <2>4. job'[w] = j
    BY <1>1, <2>1, WorkerAt
  <2>5. Connected(w)'
    BY <1>2, <2>3, <2>4 DEF Connected
  <2>6. SocketStep(w, j)
    BY <1>1, <1>2, <1>3, <1>4, <2>1, <2>3, <2>5, WorkerAt DEF SocketStep, SockOf
  <2>7. InStep(w)'
    BY <1>1, <1>4, <2>3, <2>4, WorkerAt DEF InStep, FileOf, SockOf
  <2>8. TableOK'
    BY <1>4 DEF IInv, State, TableOK
  <2> QED
    BY <1>1, <2>2, <2>6, <2>7, <2>8, SocketStepKeeps
<1>5. CASE Fails(w, "reclose") /\ fds' = [fds EXCEPT ![job[w].sock] = Closed]
  <2> DEFINE j == [job[w] EXCEPT !.at = "reclose", !.bad = TRUE]
  <2>1. job' = [job EXCEPT ![w] = j]
    BY <1>5 DEF Fails
  <2>2. j \in Jobs /\ JobOK(j)
    BY <1>1, WorkerAt DEF Jobs, Places, JobOK
  <2>3. /\ j.at = "reclose" /\ j.bad
        /\ j.tile = job[w].tile /\ j.fd = job[w].fd /\ j.sock = job[w].sock
    BY <1>1, WorkerAt DEF Jobs
  <2> HIDE DEF j
  <2>4. job'[w] = j
    BY <1>1, <2>1, WorkerAt
  <2>5. ~Connected(w)'
    BY <2>3, <2>4 DEF Connected
  <2>6. TableOK' /\ fds'[job[w].sock] = Closed /\ \A n \in Fds \ {job[w].sock} : fds'[n] = fds[n]
    BY <1>1, <1>2, <1>5, WorkerAt, NewEntries, TableStep DEF State
  <2>7. SocketStep(w, j)
    <3>1. \A n \in Fds : fds'[n] = fds[n] \/ (Connected(w) /\ n = job[w].sock)
      BY <1>1, <1>2, <2>6, WorkerAt
    <3>2. fds'[job[w].sock].kind = "closed"
      BY <2>6, NewEntries
    <3> QED
      BY <1>1, <1>2, <1>3, <2>1, <2>3, <2>5, <3>1, <3>2 DEF SocketStep
  <2>8. InStep(w)'
    BY <2>3, <2>4 DEF InStep
  <2> QED
    BY <1>1, <2>2, <2>6, <2>7, <2>8, SocketStepKeeps
<1>6. QED
  BY <1>4, <1>5 DEF Sends

LEMMA ReadsHeadKeeps ==
  ASSUME IInv, NEW w \in Workers, ReadsHead(w)
  PROVE  IInv'
<1>1. clash = FALSE /\ job[w].at = "head" /\ Working(w)
  BY DEF ReadsHead, At, IInv, State, BoundsOK, Working
<1>2. Connected(w)
  BY <1>1, WorkerAt DEF Connected, JobOK
<1>3. UNCHANGED <<fileVars, leaked, spoiled, clash>>
  BY DEF ReadsHead
<1>4. ASSUME NEW p \in {"body", "close", "spin"}, NEW b \in BOOLEAN,
             job' = [job EXCEPT ![w].at = p, ![w].bad = b],
             job[w].bad => b, p = "close" => b,
             TableOK', \A n \in Fds \ {job[w].sock} : fds'[n] = fds[n],
             fds'[job[w].sock].kind = "sock",
             p = "body" => /\ fds'[job[w].sock].next = 1 /\ fds'[job[w].sock].length >= 1
                           /\ \/ fds'[job[w].sock] = Socket(job[w].tile, Blocks)
                              \/ fds'[job[w].sock].body = Page /\ b
      PROVE  IInv'
  <2> DEFINE j == [job[w] EXCEPT !.at = p, !.bad = b]
  <2>1. job' = [job EXCEPT ![w] = j]
    BY <1>4
  <2>2. j \in Jobs /\ JobOK(j)
    BY <1>1, <1>2, WorkerAt DEF Jobs, Places, JobOK, Connected
  <2>3. /\ j.at = p /\ j.bad = b
        /\ j.tile = job[w].tile /\ j.fd = job[w].fd /\ j.sock = job[w].sock
    BY <1>1, WorkerAt DEF Jobs
  <2> HIDE DEF j
  <2>4. job'[w] = j
    BY <1>1, <2>1, WorkerAt
  <2>5. Connected(w)'
    BY <1>2, <2>3, <2>4 DEF Connected
  <2>6. SocketStep(w, j)
    BY <1>1, <1>2, <1>3, <1>4, <2>1, <2>3, <2>5, WorkerAt DEF SocketStep
  <2>7. InStep(w)'
    <3> SUFFICES ASSUME p = "body" PROVE InStep(w)'
      BY <2>3, <2>4 DEF InStep
    <3>1. FileOf(w)' = FileOf(w) /\ FileOf(w).pos = 1 /\ FileOf(w).ino \in Inodes
      <4>1. job[w].fd \in Fds \ {job[w].sock} /\ FileOf(w).pos = 1
        BY <1>1, <1>2, WorkerAt DEF InStep
      <4>2. fds'[job[w].fd] = fds[job[w].fd] /\ job'[w].fd = job[w].fd
        BY <4>1, <1>4, <2>3, <2>4
      <4>3. FileOf(w) \in FileEntries
        BY <1>1, WorkerAt
      <4> QED
        BY <4>1, <4>2, <4>3 DEF FileOf, FileEntries
    <3>2. SockOf(w)' = fds'[job[w].sock]
      BY <2>3, <2>4 DEF SockOf
    <3>3. \/ SockOf(w)'.body = job[w].tile /\ SockOf(w)'.length = Blocks
          \/ SockOf(w)'.body = Page /\ b
      BY <1>4, <3>2 DEF Socket
    <3>4. SockOf(w)'.next = 1 /\ 1 <= SockOf(w)'.length
      BY <1>4, <3>2
    <3>5. 1 <= Len(content'[FileOf(w).ino]) + 1
      BY <1>1, <1>3, <3>1, WorkerAt DEF State, ContentOK, fileVars
    <3> QED
      BY <2>3, <2>4, <3>1, <3>3, <3>4, <3>5 DEF InStep
  <2> QED
    BY <1>1, <1>4, <2>2, <2>6, <2>7, SocketStepKeeps
<1>5. SockOf(w) = Socket(job[w].tile, Blocks)
  BY <1>1, WorkerAt DEF InStep
<1>6. job[w].tile \in Bodies /\ Blocks \in Nat /\ Blocks >= 1 /\ Page \in Bodies
  <2>1. job[w].tile \in Tiles
    BY <1>1, WorkerAt
  <2> QED
    BY <2>1, FetchAssumption DEF Bodies
<1>7. /\ SockOf(w).kind = "sock" /\ SockOf(w).next = 1 /\ SockOf(w).length = Blocks
      /\ SockOf(w).body = job[w].tile
  BY <1>5 DEF Socket
<1>8. CASE Goes(w, "body") /\ UNCHANGED fds
  <2>1. job' = [job EXCEPT ![w].at = "body", ![w].bad = job[w].bad]
    BY <1>1, <1>8, WorkerAt DEF Goes, Jobs
  <2>2. TableOK'
    BY <1>8 DEF IInv, State, TableOK
  <2>3. job[w].bad \in BOOLEAN
    BY <1>1, WorkerAt DEF Jobs
  <2> QED
    BY <1>4, <1>5, <1>6, <1>7, <1>8, <2>1, <2>2, <2>3 DEF SockOf
<1>9. CASE /\ Fails(w, "body")
           /\ \E n \in 1..(Blocks + 1) : fds' = [fds EXCEPT ![job[w].sock] = Socket(Page, n)]
  <2>1. PICK n \in 1..(Blocks + 1) : fds' = [fds EXCEPT ![job[w].sock] = Socket(Page, n)]
    BY <1>9
  <2>2. /\ EntryOK(Socket(Page, n)) /\ Socket(Page, n).kind = "sock"
        /\ Socket(Page, n).body = Page /\ Socket(Page, n).next = 1 /\ Socket(Page, n).length = n
    BY <1>6, NewEntries
  <2>3. /\ TableOK' /\ fds'[job[w].sock] = Socket(Page, n)
        /\ \A m \in Fds \ {job[w].sock} : fds'[m] = fds[m]
    BY <1>1, <1>2, <2>1, <2>2, WorkerAt, TableStep DEF State
  <2>4. job' = [job EXCEPT ![w].at = "body", ![w].bad = TRUE]
    BY <1>9 DEF Fails
  <2>5. n >= 1
    BY <1>6
  <2> QED
    BY <1>4, <2>2, <2>3, <2>4, <2>5
<1>10. CASE Fails(w, "close") /\ UNCHANGED fds
  <2>1. job' = [job EXCEPT ![w].at = "close", ![w].bad = TRUE]
    BY <1>10 DEF Fails
  <2>2. TableOK'
    BY <1>10 DEF IInv, State, TableOK
  <2> QED
    BY <1>4, <1>7, <1>10, <2>1, <2>2 DEF SockOf
<1>11. CASE Goes(w, "spin") /\ UNCHANGED fds
  <2>1. job' = [job EXCEPT ![w].at = "spin", ![w].bad = job[w].bad]
    BY <1>1, <1>11, WorkerAt DEF Goes, Jobs
  <2>2. TableOK'
    BY <1>11 DEF IInv, State, TableOK
  <2>3. job[w].bad \in BOOLEAN
    BY <1>1, WorkerAt DEF Jobs
  <2> QED
    BY <1>4, <1>7, <1>11, <2>1, <2>2, <2>3 DEF SockOf
<1>12. QED
  BY <1>8, <1>9, <1>10, <1>11 DEF ReadsHead

\* The close that closes what is not its own is the last step of the workers that is modelled.
LEMMA ClosesKeeps ==
  ASSUME IInv, NEW w \in Workers, Closes(w)
  PROVE  IInv'
<1>1. /\ clash = FALSE /\ Working(w) /\ job[w].sock # 0
      /\ \/ job[w].at = "close" /\ Connected(w)
         \/ job[w].at = "reclose" /\ ~Connected(w)
  <2>1. clash = FALSE /\ job[w].at \in {"close", "reclose"} /\ Working(w)
    BY DEF Closes, At, IInv, State, BoundsOK, Working
  <2>2. job[w].sock # 0
    BY <2>1, WorkerAt DEF JobOK
  <2> QED
    BY <2>1, <2>2 DEF Connected
<1>2. job[w].sock \in Fds
  BY <1>1, WorkerAt DEF Jobs
<1>3. UNCHANGED <<fileVars, leaked, spoiled>>
  BY DEF Closes
<1> DEFINE j == [job[w] EXCEPT !.at = "unlock", !.sock = 0]
<1>4. job' = [job EXCEPT ![w] = j]
  BY DEF Closes
<1>5. j \in Jobs /\ JobOK(j)
  BY <1>1, WorkerAt DEF Jobs, Places, JobOK
<1>6. /\ j.at = "unlock" /\ j.bad = job[w].bad
      /\ j.tile = job[w].tile /\ j.fd = job[w].fd /\ j.sock = 0
  BY <1>1, WorkerAt DEF Jobs
<1> HIDE DEF j
<1>7. job'[w] = j /\ JobsOK' /\ \A v \in Workers \ {w} : job'[v] = job[v]
  BY <1>4, <1>5, JobsStep DEF IInv, State
<1>8. fds' = [fds EXCEPT ![job[w].sock] = Closed]
  <2>1. fds = [n \in Fds |-> fds[n]]
    BY DEF IInv, State, TableOK
  <2>2. fds' = [n \in Fds |-> IF n = job[w].sock THEN Closed ELSE fds[n]]
    BY DEF Closes, Closing
  <2> QED
    BY <2>1, <2>2
<1>9. /\ TableOK' /\ fds'[job[w].sock] = Closed
      /\ \A n \in Fds \ {job[w].sock} : fds'[n] = fds[n]
  BY <1>2, <1>8, NewEntries, TableStep DEF IInv, State
<1>10. clash' = (job[w].at = "reclose" /\ fds[job[w].sock] # Closed)
  BY <1>1 DEF Closes, At
<1>11. ~Connected(w)' /\ InStep(w)'
  BY <1>6, <1>7 DEF Connected, InStep
<1>12. CASE clash' = FALSE
  <2>1. Connected(w) \/ fds' = fds
    <3>1. CASE Connected(w)
      BY <3>1
    <3>2. CASE job[w].at = "reclose"
      <4>1. fds[job[w].sock] = Closed
        BY <1>10, <1>12, <3>2
      <4> QED
        BY <1>8, <4>1, <1>2 DEF IInv, State, TableOK
    <3> QED
      BY <1>1, <3>1, <3>2
  <2>2. \A n \in Fds : fds'[n] = fds[n] \/ (Connected(w) /\ n = job[w].sock)
    BY <1>9, <2>1
  <2>3. job[w].bad \/ job[w].at = "close"
    BY <1>1, WorkerAt DEF JobOK
  <2>4. SocketStep(w, j)
    BY <1>3, <1>4, <1>6, <1>9, <1>11, <1>12, <2>2, <2>3, NewEntries DEF SocketStep
  <2> QED
    BY <1>1, <1>5, <1>9, <1>11, <2>4, SocketStepKeeps
<1>13. CASE clash' = TRUE
  <2>1. job[w].bad /\ job[w].at = "reclose"
    BY <1>1, <1>10, <1>13, WorkerAt DEF JobOK
  <2>3. State'
    <3>1. NamesOK' /\ ContentOK'
      BY <1>3 DEF IInv, State, NamesOK, ContentOK, fileVars
    <3>2. BoundsOK'
      BY <1>3, <1>13 DEF IInv, State, BoundsOK
    <3> QED
      BY <1>7, <1>9, <3>1, <3>2 DEF State
  <2>4. HistoryOK' /\ PublishedWhole'
    <3>1. /\ job[w].at # "idle" /\ job'[w].at # "idle" /\ job'[w].tile = job[w].tile
          /\ job'[w].bad
      BY <1>6, <1>7, <2>1
    <3>2. UNCHANGED fileVars /\ spoiled \subseteq spoiled'
      BY <1>3
    <3> QED
      BY <1>7, <3>1, <3>2, QuietHistory DEF IInv
  <2> QED
    BY <1>13, <2>3, <2>4 DEF IInv, LeakOK
<1>14. QED
  BY <1>10, <1>12, <1>13

LEMMA ForgottenSocket ==
  ASSUME IInv, clash = FALSE, NEW w \in Workers, job[w].at = "connect"
  PROVE  /\ Working(w) /\ (Connected(w) <=> job[w].sock # 0)
         /\ \A n \in Fds : EntryOK(Forgotten(w)[n])
         /\ \A n \in Fds : Forgotten(w)[n] = fds[n]
                             \/ (Connected(w) /\ n = job[w].sock /\ Forgotten(w)[n] = Lost)
         /\ Connected(w) => Forgotten(w)[job[w].sock] = Lost
         /\ Cardinality({n \in Fds : Forgotten(w)[n] = Lost})
              = leaked + (IF job[w].sock # 0 THEN 1 ELSE 0)
<1>1. Working(w) /\ (Connected(w) <=> job[w].sock # 0)
  BY DEF Working, Connected
<1>2. 0 \notin Fds
  BY FdsFinite
<1>3. \A n \in Fds : Forgotten(w)[n] = fds[n]
                       \/ (Connected(w) /\ n = job[w].sock /\ Forgotten(w)[n] = Lost)
  BY <1>1, <1>2 DEF Forgotten
<1>4. \A n \in Fds : EntryOK(Forgotten(w)[n])
  BY <1>3, NewEntries DEF IInv, State, TableOK
<1>5. Connected(w) => Forgotten(w)[job[w].sock] = Lost
  BY <1>1, WorkerAt DEF Forgotten
<1> DEFINE L == {n \in Fds : Forgotten(w)[n] = Lost}
<1>6. Cardinality(LostFds) = leaked /\ leaked \in Nat
  BY DEF IInv, LeakOK, State, BoundsOK
<1>7. IsFiniteSet(LostFds)
  BY FdsFinite, FS_Subset DEF LostFds
<1>8. CASE job[w].sock = 0
  <2>1. L = LostFds
    BY <1>1, <1>3, <1>8 DEF LostFds
  <2> QED
    BY <1>1, <1>3, <1>4, <1>5, <1>6, <1>8, <2>1
<1>9. CASE job[w].sock # 0
  <2>1. job[w].sock \in Fds /\ fds[job[w].sock] # Lost
    BY <1>1, <1>9, WorkerAt, NewEntries DEF SockOf
  <2>2. L = LostFds \cup {job[w].sock} /\ job[w].sock \notin LostFds
    BY <1>1, <1>3, <1>5, <1>9, <2>1 DEF LostFds
  <2>3. Cardinality(L) = Cardinality(LostFds) + 1
    <3> HIDE DEF L
    <3> QED
      BY <1>7, <2>2, FS_AddElement
  <2> QED
    BY <1>1, <1>3, <1>4, <1>5, <1>6, <1>9, <2>3
<1>10. QED
  BY <1>8, <1>9

LEMMA ConnectFailsKeeps ==
  ASSUME IInv, NEW w \in Workers, ConnectFails(w)
  PROVE  IInv'
<1>1. clash = FALSE /\ job[w].at = "connect" /\ Working(w)
  BY DEF ConnectFails, At, IInv, State, BoundsOK, Working
<1>2. UNCHANGED <<fileVars, spoiled, clash>> /\ fds' = Forgotten(w)
      /\ leaked' = leaked + (IF job[w].sock # 0 THEN 1 ELSE 0)
  BY DEF ConnectFails, Forgets
<1> DEFINE j == [job[w] EXCEPT !.at = "unlock", !.bad = TRUE, !.sock = 0]
<1>3. job' = [job EXCEPT ![w] = j]
  BY DEF ConnectFails
<1>4. j \in Jobs /\ JobOK(j)
  BY <1>1, WorkerAt DEF Jobs, Places, JobOK
<1>5. j.at = "unlock" /\ j.bad /\ j.tile = job[w].tile /\ j.fd = job[w].fd /\ j.sock = 0
  BY <1>1, WorkerAt DEF Jobs
<1> HIDE DEF j
<1>6. job'[w] = j /\ JobsOK' /\ \A v \in Workers \ {w} : job'[v] = job[v]
  BY <1>3, <1>4, JobsStep DEF IInv, State
<1>7. TableOK'
  BY <1>1, <1>2, ForgottenSocket DEF TableOK, Forgotten
<1>8. \A n \in Fds : fds'[n] = fds[n] \/ (Connected(w) /\ n = job[w].sock /\ fds'[n] = Lost)
  BY <1>1, <1>2, ForgottenSocket
<1>9. OnlyOf(w)
  BY <1>2, <1>6, <1>8 DEF OnlyOf, Mine
<1>10. FileOf(w)' = FileOf(w) /\ Working(w)' /\ ~Connected(w)' /\ InStep(w)'
  <2>1. /\ job'[w].fd = job[w].fd /\ job'[w].at = "unlock" /\ job'[w].sock = 0
        /\ fds'[job[w].fd] = fds[job[w].fd]
    BY <1>1, <1>5, <1>6, <1>8, WorkerAt
  <2>2. FileOf(w)' = FileOf(w)
    BY <2>1 DEF FileOf
  <2> QED
    BY <2>1, <2>2 DEF Working, Connected, InStep
<1>11. QuietStep(w)
  BY <1>1, <1>2, <1>5, <1>6, <1>9, <1>10 DEF QuietStep
<1>12. Settles(w)
  <2>1. \A n \in Fds : Mine(w, n) \/ fds'[n] # fds[n] =>
          n = job[w].fd \/ fds'[n] = Lost
    BY <1>1, <1>2, <1>8, ForgottenSocket DEF Mine
  <2>2. fds'[job[w].fd].kind = "file"
    <3>1. fds'[job[w].fd] = fds[job[w].fd] /\ FileOf(w).kind = "file"
      BY <1>1, <1>8, WorkerAt
    <3> QED
      BY <3>1 DEF FileOf
  <2> QED
    BY <1>1, <1>5, <1>6, <1>10, <2>1, <2>2, NewEntries DEF Settles
<1>13. BoundsOK'
  BY <1>2 DEF IInv, State, BoundsOK
<1>14. LeakOK'
  BY <1>1, <1>2, ForgottenSocket DEF LeakOK, LostFds
<1>15. QED
  BY <1>1, <1>6, <1>7, <1>10, <1>11, <1>12, <1>13, <1>14, QuietKeeps

LEMMA ConnectsKeeps ==
  ASSUME IInv, NEW w \in Workers, Connects(w)
  PROVE  IInv'
<1>1. clash = FALSE /\ job[w].at = "connect" /\ Working(w) /\ FreeFds # {}
  BY DEF Connects, At, IInv, State, BoundsOK, Working
<1>2. PICK low \in Fds : low = Lowest /\ fds[low] = Closed /\ low # 0
  BY <1>1, LowestIsFree
<1> DEFINE s == Socket(job[w].tile, Blocks)
<1>3. UNCHANGED <<fileVars, spoiled, clash>> /\ fds' = [Forgotten(w) EXCEPT ![low] = s]
      /\ leaked' = leaked + (IF job[w].sock # 0 THEN 1 ELSE 0)
  BY <1>2 DEF Connects, Forgets
<1>4. EntryOK(s) /\ s.kind = "sock"
  <2>1. job[w].tile \in Bodies /\ Blocks \in 1..(Blocks + 1)
    <3>1. job[w].tile \in Tiles
      BY <1>1, WorkerAt
    <3> QED
      BY <3>1, FetchAssumption DEF Bodies
  <2> QED
    BY <2>1, NewEntries
<1> DEFINE p == IF job[w].addrs = 1 THEN "send" ELSE "connect"
           j == [job[w] EXCEPT !.sock = low, !.addrs = job[w].addrs - 1, !.at = p]
<1>5. job' = [job EXCEPT ![w] = j]
  BY <1>2 DEF Connects
<1>6. job[w] \in Jobs /\ JobOK(job[w])
  BY <1>1, WorkerAt
<1>7. job[w].addrs \in 1..MaxAddrs
  BY <1>1, <1>6, FetchAssumption DEF Jobs, JobOK
<1>8. /\ j.at = p /\ j.bad = job[w].bad /\ j.addrs = job[w].addrs - 1
      /\ j.tile = job[w].tile /\ j.fd = job[w].fd /\ j.sock = low
  BY <1>6 DEF Jobs
<1>9. j \in Jobs
  <2>1. job[w].addrs - 1 \in 0..MaxAddrs
    BY <1>7, FetchAssumption
  <2> QED
    BY <1>2, <1>6, <2>1 DEF Jobs, Places
<1> HIDE DEF j
<1>10. JobOK(j)
  BY <1>1, <1>2, <1>6, <1>7, <1>8 DEF JobOK
<1>11. job'[w] = j /\ JobsOK' /\ \A v \in Workers \ {w} : job'[v] = job[v]
  BY <1>5, <1>9, <1>10, JobsStep DEF IInv, State
<1>12. fds'[low] = s /\ \A n \in Fds \ {low} : fds'[n] = Forgotten(w)[n]
  BY <1>3 DEF Forgotten
<1> HIDE DEF s
<1>13. TableOK'
  <2>1. fds' = [n \in Fds |-> fds'[n]]
    BY <1>3 DEF Forgotten
  <2>2. ASSUME NEW n \in Fds PROVE EntryOK(fds'[n])
    BY <1>1, <1>4, <1>12, ForgottenSocket
  <2> QED
    BY <2>1, <2>2 DEF TableOK
<1>14. \A n \in Fds \ {low} : fds'[n] = fds[n]
                             \/ (Connected(w) /\ n = job[w].sock /\ fds'[n] = Lost)
  BY <1>1, <1>12, ForgottenSocket
<1>15. OnlyOf(w)
  BY <1>2, <1>3, <1>11, <1>14 DEF OnlyOf, Mine
<1>16. job[w].fd # low /\ (Connected(w) => job[w].sock # low)
  BY <1>1, <1>2, WorkerAt DEF FileOf, SockOf
<1>17. FileOf(w)' = FileOf(w) /\ Working(w)' /\ Connected(w)' /\ SockOf(w)' = s
  <2>1. job[w].fd \in Fds \ {low} /\ (Connected(w) => job[w].fd # job[w].sock)
    BY <1>1, <1>16, WorkerAt
  <2>2. fds'[job[w].fd] = fds[job[w].fd]
    BY <1>14, <2>1
  <2>3. FileOf(w)' = FileOf(w)
    BY <1>8, <1>11, <2>2 DEF FileOf
  <2> QED
    BY <1>2, <1>8, <1>11, <1>12, <2>3 DEF SockOf, Working, Connected
<1>18. InStep(w)'
  <2>1. FileOf(w)'.pos = 1
    BY <1>1, <1>17, WorkerAt DEF InStep
  <2> QED
    BY <1>8, <1>11, <1>17, <2>1 DEF InStep, s
<1>19. QuietStep(w)
  BY <1>1, <1>3, <1>8, <1>11, <1>15, <1>17 DEF QuietStep
<1>20. Settles(w)
  <2>1. \A n \in Fds : Mine(w, n) \/ fds'[n] # fds[n] =>
          n = job[w].fd \/ n = low \/ fds'[n] = Lost
    BY <1>1, <1>12, <1>14, ForgottenSocket DEF Mine
  <2>2. fds'[job[w].fd].kind = "file"
    BY <1>1, <1>8, <1>11, <1>17, WorkerAt DEF FileOf
  <2> QED
    BY <1>1, <1>2, <1>4, <1>8, <1>11, <1>12, <1>17, <2>1, <2>2, NewEntries DEF Settles
<1>21. BoundsOK'
  BY <1>3 DEF IInv, State, BoundsOK
<1>22. LeakOK'
  <2>1. Forgotten(w)[low] # Lost
    BY <1>1, <1>2, <1>16, ForgottenSocket, NewEntries
  <2>2. fds'[low] # Lost
    BY <1>4, <1>12, NewEntries
  <2>3. {n \in Fds : fds'[n] = Lost} = {n \in Fds : Forgotten(w)[n] = Lost}
    BY <1>12, <2>1, <2>2
  <2> QED
    BY <1>1, <1>3, <2>3, ForgottenSocket DEF LeakOK, LostFds
<1>23. QED
  BY <1>1, <1>4, <1>11, <1>13, <1>17, <1>18, <1>19, <1>20, <1>21, <1>22, QuietKeeps

LEMMA ReadsBlockKeeps ==
  ASSUME IInv, NEW w \in Workers, ReadsBlock(w)
  PROVE  IInv'
<1>1. clash = FALSE /\ job[w].at = "body" /\ Working(w)
  BY DEF ReadsBlock, At, IInv, State, BoundsOK, Working
<1>2. Connected(w)
  BY <1>1, WorkerAt DEF Connected, JobOK
<1>3. UNCHANGED <<tmp, path, leaked, spoiled, clash>>
  BY DEF ReadsBlock
<1>4. State /\ DescriptorsOK /\ HistoryOK /\ LeakOK /\ PublishedWhole
  BY <1>1 DEF IInv
<1> DEFINE s == SockOf(w)
           f == FileOf(w)
           i == f.ino
           k == f.pos
           b == <<s.body, s.next>>
           new == Written(content[i], k, b)
           p == IF s.next = s.length THEN "close" ELSE "body"
           j == [job[w] EXCEPT !.at = p]
<1>5. /\ s \in SocketEntries /\ f \in FileEntries /\ job[w].fd \in Fds /\ job[w].sock \in Fds
      /\ job[w].fd # job[w].sock /\ job[w].tile \in Tiles
  BY <1>1, <1>2, WorkerAt
<1>6. /\ i \in Inodes /\ k \in Nat \ {0} /\ s.next = k /\ s.body \in Bodies
      /\ s.length \in 1..(Blocks + 1) /\ k <= s.length
      /\ \/ s.body = job[w].tile /\ s.length = Blocks
         \/ s.body = Page /\ job[w].bad
      /\ k <= Len(content[i]) + 1
  BY <1>1, <1>5, WorkerAt DEF SocketEntries, FileEntries, InStep
<1>7. /\ content' = [content EXCEPT ![i] = new]
      /\ job' = [job EXCEPT ![w].at = p]
      /\ fds' = [fds EXCEPT ![job[w].fd].pos = @ + 1, ![job[w].sock].next = @ + 1]
  BY DEF ReadsBlock, Goes, FileOf, SockOf
<1>8. /\ fds'[job[w].fd] = [f EXCEPT !.pos = k + 1]
      /\ fds'[job[w].sock] = [s EXCEPT !.next = k + 1]
      /\ \A n \in Fds \ {job[w].fd, job[w].sock} : fds'[n] = fds[n]
      /\ fds' = [n \in Fds |-> fds'[n]]
  BY <1>4, <1>5, <1>6, <1>7 DEF State, TableOK, FileOf, SockOf
<1>9. /\ fds'[job[w].fd] \in FileEntries /\ fds'[job[w].sock] \in SocketEntries
      /\ fds'[job[w].fd].ino = i /\ fds'[job[w].fd].pos = k + 1
      /\ fds'[job[w].fd].kind = "file" /\ fds'[job[w].sock].kind = "sock"
      /\ fds'[job[w].sock].next = k + 1 /\ fds'[job[w].sock].length = s.length
      /\ fds'[job[w].sock].body = s.body
  BY <1>5, <1>6, <1>8 DEF FileEntries, SocketEntries
<1>10. /\ content[i] \in Seq(BlockSet) /\ Len(content[i]) \in Nat
       /\ Len(content[i]) <= Blocks + 1 /\ Blocks \in Nat /\ DOMAIN content[i] = 1..Len(content[i])
  <2>1. content[i] \in Seq(BlockSet) /\ Len(content[i]) <= Blocks + 1
    BY <1>4, <1>6 DEF State, ContentOK
  <2> QED
    BY <2>1, LenProperties, FetchAssumption
<1>11. b \in BlockSet
  BY <1>6 DEF BlockSet
<1> HIDE DEF b
<1>12. /\ new \in Seq(BlockSet)
       /\ Len(new) = (IF k <= Len(content[i]) THEN Len(content[i]) ELSE k)
       /\ \A m \in DOMAIN new : new[m] = IF m = k THEN b ELSE content[i][m]
       /\ \A m \in DOMAIN new : m # k => m \in DOMAIN content[i]
  BY <1>6, <1>10, <1>11, WrittenBlocks
<1> HIDE DEF new
<1>13. Len(new) \in Nat /\ Len(new) <= Blocks + 1 /\ k <= Len(new)
  BY <1>6, <1>10, <1>12
<1>14. j \in Jobs /\ JobOK(j)
  BY <1>1, <1>2, WorkerAt DEF Jobs, Places, JobOK, Connected
<1>15. /\ j.at = p /\ j.bad = job[w].bad
       /\ j.tile = job[w].tile /\ j.fd = job[w].fd /\ j.sock = job[w].sock
  BY <1>1, WorkerAt DEF Jobs
<1>16. job' = [job EXCEPT ![w] = j]
  BY <1>7
<1> HIDE DEF j, p
<1>17. job'[w] = j /\ JobsOK' /\ \A v \in Workers \ {w} : job'[v] = job[v]
  BY <1>4, <1>14, <1>16, JobsStep DEF State
<1>18. p \in {"close", "body"} /\ (p = "body" => k + 1 <= s.length) /\ (p = "close" => k = s.length)
  BY <1>6 DEF p
<1> HIDE DEF s, f, i, k
<1>19. Working(w)' /\ Connected(w)'
  BY <1>2, <1>15, <1>17, <1>18 DEF Working, Connected
<1>20. FileOf(w)' = fds'[job[w].fd] /\ SockOf(w)' = fds'[job[w].sock]
  BY <1>15, <1>17 DEF FileOf, SockOf
<1>21. content'[i] = new /\ \A m \in Inodes \ {i} : content'[m] = content[m]
  BY <1>4, <1>6, <1>7 DEF State, ContentOK
<1>22. State'
  <2>1. TableOK'
    <3>1. ASSUME NEW n \in Fds PROVE EntryOK(fds'[n])
      BY <1>4, <1>8, <1>9 DEF State, TableOK, EntryOK
    <3> QED
      BY <1>8, <3>1 DEF TableOK
  <2>2. ContentOK'
    <3>1. content' \in [Inodes -> Seq(BlockSet)]
      BY <1>4, <1>6, <1>7, <1>12 DEF State, ContentOK
    <3>2. \A m \in Inodes : Len(content'[m]) <= Blocks + 1
      BY <1>4, <1>13, <1>21 DEF State, ContentOK
    <3> QED
      BY <3>1, <3>2 DEF ContentOK
  <2>3. NamesOK' /\ BoundsOK'
    BY <1>3, <1>4 DEF State, NamesOK, BoundsOK
  <2> QED
    BY <1>17, <2>1, <2>2, <2>3 DEF State
<1>23. OnlyOf(w)
  BY <1>1, <1>2, <1>3, <1>8, <1>17 DEF OnlyOf, Mine
<1>24. ASSUME NEW v \in Workers \ {w}, Working(v)
       PROVE  FileOf(v).ino # i /\ FileOf(v).ino \in Inodes
  BY <1>1, <1>4, <1>24, WorkerAt DEF DescriptorsOK, Apart, i, f, FileEntries
<1>25. SparesFiles(w)
  BY <1>3, <1>4, <1>21, <1>24 DEF SparesFiles, DescriptorsOK, Owned, Has, HasFile
<1>26. Settles(w)
  <2>1. \A n \in Fds : Mine(w, n) \/ fds'[n] # fds[n] => n = job[w].fd \/ n = job[w].sock
    BY <1>8 DEF Mine
  <2> QED
    BY <1>1, <1>2, <1>9, <1>15, <1>17, <1>19, <2>1 DEF Settles
<1>27. Has(w)'
  <2>1. HasFile(w)'
    <3>1. HasFile(w)
      BY <1>1, WorkerAt
    <3>2. FileOf(w).ino = i
      BY DEF i, f
    <3> QED
      BY <3>1, <3>2, <1>3, <1>9, <1>15, <1>17, <1>20 DEF HasFile
  <2>2. InStep(w)'
    <3>1. job'[w].at = p /\ job'[w].tile = job[w].tile /\ job'[w].bad = job[w].bad
      BY <1>15, <1>17
    <3> SUFFICES ASSUME p = "body" PROVE InStep(w)'
      BY <1>18, <3>1 DEF InStep
    <3>2. k + 1 <= Len(content'[i]) + 1
      BY <1>6, <1>13, <1>21
    <3> QED
      BY <1>6, <1>9, <1>18, <1>20, <3>1, <3>2 DEF InStep
  <2> QED
    BY <1>9, <1>19, <1>20, <2>1, <2>2 DEF Has
<1>28. DescriptorsOK'
  <2>1. \A v \in Workers \ {w} : Working(v) => FileOf(w)'.ino # FileOf(v).ino
    BY <1>9, <1>20, <1>24
  <2> QED
    BY <1>4, <1>22, <1>23, <1>25, <1>26, <1>27, <2>1, DescriptorStep
<1>29. LeakOK'
  <2>1. \A n \in Fds : fds[n] = Lost <=> fds[n].kind = "lost"
    BY <1>4, KindOf DEF State, TableOK
  <2>2. \A n \in Fds : fds'[n] = Lost <=> fds'[n].kind = "lost"
    BY <1>22, KindOf DEF State, TableOK
  <2>3. f.kind = "file" /\ s.kind = "sock" /\ f = fds[job[w].fd] /\ s = fds[job[w].sock]
    BY <1>5 DEF FileEntries, SocketEntries, f, s, FileOf, SockOf
  <2>4. ASSUME NEW n \in Fds PROVE fds'[n] = Lost <=> fds[n] = Lost
    <3>1. CASE n \notin {job[w].fd, job[w].sock}
      BY <1>8, <3>1
    <3>2. CASE n \in {job[w].fd, job[w].sock}
      <4>1. fds[n].kind # "lost" /\ fds'[n].kind # "lost"
        BY <1>9, <2>3, <3>2
      <4> QED
        BY <2>1, <2>2, <4>1
    <3> QED
      BY <3>1, <3>2
  <2> QED
    BY <1>1, <1>3, <1>4, <2>4, SameLost
<1>30. \A u \in Tiles : u # job[w].tile => i \notin {tmp[u], path[u]}
  BY <1>1, WorkerAt DEF HasFile, i, f
<1>31. job[w].tile \notin spoiled => tmp[job[w].tile] = i
  BY <1>1, WorkerAt DEF HasFile, i, f
<1>32. \A u \in Workers, t \in Tiles : On(u, t)' <=> On(u, t)
  <2>1. job'[w].at # "idle" /\ job[w].at # "idle" /\ job'[w].tile = job[w].tile
    BY <1>1, <1>15, <1>17, <1>18
  <2> QED
    BY <1>17, <2>1 DEF On
<1>33. \A u \in Workers : job'[u].bad = job[u].bad
  BY <1>15, <1>17
<1>34. HistoryOK'
  <2> SUFFICES ASSUME NEW t \in Tiles \ spoiled PROVE (Alone(t) /\ Clean(t) /\ Full(t))'
    BY <1>3 DEF HistoryOK
  <2>1. Alone(t) /\ Clean(t) /\ Full(t)
    BY <1>4 DEF HistoryOK
  <2>2. Alone(t)'
    BY <1>32, <2>1 DEF Alone
  <2>3. CASE t = job[w].tile
    <3>1. tmp[t] = i /\ tmp' = tmp /\ On(w, t)
      BY <1>1, <1>3, <1>31, <2>3 DEF On
    <3>2. ASSUME NEW m \in DOMAIN new
          PROVE  \/ new[m] = <<t, m>> /\ m <= Blocks
                 \/ new[m][1] = Page /\ \E u \in Workers : On(u, t) /\ job[u].bad
      <4>1. CASE m = k
        <5>1. new[m] = <<s.body, m>>
          BY <1>6, <1>12, <4>1 DEF b
        <5> QED
          BY <1>6, <2>3, <3>1, <4>1, <5>1
      <4>2. CASE m # k
        <5>1. new[m] = content[i][m] /\ m \in DOMAIN content[i]
          BY <1>12, <4>2
        <5>2. i # NoFile
          BY <1>6, InodesAre DEF NoFile
        <5> QED
          BY <2>1, <3>1, <5>1, <5>2 DEF Clean
      <4> QED
        BY <4>1, <4>2
    <3>3. Clean(t)'
      BY <1>21, <1>32, <1>33, <3>1, <3>2 DEF Clean
    <3>4. Full(t)'
      <4> SUFFICES ASSUME NEW u \in Workers, On(u, t)', ~job'[u].bad,
                          job'[u].at \in {"close", "unlock", "post"}
                   PROVE  Blocks <= Len(content'[tmp'[t]])
        BY DEF Full
      <4>1. u = w
        BY <1>32, <2>1, <3>1 DEF Alone
      <4>2. p = "close" /\ ~job[w].bad
        BY <1>15, <1>17, <1>18, <4>1
      <4>3. k = Blocks
        BY <1>6, <1>18, <4>2
      <4> QED
        BY <1>13, <1>21, <3>1, <4>3
    <3> QED
      BY <2>2, <3>3, <3>4
  <2>4. CASE t # job[w].tile
    <3>1. tmp[t] # NoFile => tmp[t] \in Inodes \ {i}
      BY <1>4, <1>30, <2>4 DEF State, NamesOK
    <3>2. tmp' = tmp /\ (tmp[t] # NoFile => content'[tmp[t]] = content[tmp[t]])
      BY <1>3, <1>21, <3>1
    <3>3. Clean(t)'
      BY <1>32, <1>33, <2>1, <3>2 DEF Clean
    <3>4. \A u \in Workers : On(u, t) => u # w
      BY <2>4 DEF On
    <3>5. Full(t)'
      BY <1>17, <1>32, <2>1, <3>2, <3>4 DEF Full
    <3> QED
      BY <2>2, <3>3, <3>5
  <2> QED
    BY <2>3, <2>4
<1>35. PublishedWhole'
  <2> SUFFICES ASSUME NEW t \in Tiles \ spoiled, path[t] # NoFile
               PROVE  content'[path[t]] = content[path[t]]
    BY <1>3, <1>4 DEF PublishedWhole
  <2>1. path[t] # i
    <3>1. CASE t = job[w].tile
      BY <1>4, <1>31, <3>1, <1>6, InodesAre DEF State, NamesOK, NoFile
    <3>2. CASE t # job[w].tile
      BY <1>30, <3>2
    <3> QED
      BY <3>1, <3>2
  <2>2. path[t] \in Inodes
    BY <1>4 DEF State, NamesOK
  <2> QED
    BY <1>21, <2>1, <2>2
<1>36. QED
  BY <1>22, <1>28, <1>29, <1>34, <1>35 DEF IInv

-----------------------------------------------------------------------------
(* download_tile *)

LEMMA RefusedKeeps ==
  ASSUME IInv, NEW w \in Workers, NEW t \in Tiles, Refused(w, t)
  PROVE  IInv'
<1>1. clash = FALSE /\ job[w].at = "idle" /\ FreeFds # {} /\ Locked(tmp[t])
  BY DEF Refused, Opens, At, IInv, State, BoundsOK
<1>2. State /\ DescriptorsOK /\ HistoryOK /\ LeakOK /\ PublishedWhole
  BY <1>1 DEF IInv
<1>3. PICK low \in Fds : low = Lowest /\ fds[low] = Closed
  BY <1>1, LowestIsFree
<1>4. fds' = [fds EXCEPT ![low] = Lost] /\ leaked' = leaked + 1
  BY <1>3 DEF Refused
<1>5. UNCHANGED <<job, path, spoiled, clash>>
  BY DEF Refused
<1>6. UNCHANGED <<tmp, content>>
  BY <1>2 DEF Refused, AfterRefusal, Opened, State, NamesOK, ContentOK
<1>7. TableOK' /\ fds'[low] = Lost /\ \A n \in Fds \ {low} : fds'[n] = fds[n]
  BY <1>2, <1>4, NewEntries, TableStep DEF State
<1>8. State'
  BY <1>2, <1>4, <1>5, <1>6, <1>7
     DEF State, JobsOK, NamesOK, ContentOK, BoundsOK
<1>9. OnlyOf(w)
  BY <1>3, <1>5, <1>7 DEF OnlyOf
<1>10. ~Working(w) /\ ~Connected(w) /\ ~Working(w)' /\ ~Connected(w)'
  BY <1>1, <1>2, <1>5, OwnDescriptors DEF Working, Connected
<1>11. Settles(w)
  BY <1>7, <1>10, NewEntries DEF Settles, Mine
<1>12. Has(w)'
  BY <1>10 DEF Has
<1>13. SparesFiles(w)
  BY <1>2, <1>5, <1>6, <1>9, FilesSpared DEF fileVars
<1>14. DescriptorsOK'
  BY <1>2, <1>8, <1>9, <1>10, <1>11, <1>12, <1>13, DescriptorStep
<1>15. LeakOK'
  <2>1. IsFiniteSet(LostFds) /\ low \notin LostFds
    BY <1>3, FdsFinite, FS_Subset, NewEntries DEF LostFds
  <2>2. LostFds' = LostFds \cup {low}
    BY <1>7 DEF LostFds
  <2>3. Cardinality(LostFds') = Cardinality(LostFds) + 1
    BY <2>1, <2>2, FS_AddElement
  <2> QED
    BY <1>1, <1>2, <1>4, <2>3 DEF LeakOK
<1>16. HistoryOK' /\ PublishedWhole'
  <2>1. PublishedWhole'
    BY <1>2, <1>5, <1>6 DEF PublishedWhole
  <2>2. HistoryOK'
    BY <1>2, <1>5, <1>6 DEF HistoryOK, Alone, Clean, Full, On
  <2> QED
    BY <2>1, <2>2
<1>17. QED
  BY <1>8, <1>14, <1>15, <1>16 DEF IInv

LEMMA UnlocksKeeps ==
  ASSUME IInv, NEW w \in Workers, Unlocks(w)
  PROVE  IInv'
<1>1. clash = FALSE /\ job[w].at = "unlock" /\ Working(w)
  BY DEF Unlocks, At, IInv, State, BoundsOK, Working
<1>2. State /\ DescriptorsOK /\ HistoryOK /\ LeakOK /\ PublishedWhole
  BY <1>1 DEF IInv
<1>3. job[w].sock = 0 /\ job[w].fd \in Fds /\ ~Connected(w)
  BY <1>1, WorkerAt DEF JobOK, Connected
<1>4. UNCHANGED <<tmp, path, leaked, spoiled, clash>>
  BY DEF Unlocks
<1> DEFINE j == [job[w] EXCEPT !.at = "post", !.fd = 0]
<1>5. /\ job' = [job EXCEPT ![w] = j]
      /\ fds' = [fds EXCEPT ![job[w].fd] = Closed]
      /\ content' = Kept(tmp, path, OpenFiles(fds'))
  BY DEF Unlocks
<1>6. j \in Jobs /\ JobOK(j)
  BY <1>1, <1>3, WorkerAt DEF Jobs, Places, JobOK
<1>7. /\ j.at = "post" /\ j.bad = job[w].bad /\ j.tile = job[w].tile /\ j.fd = 0 /\ j.sock = 0
  BY <1>1, <1>3, WorkerAt DEF Jobs
<1> HIDE DEF j
<1>8. job'[w] = j /\ JobsOK' /\ \A v \in Workers \ {w} : job'[v] = job[v]
  BY <1>2, <1>5, <1>6, JobsStep DEF State
<1>9. /\ TableOK' /\ fds'[job[w].fd] = Closed
      /\ \A n \in Fds \ {job[w].fd} : fds'[n] = fds[n]
  BY <1>2, <1>3, <1>5, NewEntries, TableStep DEF State
<1>10. /\ content' \in [Inodes -> Seq(BlockSet)]
       /\ \A i \in Inodes : Len(content'[i]) <= Blocks + 1
       /\ \A i \in Inodes : i \in OpenFiles(fds') => content'[i] = content[i]
       /\ \A i \in Inodes, t \in Tiles : i \in {tmp[t], path[t]} => content'[i] = content[i]
  BY <1>2, <1>5, KeptFiles DEF State
<1>11. State'
  BY <1>2, <1>4, <1>8, <1>9, <1>10 DEF State, NamesOK, ContentOK, BoundsOK
<1>12. OnlyOf(w)
  BY <1>1, <1>4, <1>8, <1>9 DEF OnlyOf, Mine
<1>13. ~Working(w)' /\ ~Connected(w)'
  BY <1>7, <1>8 DEF Working, Connected
<1>14. Settles(w)
  BY <1>3, <1>9, <1>13, NewEntries DEF Settles, Mine
<1>15. SparesFiles(w)
  <2> SUFFICES ASSUME NEW v \in Workers \ {w}, Working(v)
               PROVE  content'[FileOf(v).ino] = content[FileOf(v).ino]
    BY <1>2, <1>4 DEF SparesFiles, DescriptorsOK, Owned, Has, HasFile
  <2>1. fds'[job[v].fd] = FileOf(v) /\ job[v].fd \in Fds
    BY <1>1, <1>2, <1>12, OpenOfOthers, WorkerAt
  <2>2. FileOf(v) \in FileEntries /\ FileOf(v).kind = "file"
    BY <1>1, WorkerAt
  <2>3. FileOf(v).ino \in OpenFiles(fds') /\ FileOf(v).ino \in Inodes
    BY <2>1, <2>2 DEF OpenFiles, FileEntries
  <2> QED
    BY <1>10, <2>3
<1>16. DescriptorsOK'
  BY <1>2, <1>11, <1>12, <1>13, <1>14, <1>15, DescriptorStep DEF Has
<1>17. LeakOK'
  <2>1. fds[job[w].fd] # Lost
    BY <1>1, WorkerAt, NewEntries DEF FileOf
  <2>2. \A n \in Fds : fds'[n] = Lost <=> fds[n] = Lost
    BY <1>9, <2>1, NewEntries
  <2> QED
    BY <1>1, <1>2, <1>4, <2>2, SameLost
<1>18. \A u \in Workers, t \in Tiles : On(u, t)' <=> On(u, t)
  BY <1>1, <1>7, <1>8 DEF On
<1>19. \A u \in Workers : job'[u].bad = job[u].bad
  BY <1>7, <1>8
<1>20. \A t \in Tiles : /\ tmp[t] # NoFile => content'[tmp[t]] = content[tmp[t]]
                        /\ path[t] # NoFile => content'[path[t]] = content[path[t]]
  BY <1>2, <1>10 DEF State, NamesOK
<1>21. HistoryOK'
  <2> SUFFICES ASSUME NEW t \in Tiles \ spoiled PROVE (Alone(t) /\ Clean(t) /\ Full(t))'
    BY <1>4 DEF HistoryOK
  <2>1. Alone(t) /\ Clean(t) /\ Full(t)
    BY <1>2 DEF HistoryOK
  <2>2. Alone(t)'
    BY <1>18, <2>1 DEF Alone
  <2>3. Clean(t)'
    BY <1>4, <1>18, <1>19, <1>20, <2>1 DEF Clean
  <2>4. \A u \in Workers : job'[u].at \in {"close", "unlock", "post"} =>
          job[u].at \in {"close", "unlock", "post"}
    BY <1>1, <1>8
  <2>5. Full(t)'
    BY <1>4, <1>18, <1>19, <1>20, <2>1, <2>4 DEF Full
  <2> QED
    BY <2>2, <2>3, <2>5
<1>22. PublishedWhole'
  BY <1>2, <1>4, <1>20 DEF PublishedWhole
<1>23. QED
  BY <1>11, <1>16, <1>17, <1>21, <1>22 DEF IInv

LEMMA PostsKeeps ==
  ASSUME IInv, NEW w \in Workers, Posts(w)
  PROVE  IInv'
<1>1. clash = FALSE /\ job[w].at = "post" /\ ~Working(w)
  BY DEF Posts, At, IInv, State, BoundsOK, Working
<1>2. State /\ DescriptorsOK /\ HistoryOK /\ LeakOK /\ PublishedWhole
  BY <1>1 DEF IInv
<1> DEFINE t == job[w].tile
<1>3. t \in Tiles /\ ~Connected(w) /\ On(w, t)
  BY <1>1, <1>2, OwnDescriptors DEF State, JobsOK, JobOK, Jobs, On
<1>4. UNCHANGED <<fds, leaked, spoiled, clash>>
  BY DEF Posts
<1>5. /\ path' = IF Accepted(w) /\ tmp[t] # NoFile THEN [path EXCEPT ![t] = tmp[t]] ELSE path
      /\ tmp' = [tmp EXCEPT ![t] = NoFile]
      /\ job' = [job EXCEPT ![w] = NoJob]
      /\ content' = Kept(tmp', path', OpenFiles(fds))
  BY DEF Posts
<1> HIDE DEF t
<1>6. NoJob \in Jobs /\ JobOK(NoJob) /\ NoJob.at = "idle" /\ NoJob.fd = 0 /\ NoJob.sock = 0
  BY FetchAssumption DEF NoJob, Jobs, Places, JobOK
<1>7. job'[w] = NoJob /\ JobsOK' /\ \A v \in Workers \ {w} : job'[v] = job[v]
  BY <1>2, <1>5, <1>6, JobsStep DEF State
<1>8. /\ tmp'[t] = NoFile /\ \A u \in Tiles \ {t} : tmp'[u] = tmp[u] /\ path'[u] = path[u]
      /\ path'[t] = path[t] \/ (path'[t] = tmp[t] /\ ~job[w].bad /\ tmp[t] # NoFile)
  BY <1>2, <1>3, <1>5 DEF State, NamesOK, Accepted
<1>9. NamesOK'
  <2>1. tmp' \in [Tiles -> {NoFile} \cup Inodes] /\ path' \in [Tiles -> {NoFile} \cup Inodes]
    BY <1>2, <1>3, <1>5 DEF State, NamesOK
  <2> QED
    BY <1>2, <1>3, <1>8, <2>1 DEF State, NamesOK
<1>10. /\ content' \in [Inodes -> Seq(BlockSet)]
       /\ \A i \in Inodes : Len(content'[i]) <= Blocks + 1
       /\ \A i \in Inodes : i \in OpenFiles(fds) => content'[i] = content[i]
       /\ \A i \in Inodes, u \in Tiles : i \in {tmp'[u], path'[u]} => content'[i] = content[i]
  <2> DEFINE a == tmp'
             b == path'
             o == OpenFiles(fds)
  <2>1. content' = Kept(a, b, o) /\ ContentOK
    BY <1>2, <1>5 DEF State
  <2> HIDE DEF a, b, o
  <2>2. /\ content' \in [Inodes -> Seq(BlockSet)]
        /\ \A i \in Inodes : Len(content'[i]) <= Blocks + 1
        /\ \A i \in Inodes : i \in o => content'[i] = content[i]
        /\ \A i \in Inodes, u \in Tiles : i \in {a[u], b[u]} => content'[i] = content[i]
    BY <2>1, KeptFiles
  <2> QED
    BY <2>2 DEF a, b, o
<1>11. State'
  BY <1>2, <1>4, <1>7, <1>9, <1>10 DEF State, TableOK, ContentOK, BoundsOK
<1>12. OnlyOf(w)
  BY <1>4, <1>7 DEF OnlyOf
<1>13. ~Working(w)' /\ ~Connected(w)'
  BY <1>6, <1>7 DEF Working, Connected
<1>14. Settles(w)
  BY <1>1, <1>3, <1>4, <1>13 DEF Settles, Mine
<1>15. SparesFiles(w)
  <2> SUFFICES ASSUME NEW v \in Workers \ {w}, Working(v)
               PROVE  /\ content'[FileOf(v).ino] = content[FileOf(v).ino]
                      /\ \A u \in Tiles \ {job[v].tile} : FileOf(v).ino \notin {tmp'[u], path'[u]}
                      /\ job[v].tile \notin spoiled' => tmp'[job[v].tile] = FileOf(v).ino
    BY DEF SparesFiles
  <2>1. /\ FileOf(v) \in FileEntries /\ FileOf(v).kind = "file" /\ job[v].fd \in Fds
        /\ HasFile(v) /\ job[v].tile \in Tiles
    BY <1>1, WorkerAt
  <2>2. FileOf(v).ino \in OpenFiles(fds) /\ FileOf(v).ino \in Inodes
    BY <2>1 DEF OpenFiles, FileEntries, FileOf
  <2>3. FileOf(v).ino # NoFile
    BY <2>2, InodesAre DEF NoFile
  <2>4. \A u \in Tiles \ {job[v].tile} : FileOf(v).ino \notin {tmp'[u], path'[u]}
    BY <1>8, <2>1, <2>3 DEF HasFile
  <2>5. ASSUME job[v].tile \notin spoiled PROVE tmp'[job[v].tile] = FileOf(v).ino
    <3>1. On(v, job[v].tile) /\ Alone(job[v].tile)
      BY <1>2, <2>1, <2>5 DEF On, HistoryOK, Working
    <3>2. job[v].tile # t
      BY <1>3, <3>1 DEF Alone
    <3> QED
      BY <1>8, <2>1, <2>5, <3>2 DEF HasFile
  <2> QED
    BY <1>4, <1>10, <2>2, <2>4, <2>5
<1>16. DescriptorsOK'
  BY <1>2, <1>11, <1>12, <1>13, <1>14, <1>15, DescriptorStep DEF Has
<1>17. LeakOK'
  BY <1>2, <1>4 DEF LeakOK, LostFds
<1>18. \A v \in Workers, u \in Tiles : On(v, u)' <=> On(v, u) /\ v # w
  BY <1>6, <1>7 DEF On
<1>19. \A u \in Tiles \ {t} :
         /\ tmp[u] # NoFile => content'[tmp[u]] = content[tmp[u]]
         /\ path[u] # NoFile => content'[path[u]] = content[path[u]]
  <2> SUFFICES ASSUME NEW u \in Tiles \ {t}
               PROVE  /\ tmp[u] # NoFile => content'[tmp[u]] = content[tmp[u]]
                      /\ path[u] # NoFile => content'[path[u]] = content[path[u]]
    OBVIOUS
  <2>1. (tmp[u] # NoFile => tmp[u] \in Inodes) /\ (path[u] # NoFile => path[u] \in Inodes)
    BY <1>2 DEF State, NamesOK
  <2>2. tmp[u] \in {tmp'[u], path'[u]} /\ path[u] \in {tmp'[u], path'[u]}
    BY <1>8
  <2> QED
    BY <1>10, <2>1, <2>2
<1>20. HistoryOK'
  <2> SUFFICES ASSUME NEW u \in Tiles \ spoiled PROVE (Alone(u) /\ Clean(u) /\ Full(u))'
    BY <1>4 DEF HistoryOK
  <2>1. Alone(u) /\ Clean(u) /\ Full(u)
    BY <1>2 DEF HistoryOK
  <2>2. Alone(u)'
    BY <1>18, <2>1 DEF Alone
  <2>3. CASE u = t
    BY <1>8, <2>2, <2>3 DEF Clean, Full
  <2>4. CASE u # t
    <3>1. tmp'[u] = tmp[u] /\ (tmp[u] # NoFile => content'[tmp[u]] = content[tmp[u]])
      BY <1>8, <1>19, <2>4
    <3>2. \A v \in Workers : On(v, u) => v # w
      BY <2>4 DEF On, t
    <3>3. \A v \in Workers : On(v, u)' <=> On(v, u)
      BY <1>18, <3>2
    <3>4. Clean(u)'
      BY <1>7, <2>1, <3>1, <3>2, <3>3 DEF Clean
    <3>5. Full(u)'
      BY <1>7, <2>1, <3>1, <3>2, <3>3 DEF Full
    <3> QED
      BY <2>2, <3>4, <3>5
  <2> QED
    BY <2>3, <2>4
<1>21. PublishedWhole'
  <2> SUFFICES ASSUME NEW u \in Tiles \ spoiled, path'[u] # NoFile
               PROVE  content'[path'[u]] = [k \in 1..Blocks |-> <<u, k>>]
    BY <1>4 DEF PublishedWhole
  <2>1. path'[u] \in Inodes
    BY <1>9 DEF NamesOK
  <2>2. content'[path'[u]] = content[path'[u]]
    BY <1>10, <2>1
  <2>3. CASE path'[u] = path[u]
    BY <1>2, <2>2, <2>3 DEF PublishedWhole
  <2>4. CASE path'[u] # path[u]
    <3>1. u = t /\ path'[u] = tmp[t] /\ ~job[w].bad /\ tmp[t] # NoFile
      BY <1>8, <2>4
    <3> DEFINE s == content[tmp[t]]
    <3>2. Alone(t) /\ Clean(t) /\ Full(t)
      BY <1>2, <3>1 DEF HistoryOK
    <3>3. Blocks <= Len(s)
      BY <1>1, <1>3, <3>1, <3>2 DEF Full
    <3>4. ~\E v \in Workers : On(v, t) /\ job[v].bad
      BY <1>3, <3>1, <3>2 DEF Alone
    <3>5. \A k \in DOMAIN s : s[k] = <<t, k>> /\ k <= Blocks
      BY <3>1, <3>2, <3>4 DEF Clean
    <3>6. s \in Seq(BlockSet)
      BY <1>2, <2>1, <3>1 DEF State, ContentOK
    <3> HIDE DEF s
    <3>7. Len(s) \in Nat /\ DOMAIN s = 1..Len(s) /\ s = [k \in 1..Len(s) |-> s[k]]
      BY <3>6, LenProperties
    <3>8. Len(s) = Blocks
      <4>1. Blocks \in Nat
        BY FetchAssumption
      <4>2. CASE Len(s) = 0
        BY <3>3, <4>1, <4>2
      <4>3. CASE Len(s) # 0
        <5>1. Len(s) \in DOMAIN s
          BY <3>7, <4>3
        <5> QED
          BY <3>3, <3>5, <3>7, <4>1, <5>1
      <4> QED
        BY <4>2, <4>3
    <3>9. s = [k \in 1..Blocks |-> <<t, k>>]
      BY <3>5, <3>7, <3>8
    <3> QED
      BY <2>2, <3>1, <3>9 DEF s
  <2> QED
    BY <2>3, <2>4
<1>22. QED
  BY <1>11, <1>16, <1>17, <1>20, <1>21 DEF IInv

\* The end of the process: what it leaves behind are names and files.
LEMMA CrashKeeps ==
  ASSUME IInv, Crash
  PROVE  IInv'
<1>1. State /\ HistoryOK /\ PublishedWhole
  BY DEF IInv
<1>2. /\ job' = [w \in Workers |-> NoJob] /\ fds' = [n \in Fds |-> Closed]
      /\ leaked' = 0 /\ clash' = FALSE /\ tmp' = tmp /\ path' = path
      /\ content' = Kept(tmp, path, {})
      /\ spoiled' = spoiled \cup {t \in Tiles : tmp[t] # NoFile /\ HoldsPage(tmp[t])}
  BY DEF Crash
<1>3. NoJob \in Jobs /\ JobOK(NoJob) /\ NoJob.at = "idle" /\ NoJob.fd = 0 /\ NoJob.sock = 0
  BY FetchAssumption DEF NoJob, Jobs, Places, JobOK
<1>4. /\ content' \in [Inodes -> Seq(BlockSet)]
      /\ \A i \in Inodes : Len(content'[i]) <= Blocks + 1
      /\ \A i \in Inodes, t \in Tiles : i \in {tmp[t], path[t]} => content'[i] = content[i]
  BY <1>1, <1>2, KeptFiles DEF State
<1>5. State'
  <2>1. JobsOK'
    BY <1>2, <1>3 DEF JobsOK
  <2>2. TableOK'
    BY <1>2, NewEntries DEF TableOK
  <2>3. NamesOK' /\ ContentOK' /\ BoundsOK'
    BY <1>1, <1>2, <1>4 DEF State, NamesOK, ContentOK, BoundsOK
  <2> QED
    BY <2>1, <2>2, <2>3 DEF State
<1>6. DescriptorsOK'
  <2>1. \A w \in Workers : ~Working(w)' /\ ~Connected(w)'
    BY <1>2, <1>3 DEF Working, Connected
  <2>2. \A n \in Fds : fds'[n].kind = "closed"
    BY <1>2, NewEntries
  <2> QED
    BY <2>1, <2>2 DEF DescriptorsOK, Owned, Has, Apart, Known
<1>7. LeakOK'
  <2>1. LostFds' = {}
    BY <1>2, NewEntries DEF LostFds
  <2> QED
    BY <1>2, <2>1, FS_EmptySet DEF LeakOK
<1>8. \A t \in Tiles : /\ tmp[t] # NoFile => content'[tmp[t]] = content[tmp[t]]
                       /\ path[t] # NoFile => content'[path[t]] = content[path[t]]
  BY <1>1, <1>4 DEF State, NamesOK
<1>9. HistoryOK'
  <2> SUFFICES ASSUME NEW t \in Tiles \ spoiled' PROVE (Alone(t) /\ Clean(t) /\ Full(t))'
    BY DEF HistoryOK
  <2>1. \A w \in Workers : ~On(w, t)'
    BY <1>2, <1>3 DEF On
  <2>2. Alone(t)' /\ Full(t)'
    BY <2>1 DEF Alone, Full
  <2>3. Clean(t)'
    <3>1. Clean(t) /\ (tmp[t] # NoFile => ~HoldsPage(tmp[t]))
      BY <1>1, <1>2 DEF HistoryOK
    <3> QED
      BY <1>2, <1>8, <3>1 DEF Clean, HoldsPage
  <2> QED
    BY <2>2, <2>3
<1>10. PublishedWhole'
  BY <1>1, <1>2, <1>8 DEF PublishedWhole
<1>11. QED
  BY <1>5, <1>6, <1>7, <1>9, <1>10 DEF IInv

LEMMA InitHolds ==
  ASSUME Init
  PROVE  IInv
<1>1. NoJob \in Jobs /\ JobOK(NoJob) /\ NoJob.at = "idle" /\ NoJob.fd = 0 /\ NoJob.sock = 0
  BY FetchAssumption DEF NoJob, Jobs, Places, JobOK
<1>2. PICK e \in Seq(BlockSet) : e = <<>> /\ Len(e) = 0
  BY EmptySeq
<1>3. content = [i \in Inodes |-> e]
  BY <1>2 DEF Init
<1>4. State
  <2>1. JobsOK
    BY <1>1 DEF JobsOK, Init
  <2>2. TableOK
    BY NewEntries DEF TableOK, Init
  <2>3. NamesOK /\ BoundsOK
    BY DEF NamesOK, BoundsOK, Init
  <2>4. ContentOK
    BY <1>2, <1>3, FetchAssumption DEF ContentOK
  <2> QED
    BY <2>1, <2>2, <2>3, <2>4 DEF State
<1>5. DescriptorsOK
  <2>1. \A w \in Workers : ~Working(w) /\ ~Connected(w)
    BY <1>1 DEF Working, Connected, Init
  <2>2. \A n \in Fds : fds[n].kind = "closed"
    BY NewEntries DEF Init
  <2> QED
    BY <2>1, <2>2 DEF DescriptorsOK, Owned, Has, Apart, Known
<1>6. LeakOK
  <2>1. LostFds = {}
    BY NewEntries DEF LostFds, Init
  <2> QED
    BY <2>1, FS_EmptySet DEF LeakOK, Init
<1>7. HistoryOK /\ PublishedWhole
  BY <1>1 DEF HistoryOK, PublishedWhole, Alone, Clean, Full, On, Init
<1>8. QED
  BY <1>4, <1>5, <1>6, <1>7 DEF IInv

LEMMA StartsKeeps ==
  ASSUME IInv, NEW w \in Workers, NEW t \in Tiles, Starts(w, t)
  PROVE  IInv'
<1>1. clash = FALSE /\ job[w].at = "idle" /\ path[t] = NoFile /\ FreeFds # {} /\ ~Locked(tmp[t])
  BY DEF Starts, Opens, At, IInv, State, BoundsOK
<1>2. State /\ DescriptorsOK /\ HistoryOK /\ LeakOK /\ PublishedWhole
  BY <1>1 DEF IInv
<1>3. PICK low \in Fds : low = Lowest /\ fds[low] = Closed /\ low # 0
  BY <1>1, LowestIsFree
<1>4. PICK e \in Seq(BlockSet) : e = <<>> /\ Len(e) = 0
  BY EmptySeq
<1>5. PICK i : /\ i \in IF tmp[t] # NoFile THEN {tmp[t]} ELSE {Min(UnusedInodes)}
               /\ tmp' = [tmp EXCEPT ![t] = i]
               /\ content' = [content EXCEPT ![i] = IF tmp[t] = NoFile THEN e ELSE Opened(i)]
               /\ fds' = [fds EXCEPT ![low] = File(i)]
  BY <1>3, <1>4 DEF Starts
<1>6. PICK n \in 1..MaxAddrs :
        job' = [job EXCEPT ![w] = [NoJob EXCEPT !.at = "connect", !.tile = t, !.fd = low,
                                                !.addrs = n]]
  BY <1>3 DEF Starts
<1>7. /\ UNCHANGED <<path, leaked, clash>>
      /\ spoiled' = IF InGap(t) THEN spoiled \cup {t} ELSE spoiled
  BY DEF Starts
<1>8. /\ i \in Inodes /\ i # NoFile /\ i \notin OpenFiles(fds)
      /\ \A u \in Tiles \ {t} : i \notin {tmp[u], path[u]}
      /\ tmp[t] # NoFile => i = tmp[t]
  <2>1. CASE tmp[t] # NoFile
    <3>1. i = tmp[t] /\ tmp[t] \in Inodes
      BY <1>2, <1>5, <2>1 DEF State, NamesOK
    <3>2. \A u \in Tiles \ {t} : i \notin {tmp[u], path[u]}
      BY <1>2, <2>1, <3>1 DEF State, NamesOK
    <3> QED
      BY <1>1, <2>1, <3>1, <3>2 DEF Locked
  <2>2. CASE tmp[t] = NoFile
    <3>1. i = Min(UnusedInodes)
      BY <1>5, <2>2
    <3>2. i \in Inodes /\ i \notin OpenFiles(fds) /\ \A u \in Tiles : i \notin {tmp[u], path[u]}
      BY <1>1, <1>2, <3>1, FreshFile
    <3> QED
      BY <2>2, <3>2
  <2> QED
    BY <2>1, <2>2
<1>9. /\ tmp'[t] = i /\ \A u \in Tiles \ {t} : tmp'[u] = tmp[u]
      /\ tmp' \in [Tiles -> {NoFile} \cup Inodes]
  BY <1>2, <1>5, <1>8 DEF State, NamesOK
<1>10. /\ content'[i] = (IF tmp[t] = NoFile THEN e ELSE content[i])
       /\ \A m \in Inodes \ {i} : content'[m] = content[m]
       /\ content' \in [Inodes -> Seq(BlockSet)]
  <2>1. content[i] \in Seq(BlockSet)
    BY <1>2, <1>8 DEF State, ContentOK
  <2> QED
    BY <1>2, <1>4, <1>5, <1>8, <2>1 DEF State, ContentOK, Opened
<1>11. /\ TableOK' /\ fds'[low] = File(i) /\ \A m \in Fds \ {low} : fds'[m] = fds[m]
       /\ File(i).kind = "file" /\ File(i).ino = i /\ File(i).pos = 1
  <2>1. EntryOK(File(i)) /\ File(i).kind = "file" /\ File(i).ino = i /\ File(i).pos = 1
    BY <1>8, NewEntries
  <2> QED
    BY <1>2, <1>5, <2>1, TableStep DEF State
<1> DEFINE j == [NoJob EXCEPT !.at = "connect", !.tile = t, !.fd = low, !.addrs = n]
<1>12. /\ j.at = "connect" /\ j.tile = t /\ j.fd = low /\ j.sock = 0 /\ j.addrs = n
       /\ j.bad = FALSE
  BY DEF NoJob
<1>13. j \in Jobs /\ JobOK(j)
  <2>1. n \in 0..MaxAddrs /\ n # 0
    BY FetchAssumption
  <2>2. j \in Jobs
    BY <1>3, <2>1 DEF NoJob, Jobs, Places
  <2> QED
    BY <1>3, <1>12, <2>1, <2>2 DEF JobOK
<1>14. job' = [job EXCEPT ![w] = j]
  BY <1>6
<1> HIDE DEF j
<1>15. job'[w] = j /\ JobsOK' /\ \A v \in Workers \ {w} : job'[v] = job[v]
  BY <1>2, <1>13, <1>14, JobsStep DEF State
<1>16. State'
  <2>1. NamesOK'
    BY <1>1, <1>2, <1>7, <1>8, <1>9 DEF State, NamesOK
  <2>2. ASSUME NEW m \in Inodes PROVE Len(content'[m]) <= Blocks + 1
    <3>1. CASE content'[m] = content[m]
      BY <1>2, <3>1 DEF State, ContentOK
    <3>2. CASE content'[m] = e
      BY <1>4, <3>2, FetchAssumption
    <3> QED
      BY <1>10, <3>1, <3>2
  <2>3. ContentOK'
    BY <1>10, <2>2 DEF ContentOK
  <2>4. BoundsOK'
    BY <1>2, <1>7 DEF State, BoundsOK
  <2> QED
    BY <1>11, <1>15, <2>1, <2>3, <2>4 DEF State
<1>17. spoiled \subseteq spoiled' /\ OnlyOf(w)
  BY <1>3, <1>7, <1>11, <1>15 DEF OnlyOf
<1>18. ~Working(w) /\ ~Connected(w) /\ Working(w)' /\ ~Connected(w)'
  BY <1>1, <1>2, <1>12, <1>15, OwnDescriptors DEF Working, Connected
<1>19. Settles(w)
  <2>1. \A m \in Fds : Mine(w, m) \/ fds'[m] # fds[m] => m = low
    BY <1>11, <1>18 DEF Mine
  <2> QED
    BY <1>3, <1>11, <1>12, <1>15, <1>18, <2>1 DEF Settles
<1>20. ASSUME NEW v \in Workers \ {w}, Working(v)
       PROVE  /\ FileOf(v).ino \in Inodes \ {i} /\ FileOf(v).ino \in OpenFiles(fds)
              /\ HasFile(v) /\ job[v].tile \in Tiles
  <2>1. /\ FileOf(v) \in FileEntries /\ FileOf(v).kind = "file" /\ job[v].fd \in Fds
        /\ HasFile(v) /\ job[v].tile \in Tiles
    BY <1>1, <1>20, WorkerAt
  <2>2. FileOf(v).ino \in OpenFiles(fds) /\ FileOf(v).ino \in Inodes
    BY <2>1 DEF OpenFiles, FileEntries, FileOf
  <2> QED
    BY <1>8, <2>1, <2>2
<1>21. ASSUME NEW v \in Workers, t \notin spoiled', On(v, t) PROVE FALSE
  <2>1. t \notin spoiled /\ ~InGap(t)
    BY <1>7, <1>21
  <2>2. job[v].at # "post" /\ v # w
    BY <1>1, <1>21, <2>1 DEF InGap, On
  <2>3. Working(v)
    BY <1>21, <2>2 DEF On, Working
  <2>4. tmp[t] = FileOf(v).ino /\ FileOf(v).ino # i /\ FileOf(v).ino \in Inodes
    BY <1>20, <1>21, <2>1, <2>2, <2>3 DEF HasFile, On
  <2>5. tmp[t] # NoFile
    BY <2>4, InodesAre DEF NoFile
  <2> QED
    BY <1>8, <2>4, <2>5
<1>22. SparesFiles(w)
  <2> SUFFICES ASSUME NEW v \in Workers \ {w}, Working(v)
               PROVE  /\ content'[FileOf(v).ino] = content[FileOf(v).ino]
                      /\ \A u \in Tiles \ {job[v].tile} : FileOf(v).ino \notin {tmp'[u], path'[u]}
                      /\ job[v].tile \notin spoiled' => tmp'[job[v].tile] = FileOf(v).ino
    BY DEF SparesFiles
  <2>1. FileOf(v).ino \in Inodes \ {i} /\ HasFile(v) /\ job[v].tile \in Tiles
    BY <1>20
  <2>2. \A u \in Tiles \ {job[v].tile} : FileOf(v).ino \notin {tmp'[u], path'[u]}
    BY <1>7, <1>9, <2>1 DEF HasFile
  <2>3. ASSUME job[v].tile \notin spoiled' PROVE tmp'[job[v].tile] = FileOf(v).ino
    <3>1. job[v].tile # t
      BY <1>21, <2>3 DEF On, Working
    <3> QED
      BY <1>9, <1>17, <2>1, <2>3, <3>1 DEF HasFile
  <2> QED
    BY <1>10, <2>1, <2>2, <2>3
<1>23. Has(w)'
  <2>1. FileOf(w)' = File(i)
    BY <1>11, <1>12, <1>15 DEF FileOf
  <2>2. HasFile(w)'
    BY <1>7, <1>8, <1>9, <1>11, <1>12, <1>15, <2>1 DEF HasFile
  <2>3. InStep(w)'
    BY <1>11, <1>12, <1>15, <2>1 DEF InStep
  <2> QED
    BY <1>18, <2>2, <2>3 DEF Has
<1>24. DescriptorsOK'
  <2>1. \A v \in Workers \ {w} : Working(v) => FileOf(w)'.ino # FileOf(v).ino
    BY <1>11, <1>12, <1>15, <1>20 DEF FileOf
  <2> QED
    BY <1>2, <1>16, <1>17, <1>19, <1>22, <1>23, <2>1, DescriptorStep
<1>25. LeakOK'
  <2>1. \A m \in Fds : fds'[m] = Lost <=> fds[m] = Lost
    BY <1>3, <1>11, NewEntries
  <2> QED
    BY <1>1, <1>2, <1>7, <2>1, SameLost
<1>26. HistoryOK'
  <2> SUFFICES ASSUME NEW u \in Tiles \ spoiled' PROVE (Alone(u) /\ Clean(u) /\ Full(u))'
    BY DEF HistoryOK
  <2>1. Alone(u) /\ Clean(u) /\ Full(u)
    BY <1>2, <1>17 DEF HistoryOK
  <2>2. CASE u = t
    <3>1. \A v \in Workers : On(v, t)' <=> v = w
      BY <1>12, <1>15, <1>21, <2>2 DEF On
    <3>2. Alone(u)'
      BY <2>2, <3>1 DEF Alone
    <3>3. Full(u)'
      BY <1>12, <1>15, <2>2, <3>1 DEF Full
    <3>4. Clean(u)'
      <4>1. CASE tmp[t] = NoFile
        <5>1. content'[tmp'[u]] = e /\ DOMAIN e = {}
          BY <1>4, <1>9, <1>10, <2>2, <4>1
        <5> QED
          BY <5>1 DEF Clean
      <4>2. CASE tmp[t] # NoFile
        <5>1. content'[tmp'[u]] = content[tmp[u]] /\ tmp'[u] = tmp[u]
          BY <1>8, <1>9, <1>10, <2>2, <4>2
        <5>2. \A v \in Workers : ~On(v, t)
          BY <1>21, <2>2
        <5> QED
          BY <2>1, <2>2, <5>1, <5>2 DEF Clean
      <4> QED
        BY <4>1, <4>2
    <3> QED
      BY <3>2, <3>3, <3>4
  <2>3. CASE u # t
    <3>1. tmp'[u] = tmp[u] /\ (tmp[u] # NoFile => content'[tmp[u]] = content[tmp[u]])
      BY <1>2, <1>8, <1>9, <1>10, <2>3 DEF State, NamesOK
    <3>2. \A v \in Workers : On(v, u) => v # w
      BY <1>1 DEF On
    <3>3. \A v \in Workers : On(v, u)' <=> On(v, u)
      BY <1>1, <1>12, <1>15, <2>3 DEF On
    <3>4. Alone(u)'
      BY <2>1, <3>3 DEF Alone
    <3>5. Clean(u)'
      BY <1>15, <2>1, <3>1, <3>2, <3>3 DEF Clean
    <3>6. Full(u)'
      BY <1>15, <2>1, <3>1, <3>2, <3>3 DEF Full
    <3> QED
      BY <3>4, <3>5, <3>6
  <2> QED
    BY <2>2, <2>3
<1>27. PublishedWhole'
  <2> SUFFICES ASSUME NEW u \in Tiles \ spoiled, path[u] # NoFile
               PROVE  content'[path[u]] = content[path[u]]
    BY <1>2, <1>7, <1>17 DEF PublishedWhole
  <2>1. u # t
    BY <1>1
  <2>2. path[u] \in Inodes \ {i}
    BY <1>2, <1>8, <2>1 DEF State, NamesOK
  <2> QED
    BY <1>10, <2>2
<1>28. QED
  BY <1>16, <1>24, <1>25, <1>26, <1>27 DEF IInv

-----------------------------------------------------------------------------
(* The theorems *)

\* What is proved of the fetches rests on one inductive invariant: the descriptor table and the
\* local variables of the workers agree (DescriptorsOK), and the history of every tile that is not
\* spoiled is that of one worker at a time.
THEOREM FetchInvariant == Spec => []IInv
<1>1. Init => IInv
  BY InitHolds
<1>2. IInv /\ [Next]_vars => IInv'
  <2> SUFFICES ASSUME IInv, [Next]_vars PROVE IInv'
    OBVIOUS
  <2>1. CASE Crash
    BY <2>1, CrashKeeps
  <2>2. ASSUME NEW w \in Workers, Step(w) PROVE IInv'
    <3>1. ASSUME NEW t \in Tiles, Starts(w, t) PROVE IInv'
      BY <3>1, StartsKeeps
    <3>2. ASSUME NEW t \in Tiles, Refused(w, t) PROVE IInv'
      BY <3>2, RefusedKeeps
    <3>3. CASE Connects(w)
      BY <3>3, ConnectsKeeps
    <3>4. CASE ConnectFails(w)
      BY <3>4, ConnectFailsKeeps
    <3>5. CASE Sends(w)
      BY <3>5, SendsKeeps
    <3>6. CASE ReadsHead(w)
      BY <3>6, ReadsHeadKeeps
    <3>7. CASE ReadsBlock(w)
      BY <3>7, ReadsBlockKeeps
    <3>8. CASE BodyFails(w)
      BY <3>8, BodyFailsKeeps
    <3>9. CASE CutShort(w)
      BY <3>9, CutShortKeeps
    <3>10. CASE Closes(w)
      BY <3>10, ClosesKeeps
    <3>11. CASE Unlocks(w)
      BY <3>11, UnlocksKeeps
    <3>12. CASE Posts(w)
      BY <3>12, PostsKeeps
    <3> QED
      BY <2>2, <3>1, <3>2, <3>3, <3>4, <3>5, <3>6, <3>7, <3>8, <3>9, <3>10, <3>11, <3>12 DEF Step
  <2>3. CASE UNCHANGED vars
    BY <2>3 DEF vars, fileVars, IInv, State, JobsOK, TableOK, NamesOK, ContentOK, BoundsOK,
                DescriptorsOK, Owned, Apart, Known, Has, HasFile, InStep, FileOf, SockOf,
                Connected, Working, LeakOK, LostFds, HistoryOK, Alone, Clean, Full, On,
                PublishedWhole
  <2> QED
    BY <2>1, <2>2, <2>3 DEF Next
<1>3. QED
  BY <1>1, <1>2, PTL DEF Spec

\* The type invariant: as long as no worker closed the socket of another, every number a worker
\* holds is that of an open descriptor of the right kind.
THEOREM FetchTypeCorrect == Spec => []FetchTypeOK
<1>1. IInv => FetchTypeOK
  <2> SUFFICES ASSUME IInv PROVE FetchTypeOK
    OBVIOUS
  <2>1. ASSUME NEW w \in Workers, ~clash, Working(w)
        PROVE  /\ fds[job[w].fd].kind = "file"
               /\ job[w].sock # 0 /\ job[w].at # "reclose" => fds[job[w].sock].kind = "sock"
    BY <2>1, WorkerAt DEF FileOf, SockOf, Connected, IInv, State, BoundsOK
  <2> QED
    BY <2>1 DEF IInv, State, JobsOK, Jobs, Places, NamesOK, ContentOK, FetchTypeOK
<1>2. QED
  BY <1>1, FetchInvariant, PTL

\* A published tile is whole, at every moment, unless one of the three exceptions befell it.
THEOREM PublishedWholeCorrect == Spec => []PublishedWhole
<1>1. IInv => PublishedWhole
  BY DEF IInv
<1>2. QED
  BY <1>1, FetchInvariant, PTL

\* The name that a worker will rename leads to the file that it writes, and to nobody else's.
THEOREM WriterKeepsNameCorrect == Spec => []WriterKeepsName
<1>1. IInv => WriterKeepsName
  <2> SUFFICES ASSUME IInv, NEW w \in Workers, Working(w), job[w].tile \notin spoiled, ~clash
               PROVE  /\ tmp[job[w].tile] = fds[job[w].fd].ino
                      /\ \A v \in Workers \ {w} :
                           Working(v) => fds[job[v].fd].ino # fds[job[w].fd].ino
    BY DEF WriterKeepsName
  <2>1. DescriptorsOK
    BY DEF IInv
  <2> QED
    BY <2>1 DEF DescriptorsOK, Owned, Has, HasFile, Apart, FileOf
<1>2. QED
  BY <1>1, FetchInvariant, PTL

\* Every open descriptor is a worker's file, a worker's socket, or one of those counted as lost.
THEOREM DescriptorsCorrect == Spec => []DescriptorsAccounted
<1>1. IInv => DescriptorsAccounted
  <2> SUFFICES ASSUME IInv, ~clash
               PROVE  Cardinality(Fds \ FreeFds) =
                        leaked + Cardinality({w \in Workers : job[w].fd # 0})
                               + Cardinality({w \in Workers : Connected(w)})
    BY DEF DescriptorsAccounted, Connected
  <2>1. State /\ DescriptorsOK /\ Cardinality(LostFds) = leaked /\ leaked \in Nat
    BY DEF IInv, LeakOK, State, BoundsOK
  <2> DEFINE Ws == {w \in Workers : job[w].fd # 0}
             Cs == {w \in Workers : Connected(w)}
             Fs == {n \in Fds : fds[n].kind = "file"}
             Ss == {n \in Fds : fds[n].kind = "sock"}
  <2>2. IsFiniteSet(Ws) /\ IsFiniteSet(Cs) /\ IsFiniteSet(Fs) /\ IsFiniteSet(Ss)
        /\ IsFiniteSet(LostFds)
    BY FdsFinite, FetchAssumption, FS_Subset DEF LostFds
  <2>3. \A n \in Fds : /\ fds[n].kind \in {"closed", "lost", "sock", "file"}
                       /\ fds[n] = Closed <=> fds[n].kind = "closed"
                       /\ fds[n] = Lost <=> fds[n].kind = "lost"
    BY <2>1, KindOf DEF State, TableOK
  <2>4. \A w \in Ws : Working(w) /\ job[w].fd \in Fs
    BY <2>1, OwnDescriptors DEF DescriptorsOK, Owned, Has, HasFile, FileOf
  <2>5. \A w \in Cs : job[w].sock \in Ss
    BY <2>1, OwnDescriptors DEF DescriptorsOK, Owned, Has, SockOf
  <2>6. Cardinality(Fs) = Cardinality(Ws)
    <3> DEFINE f == [w \in Ws |-> job[w].fd]
    <3>1. f \in [Ws -> Fs]
      BY <2>4
    <3>2. \A w, v \in Ws : f[w] = f[v] => w = v
      BY <2>1, <2>4 DEF DescriptorsOK, Apart
    <3>3. \A n \in Fs : \E w \in Ws : f[w] = n
      <4> SUFFICES ASSUME NEW n \in Fs PROVE \E w \in Ws : job[w].fd = n
        OBVIOUS
      <4> QED
        BY <2>1, FdsFinite DEF DescriptorsOK, Known
    <3>4. ExistsBijection(Ws, Fs)
      <4> HIDE DEF f, Ws, Fs
      <4> QED
        BY <3>1, <3>2, <3>3 DEF ExistsBijection, Bijection, Injection, Surjection, IsInjective
    <3> QED
      BY <2>2, <3>4, FS_Bijection
  <2>7. Cardinality(Ss) = Cardinality(Cs)
    <3> DEFINE f == [w \in Cs |-> job[w].sock]
    <3>1. f \in [Cs -> Ss]
      BY <2>5
    <3>2. \A w, v \in Cs : f[w] = f[v] => w = v
      BY <2>1 DEF DescriptorsOK, Apart
    <3>3. \A n \in Ss : \E w \in Cs : f[w] = n
      <4> SUFFICES ASSUME NEW n \in Ss PROVE \E w \in Cs : job[w].sock = n
        OBVIOUS
      <4> QED
        BY <2>1 DEF DescriptorsOK, Known
    <3>4. ExistsBijection(Cs, Ss)
      <4> HIDE DEF f, Cs, Ss
      <4> QED
        BY <3>1, <3>2, <3>3 DEF ExistsBijection, Bijection, Injection, Surjection, IsInjective
    <3> QED
      BY <2>2, <3>4, FS_Bijection
  <2>8. /\ Fds \ FreeFds = (LostFds \cup Fs) \cup Ss
        /\ LostFds \cap Fs = {} /\ (LostFds \cup Fs) \cap Ss = {}
    BY <2>3 DEF FreeFds, LostFds
  <2> HIDE DEF Ws, Cs, Fs, Ss
  <2>9. Cardinality(LostFds \cup Fs) = leaked + Cardinality(Fs) /\ IsFiniteSet(LostFds \cup Fs)
    <3>1. Cardinality(Fs) \in Nat /\ Cardinality({}) = 0
      BY <2>2, FS_CardinalityType, FS_EmptySet
    <3> QED
      BY <2>1, <2>2, <2>8, <3>1, FS_Union
  <2>10. Cardinality(Fds \ FreeFds) = leaked + Cardinality(Fs) + Cardinality(Ss)
    <3>1. Cardinality(Fs) \in Nat /\ Cardinality(Ss) \in Nat /\ Cardinality({}) = 0
      BY <2>2, FS_CardinalityType, FS_EmptySet
    <3>2. Cardinality((LostFds \cup Fs) \cup Ss) =
            Cardinality(LostFds \cup Fs) + Cardinality(Ss) - Cardinality({})
      BY <2>2, <2>8, <2>9, FS_Union
    <3>3. Cardinality(Fds \ FreeFds) = Cardinality((LostFds \cup Fs) \cup Ss)
      BY <2>8
    <3> QED
      BY <2>1, <2>9, <3>1, <3>2, <3>3
  <2> QED
    BY <2>6, <2>7, <2>10 DEF Ws, Cs
<1>2. QED
  BY <1>1, FetchInvariant, PTL
=============================================================================
