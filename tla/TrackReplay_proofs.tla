-------------------------- MODULE TrackReplay_proofs --------------------------
(***************************************************************************)
(* Proofs about TrackReplay for any threads, any lengths of the files and  *)
(* any number of openings, clicks and times the GPS takes the view over.   *)
(***************************************************************************)
EXTENDS TrackReplay, FiniteSetTheorems, TLAPS

-----------------------------------------------------------------------------
(* Numbers *)

\* Max, a choice, has something to choose from.
LEMMA LargestNumber ==
  ASSUME NEW S, S \subseteq Nat, S # {}, IsFiniteSet(S)
  PROVE  /\ Max(S) \in S
         /\ \A y \in S : y <= Max(S)
<1> DEFINE R == StrictSubsetOrdering(Nat)
           Above(x) == {y \in S : y > x}
           T == {Above(x) : x \in S}
<1>1. IsWellFoundedOn(R, FiniteSubsetsOf(Nat))
  BY FS_StrictSubsetOrderingWellFounded
<1>2. T # {} /\ T \subseteq FiniteSubsetsOf(Nat)
  <2> SUFFICES ASSUME NEW x \in S PROVE Above(x) \in FiniteSubsetsOf(Nat)
    OBVIOUS
  <2>1. Above(x) \in SUBSET S /\ Above(x) \in SUBSET Nat
    OBVIOUS
  <2> HIDE DEF Above
  <2>2. IsFiniteSet(Above(x))
    BY <2>1, FS_Subset
  <2> QED
    BY <2>1, <2>2 DEF FiniteSubsetsOf
<1>3. ASSUME NEW x \in S, NEW y \in S, x < y
      PROVE  <<Above(y), Above(x)>> \in R
  <2>1. x \in Nat /\ y \in Nat /\ \A z \in S : z \in Nat
    OBVIOUS
  <2>2. y \in Above(x) /\ y \notin Above(y)
    BY <1>3, <2>1
  <2>3. \A z \in S : z > y => z > x
    BY <1>3, <2>1
  <2>4. Above(y) \subseteq Above(x)
    BY <2>3
  <2>5. Above(y) \subseteq Above(x) /\ y \in Above(x) /\ y \notin Above(y)
    BY <2>2, <2>4
  <2>6. Above(x) \subseteq Nat /\ Above(y) \subseteq Nat
    OBVIOUS
  <2> QED
    BY <2>5, <2>6 DEF StrictSubsetOrdering
<1> HIDE DEF R
<1>4. \E X \in T : \A Y \in T : ~(<<Y, X>> \in R)
  <2> HIDE DEF T
  <2> QED
    BY <1>1, <1>2, WFMin
<1>5. PICK x \in S : \A y \in S : ~(<<Above(y), Above(x)>> \in R)
  BY <1>4
<1>6. ASSUME NEW y \in S PROVE y <= x
  <2> SUFFICES ASSUME ~(y <= x) PROVE FALSE
    OBVIOUS
  <2>1. x < y
    OBVIOUS
  <2> QED
    BY <1>3, <1>5, <2>1
<1>7. \A y \in S : x >= y
  BY <1>6
<1>8. Max(S) \in S /\ \A y \in S : Max(S) >= y
  BY <1>7 DEF Max
<1>9. QED
  BY <1>8

-----------------------------------------------------------------------------
(* The inductive invariant *)

Longest == Max(Lengths)

LEMMA LongestIs ==
  /\ Longest \in Lengths /\ Longest \in Nat \ {0}
  /\ \A n \in Lengths : n \in Nat \ {0} /\ n <= Longest
BY ReplayAssumption, LargestNumber DEF Longest

Places == {"none", "born", "head", "setup", "loop", "towait", "paused", "woken", "label",
           "draw", "stopping", "torest", "rest", "ended"}
Flags == {"running", "stop", "toend", "suspend", "suspending"}
Passing == [at : Places, i : -1..Longest, from : -1..Longest, end : 0..Longest, inc : {1, -1}]

\* A thread that got so far found a file with records; in a pass it goes by the direction of the
\* button, and its index is that of a record, or one step beyond between two records.
Bounds(t) ==
  /\ thr[t].at \notin {"none", "born", "ended"} => total # 0
  /\ InPass(t) =>
       /\ forward <=> thr[t].inc = 1
       /\ thr[t].end < Longest
       /\ IF thr[t].inc = 1
          THEN 0 <= thr[t].i /\ thr[t].i <= thr[t].end + (IF thr[t].at = "loop" THEN 1 ELSE 0)
          ELSE /\ thr[t].end = 0 /\ thr[t].i < Longest
               /\ (IF thr[t].at = "loop" THEN -1 ELSE 0) <= thr[t].i

\* What a thread relies on, as long as no file was read over it.
PassOK(t) ==
  /\ InPass(t) =>
       /\ ~canTurn
       /\ thr[t].inc = 1 => thr[t].end = total - 1
       /\ thr[t].inc = -1 => thr[t].i < total
       /\ last_draw # -1 => thr[t].from = last_draw + thr[t].inc
       /\ last_draw = -1 => thr[t].from = (IF forward THEN 0 ELSE total - 1)
  /\ thr[t].at = "setup" => last_draw = -1
  /\ thr[t].at \in {"setup", "loop", "draw", "label", "stopping"} => ~flags.suspending
  /\ thr[t].at \in {"born", "head", "torest", "rest"} => ~canStep

Loaded == records = total /\ total \in Lengths

Sound ==
  /\ \A t \in Threads : Alive(t) => t = tid /\ Loaded /\ PassOK(t)
  /\ tid # NoThread /\ closing = "no" => Alive(tid)
  /\ shown /\ canStart => Loaded
  /\ redraw => tid # NoThread
  /\ shown /\ tid = NoThread => ~canStep

Regular ==
  ~tangled => IF over = "no" THEN Sound ELSE over = "exit" /\ \A t \in Threads : ~Alive(t)

\* Whoever holds the view is there to give it back, even when a file was read over a thread: there
\* is one thread, which the tid names unless a malformed file made it forget; it has taken nothing
\* before its first pass, and goes on until a callback waits for its end.
Owing ==
  over = "no" =>
    /\ \A s, t \in Threads : Alive(s) /\ Alive(t) => s = t
    /\ closing # "no" => tid # NoThread
    /\ \A t \in Threads : Alive(t) =>
         /\ tid \in {NoThread, t}
         /\ thr[t].at = "born" => ~frozen /\ ~redraw
         /\ closing = "no" => thr[t].at = "born" \/ flags.running
    /\ frozen \/ redraw => tid # NoThread \/ \E t \in Threads : Alive(t)

IInv == ReplayTypeOK /\ (\A t \in Threads : Bounds(t)) /\ Regular /\ Owing

\* The type invariant in the words of the proofs
LEMMA TypeIs ==
  ReplayTypeOK <=>
    /\ shown \in BOOLEAN /\ forward \in BOOLEAN /\ frozen \in BOOLEAN /\ redraw \in BOOLEAN
    /\ records \in Lengths \cup {NoRecords, 0} /\ total \in Lengths \cup {0}
    /\ last_draw \in -1..(Longest - 1)
    /\ tid \in Threads \cup {NoThread}
    /\ canStart \in BOOLEAN /\ canStep \in BOOLEAN /\ canTurn \in BOOLEAN /\ tangled \in BOOLEAN
    /\ flags \in [Flags -> BOOLEAN]
    /\ thr \in [Threads -> Passing]
    /\ closing \in {"no", "close", "exit"} /\ over \in {"no", "exit", "crash"}
    /\ opens \in 0..MaxOpens /\ leaves \in 0..MaxLeaves /\ clicks \in 0..MaxClicks
BY DEF ReplayTypeOK, Flags, Passing, Places, Longest

NowAndThen ==   \* the state but for the threads and what a thread's own step may change
  <<shown, records, total, forward, tid, closing, over, opens, leaves, clicks, tangled>>

\* A living thread takes a step: what it has to leave behind.
LEMMA ThreadStepKeeps ==
  ASSUME IInv, over = "no", NEW t \in Threads, Alive(t), NEW p \in Passing,
         thr' = [thr EXCEPT ![t] = p], UNCHANGED NowAndThen,
         last_draw' \in -1..(Longest - 1), flags' \in [Flags -> BOOLEAN],
         canStart' \in BOOLEAN, canStep' \in BOOLEAN, canTurn' \in BOOLEAN,
         frozen' \in BOOLEAN, redraw' \in BOOLEAN,
         Bounds(t)',
         ~tangled => (Alive(t)' => PassOK(t)'),
         p.at # "born",
         closing = "no" => IF Alive(t)' THEN flags'.running ELSE tangled /\ ~frozen' /\ ~redraw'
  PROVE  IInv'
<1> USE ReplayAssumption
<1>1. thr \in [Threads -> Passing] /\ thr' \in [Threads -> Passing]
  BY TypeIs DEF IInv
<1>2. thr'[t] = p /\ \A s \in Threads \ {t} : thr'[s] = thr[s]
  BY <1>1
<1>3. ReplayTypeOK'
  BY <1>1, TypeIs DEF IInv, NowAndThen, ReplayTypeOK, Flags, Passing, Places, Longest
<1>4. ASSUME NEW s \in Threads PROVE Bounds(s)'
  <2>1. CASE s = t
    BY <2>1
  <2>2. CASE s # t
    <3>1. Bounds(s)
      BY DEF IInv
    <3> QED
      BY <1>2, <2>2, <3>1 DEF Bounds, InPass, NowAndThen
  <2> QED
    BY <2>1, <2>2
<1>5. Regular'
  <2> SUFFICES ASSUME ~tangled PROVE Sound'
    BY DEF Regular, NowAndThen
  <2>1. Sound
    BY DEF IInv, Regular
  <2>2. t = tid /\ Loaded /\ Loaded' /\ tid # NoThread
    BY <2>1 DEF Sound, Loaded, NowAndThen, NoThread
  <2>3. ASSUME NEW s \in Threads, Alive(s)' PROVE s = tid' /\ Loaded' /\ PassOK(s)'
    <3>1. CASE s = t
      BY <2>2, <2>3, <3>1 DEF NowAndThen
    <3>2. CASE s # t
      BY <1>2, <2>1, <2>2, <2>3, <3>2 DEF Sound, Alive
    <3> QED
      BY <3>1, <3>2
  <2>4. tid' # NoThread /\ closing' = "no" => Alive(tid)'
    BY <1>2, <2>2 DEF NowAndThen, Alive
  <2> QED
    BY <2>1, <2>2, <2>3, <2>4 DEF Sound, NowAndThen
<1>6. Owing'
  <2>1. Owing /\ Alive(t)
    BY DEF IInv
  <2>2. ASSUME NEW s \in Threads, Alive(s)' PROVE s = t
    BY <1>2, <2>1, <2>2 DEF Owing, Alive
  <2>3. tid \in {NoThread, t} /\ (closing # "no" => tid # NoThread)
    BY <2>1 DEF Owing
  <2>4. frozen' \/ redraw' => tid # NoThread \/ Alive(t)'
    BY <2>3
  <2>5. thr'[t].at # "born" /\ (closing = "no" /\ Alive(t)' => flags'.running)
    BY <1>2
  <2> QED
    BY <2>2, <2>3, <2>4, <2>5 DEF Owing, NowAndThen
<1>7. QED
  BY <1>3, <1>4, <1>5, <1>6 DEF IInv

\* A callback that changes flags and at most wakes a waiting thread: it does not touch what the
\* thread has said of its pause, nor end it unless it goes on to wait for its end.
LEMMA WakingKeeps ==
  ASSUME IInv, over = "no", WakeUp, UNCHANGED <<dataVars, uiVars, over, opens, leaves, tangled>>,
         clicks' \in 0..MaxClicks, closing' \in {"no", "close", "exit"},
         flags' \in [Flags -> BOOLEAN], flags'.suspending = flags.suspending,
         closing' = "no" => closing = "no" /\ flags'.running = flags.running,
         closing' # "no" => tid # NoThread
  PROVE  IInv'
<1> USE ReplayAssumption
<1>1. thr \in [Threads -> Passing]
  BY TypeIs DEF IInv
<1>2. /\ thr' \in [Threads -> Passing]
      /\ \A s \in Threads :
           \/ thr'[s] = thr[s]
           \/ /\ thr[s].at = "paused" /\ thr'[s] = [thr[s] EXCEPT !.at = "woken"]
           \/ /\ thr[s].at = "rest" /\ thr'[s] = [thr[s] EXCEPT !.at = "head"]
  <2>1. CASE Waiting = {}
    BY <1>1, <2>1 DEF WakeUp
  <2>2. CASE Waiting # {}
    <3>1. PICK t \in Waiting : thr' = [thr EXCEPT ![t].at = Awake(t)]
      BY <2>2 DEF WakeUp
    <3>2. t \in Threads /\ thr[t].at \in {"paused", "rest"}
      BY <3>1 DEF Waiting
    <3>3. thr' = [thr EXCEPT ![t] = [thr[t] EXCEPT !.at = Awake(t)]]
      BY <1>1, <3>1, <3>2
    <3>4. thr[t] \in Passing
      BY <1>1, <3>2
    <3>5. [thr[t] EXCEPT !.at = Awake(t)] \in Passing
      BY <3>2, <3>4 DEF Passing, Places, Awake
    <3>6. thr' \in [Threads -> Passing] /\ thr'[t] = [thr[t] EXCEPT !.at = Awake(t)]
          /\ \A s \in Threads \ {t} : thr'[s] = thr[s]
      BY <1>1, <3>2, <3>3, <3>5
    <3> QED
      BY <3>2, <3>6 DEF Awake
  <2> QED
    BY <2>1, <2>2
<1>3. ASSUME NEW s \in Threads
      PROVE  /\ Alive(s)' <=> Alive(s)
             /\ InPass(s)' <=> InPass(s)
             /\ thr'[s].i = thr[s].i /\ thr'[s].from = thr[s].from
             /\ thr'[s].end = thr[s].end /\ thr'[s].inc = thr[s].inc
             /\ \/ thr'[s].at = thr[s].at
                \/ thr[s].at = "paused" /\ thr'[s].at = "woken"
                \/ thr[s].at = "rest" /\ thr'[s].at = "head"
  <2>1. thr[s] \in Passing
    BY <1>1
  <2> QED
    BY <1>2, <2>1 DEF Alive, InPass, Passing
<1>4. ReplayTypeOK'
  BY <1>2, TypeIs DEF IInv, ReplayTypeOK, Flags, Passing, Places, Longest, dataVars, uiVars,
                      buttonVars
<1>5. ASSUME NEW s \in Threads PROVE Bounds(s)'
  <2>1. Bounds(s)
    BY DEF IInv
  <2> QED
    BY <1>3, <2>1 DEF Bounds, uiVars, dataVars
<1>6. Regular'
  <2> SUFFICES ASSUME ~tangled PROVE Sound'
    BY DEF Regular
  <2>1. Sound
    BY DEF IInv, Regular
  <2>2. ASSUME NEW s \in Threads, Alive(s)' PROVE s = tid' /\ Loaded' /\ PassOK(s)'
    <3>1. Alive(s) /\ s = tid /\ Loaded /\ PassOK(s)
      BY <1>3, <2>1, <2>2 DEF Sound
    <3>2. PassOK(s)'
      BY <1>3, <3>1 DEF PassOK, uiVars, dataVars, buttonVars
    <3> QED
      BY <3>1, <3>2 DEF Loaded, uiVars, dataVars
  <2>3. tid' # NoThread /\ closing' = "no" => Alive(tid)'
    <3> SUFFICES ASSUME tid # NoThread, closing' = "no" PROVE Alive(tid)'
      BY DEF uiVars
    <3>1. tid \in Threads /\ closing = "no" /\ tid' = tid
      BY DEF IInv, ReplayTypeOK, uiVars
    <3>2. Alive(tid)
      BY <2>1, <3>1 DEF Sound
    <3> QED
      BY <1>3, <3>1, <3>2 DEF Alive
  <2> QED
    BY <2>1, <2>2, <2>3 DEF Sound, Loaded, uiVars, dataVars, buttonVars
<1>7. Owing'
  <2>1. Owing
    BY DEF IInv
  <2>2. ASSUME NEW s \in Threads
        PROVE  (Alive(s)' <=> Alive(s)) /\ (thr'[s].at = "born" <=> thr[s].at = "born")
    BY <1>3
  <2> QED
    BY <2>1, <2>2 DEF Owing, uiVars
<1>8. QED
  BY <1>4, <1>5, <1>6, <1>7 DEF IInv

-----------------------------------------------------------------------------
(* The steps of the thread *)

\* What a living thread may rely on.
LEMMA ThreadKnows ==
  ASSUME IInv, over = "no", NEW t \in Threads, Alive(t)
  PROVE  /\ thr \in [Threads -> Passing] /\ thr[t] \in Passing
         /\ flags \in [Flags -> BOOLEAN] /\ last_draw \in -1..(Longest - 1)
         /\ canStart \in BOOLEAN /\ canStep \in BOOLEAN /\ canTurn \in BOOLEAN
         /\ frozen \in BOOLEAN /\ redraw \in BOOLEAN /\ forward \in BOOLEAN
         /\ total \in Lengths \cup {0} /\ total \in Nat /\ total <= Longest
         /\ Bounds(t)
         /\ thr[t].at = "born" => ~frozen /\ ~redraw
         /\ closing = "no" => thr[t].at = "born" \/ flags.running
         /\ ~tangled => t = tid /\ Loaded /\ PassOK(t)
<1>1. t # NoThread
  BY ReplayAssumption DEF NoThread
<1>2. thr \in [Threads -> Passing] /\ total \in Lengths \cup {0}
  BY TypeIs DEF IInv
<1>3. total \in Nat /\ total <= Longest
  BY <1>2, LongestIs
<1>4. ~tangled => t = tid /\ Loaded /\ PassOK(t)
  BY <1>1 DEF IInv, Regular, Sound
<1>5. /\ thr[t].at = "born" => ~frozen /\ ~redraw
      /\ closing = "no" => thr[t].at = "born" \/ flags.running
  BY DEF IInv, Owing
<1>6. QED
  BY <1>2, <1>3, <1>4, <1>5, TypeIs DEF IInv

LEMMA FlagSet ==
  ASSUME flags \in [Flags -> BOOLEAN], NEW f \in Flags, NEW b \in BOOLEAN, Flag(f, b)
  PROVE  /\ flags' \in [Flags -> BOOLEAN] /\ flags'[f] = b
         /\ \A g \in Flags \ {f} : flags'[g] = flags[g]
BY DEF Flag

\* A thread moves from one place to another and keeps its variables.
LEMMA PlaceOf ==
  ASSUME thr \in [Threads -> Passing], NEW t \in Threads, NEW place \in Places, Goes(t, place)
  PROVE  \E p \in Passing :
           /\ thr' = [thr EXCEPT ![t] = p] /\ thr'[t] = p
           /\ p.at = place /\ p.i = thr[t].i /\ p.from = thr[t].from /\ p.end = thr[t].end
           /\ p.inc = thr[t].inc
<1> DEFINE p == [thr[t] EXCEPT !.at = place]
<1>1. thr[t] \in Passing
  OBVIOUS
<1>2. p \in Passing /\ p.at = place /\ p.i = thr[t].i /\ p.from = thr[t].from
      /\ p.end = thr[t].end /\ p.inc = thr[t].inc
  BY <1>1 DEF Passing
<1>3. thr' = [thr EXCEPT ![t] = p]
  BY DEF Goes
<1> HIDE DEF p
<1>4. thr'[t] = p
  BY <1>3
<1>5. QED
  BY <1>2, <1>3, <1>4

\* A thread leaves its pass.
LEMMA LeavesFor ==
  ASSUME thr \in [Threads -> Passing], NEW t \in Threads, NEW place \in Places, Leaves(t, place)
  PROVE  \E p \in Passing : thr' = [thr EXCEPT ![t] = p] /\ thr'[t] = p /\ p.at = place
<1> DEFINE p == [NoPass EXCEPT !.at = place]
<1>1. p.at = place /\ p.i = 0 /\ p.from = 0 /\ p.end = 0 /\ p.inc = 1
  BY DEF NoPass
<1>2. p \in Passing
  BY LongestIs DEF NoPass, Passing
<1>3. thr' = [thr EXCEPT ![t] = p]
  BY DEF Leaves
<1> HIDE DEF p
<1>4. thr'[t] = p
  BY <1>3
<1>5. QED
  BY <1>1, <1>2, <1>3, <1>4

LEMMA BornKeeps ==
  ASSUME IInv, NEW t \in Threads, Born(t) PROVE IInv'
<1>1. over = "no" /\ thr[t].at = "born" /\ Alive(t) /\ UNCHANGED NowAndThen
      /\ UNCHANGED <<last_draw, canStart, canStep, canTurn, frozen, redraw>>
  BY DEF Born, At, Alive, Quiet, NowAndThen, dataVars, uiVars, buttonVars, endVars
<1>2. PICK p \in Passing :
        /\ thr' = [thr EXCEPT ![t] = p] /\ thr'[t] = p
        /\ p.at = IF total = 0 THEN "ended" ELSE "head"
  <2>1. CASE total = 0
    BY <1>1, <2>1, ThreadKnows, PlaceOf DEF Born, Places
  <2>2. CASE total # 0
    BY <1>1, <2>2, ThreadKnows, PlaceOf DEF Born, Places
  <2> QED
    BY <2>1, <2>2
<1>3. /\ flags' \in [Flags -> BOOLEAN]
      /\ total # 0 => flags'.running
      /\ flags'.suspending = flags.suspending
  <2>1. CASE total = 0
    BY <1>1, <2>1, ThreadKnows DEF Born
  <2>2. CASE total # 0
    BY <1>1, <2>2, ThreadKnows, FlagSet DEF Born, Flags
  <2> QED
    BY <2>1, <2>2
<1>4. Bounds(t)'
  BY <1>1, <1>2 DEF Bounds, InPass, NowAndThen
<1>5. ~tangled => total # 0 /\ ~canStep /\ p.at = "head"
  <2> SUFFICES ASSUME ~tangled PROVE total # 0 /\ ~canStep /\ p.at = "head"
    OBVIOUS
  <2>1. Loaded /\ PassOK(t)
    BY <1>1, ThreadKnows
  <2> QED
    BY <1>1, <1>2, <2>1, LongestIs DEF Loaded, PassOK
<1>6. ~tangled => PassOK(t)'
  BY <1>1, <1>2, <1>5 DEF PassOK, InPass
<1>7. /\ p.at # "born"
      /\ closing = "no" => IF Alive(t)' THEN flags'.running ELSE tangled /\ ~frozen' /\ ~redraw'
  <2>1. CASE total = 0
    BY <1>1, <1>2, <1>5, <2>1, ThreadKnows DEF Alive
  <2>2. CASE total # 0
    BY <1>2, <1>3, <2>2 DEF Alive
  <2> QED
    BY <2>1, <2>2
<1>8. QED
  <2>1. last_draw' \in -1..(Longest - 1)
        /\ canStart' \in BOOLEAN /\ canStep' \in BOOLEAN /\ canTurn' \in BOOLEAN
        /\ frozen' \in BOOLEAN /\ redraw' \in BOOLEAN
    BY <1>1, ThreadKnows
  <2> QED
    BY <1>1, <1>2, <1>3, <1>4, <1>6, <1>7, <2>1, ThreadStepKeeps

LEMMA HeadKeeps ==
  ASSUME IInv, NEW t \in Threads, Head(t) PROVE IInv'
<1>1. over = "no" /\ thr[t].at = "head" /\ Alive(t) /\ UNCHANGED NowAndThen
      /\ UNCHANGED <<canStart, canStep, canTurn, frozen, redraw>>
  BY DEF Head, At, Alive, NowAndThen, uiVars, buttonVars, endVars
<1> USE ThreadKnows
<1>2. PICK p \in Passing :
        /\ thr' = [thr EXCEPT ![t] = p] /\ thr'[t] = p
        /\ p.at = IF flags.running THEN "setup" ELSE "ended"
  BY <1>1, PlaceOf DEF Head, Places
<1>3. /\ flags' \in [Flags -> BOOLEAN] /\ flags'.running = flags.running
      /\ flags.running => ~flags'.suspending /\ last_draw' = -1
      /\ ~flags.running => last_draw' = last_draw
  BY <1>1 DEF Head, PassFlags, Flags
<1>4. last_draw' \in -1..(Longest - 1)
  BY <1>1, <1>3, LongestIs
<1>5. Bounds(t)'
  BY <1>1, <1>2 DEF Bounds, InPass, NowAndThen
<1>6. ~tangled => (Alive(t)' => PassOK(t)')
  BY <1>1, <1>2, <1>3 DEF PassOK, InPass, Alive
<1>7. p.at # "born" /\ (closing = "no" => Alive(t)' /\ flags'.running)
  BY <1>1, <1>2, <1>3 DEF Alive
<1>8. QED
  BY <1>1, <1>2, <1>3, <1>4, <1>5, <1>6, <1>7, ThreadStepKeeps

LEMMA SetupKeeps ==
  ASSUME IInv, NEW t \in Threads, Setup(t) PROVE IInv'
<1>1. over = "no" /\ thr[t].at = "setup" /\ Alive(t) /\ UNCHANGED NowAndThen
      /\ flags' = flags /\ last_draw' = last_draw
      /\ frozen' = TRUE /\ redraw' = TRUE /\ canStart' = TRUE /\ canStep' = TRUE
      /\ canTurn' = FALSE
  BY DEF Setup, At, UiFree, Alive, NowAndThen, dataVars, endVars
<1> USE ThreadKnows
<1> DEFINE p == IF forward
                THEN [at |-> "loop", i |-> 0, from |-> 0, end |-> total - 1, inc |-> 1]
                ELSE [at |-> "loop", i |-> total - 1, from |-> total - 1, end |-> 0, inc |-> -1]
<1>2. total \in 1..Longest /\ Longest \in Nat
  BY <1>1, LongestIs DEF Bounds
<1>3. /\ p.at = "loop" /\ p.inc = (IF forward THEN 1 ELSE -1)
      /\ p.i = (IF forward THEN 0 ELSE total - 1) /\ p.from = p.i
      /\ p.end = IF forward THEN total - 1 ELSE 0
  OBVIOUS
<1>4. p \in Passing
  <2>1. CASE forward
    BY <1>2, <2>1 DEF Passing, Places
  <2>2. CASE ~forward
    BY <1>2, <2>2 DEF Passing, Places
  <2> QED
    BY <2>1, <2>2
<1>5. thr' = [thr EXCEPT ![t] = p]
  BY DEF Setup
<1> HIDE DEF p
<1>6. thr'[t] = p
  BY <1>1, <1>5
<1>7. Bounds(t)'
  BY <1>1, <1>2, <1>3, <1>6 DEF Bounds, InPass, NowAndThen
<1>8. ~tangled => PassOK(t)'
  BY <1>1, <1>2, <1>3, <1>6 DEF PassOK, InPass, NowAndThen
<1>9. p.at # "born" /\ (closing = "no" => Alive(t)' /\ flags'.running)
  BY <1>1, <1>3, <1>6 DEF Alive
<1>10. QED
  BY <1>1, <1>4, <1>5, <1>7, <1>8, <1>9, ThreadStepKeeps

LEMMA LoopEndsKeeps ==
  ASSUME IInv, NEW t \in Threads, LoopEnds(t) PROVE IInv'
<1>1. over = "no" /\ thr[t].at = "loop" /\ Alive(t) /\ UNCHANGED NowAndThen
      /\ UNCHANGED <<last_draw, canStart, canStep, canTurn, frozen, redraw>>
  BY DEF LoopEnds, At, Alive, Quiet, NowAndThen, dataVars, uiVars, buttonVars, endVars
<1> USE ThreadKnows
<1>2. PICK p \in Passing :
        /\ thr' = [thr EXCEPT ![t] = p] /\ thr'[t] = p
        /\ p.at = IF flags.running THEN "stopping" ELSE "ended"
  <2>1. CASE flags.running
    BY <1>1, <2>1, LeavesFor DEF LoopEnds, Places
  <2>2. CASE ~flags.running
    <3>1. Leaves(t, "ended") /\ "ended" \in Places /\ thr \in [Threads -> Passing]
      BY <1>1, <2>2 DEF LoopEnds, Places
    <3> QED
      BY <2>2, <3>1, LeavesFor
  <2> QED
    BY <2>1, <2>2
<1>3. flags' \in [Flags -> BOOLEAN] /\ flags'.running = flags.running
      /\ flags'.suspending = flags.suspending
  BY <1>1, FlagSet DEF LoopEnds, Flags
<1>4. Bounds(t)'
  BY <1>1, <1>2 DEF Bounds, InPass, NowAndThen
<1>5. ~tangled => (Alive(t)' => PassOK(t)')
  BY <1>1, <1>2, <1>3 DEF PassOK, InPass, Alive
<1>6. p.at # "born" /\ (closing = "no" => Alive(t)' /\ flags'.running)
  BY <1>1, <1>2, <1>3 DEF Alive
<1>7. QED
  BY <1>1, <1>2, <1>3, <1>4, <1>5, <1>6, ThreadStepKeeps

LEMMA LoopSuspendsKeeps ==
  ASSUME IInv, NEW t \in Threads, LoopSuspends(t) PROVE IInv'
<1>1. over = "no" /\ thr[t].at = "loop" /\ Alive(t) /\ UNCHANGED NowAndThen
      /\ UNCHANGED <<last_draw, canStart, canStep, canTurn, frozen, redraw>>
      /\ InRange(t) /\ flags.running
  BY DEF LoopSuspends, Walks, At, Alive, Quiet, NowAndThen, dataVars, uiVars, buttonVars, endVars
<1> USE ThreadKnows
<1>2. PICK p \in Passing :
        /\ thr' = [thr EXCEPT ![t] = p] /\ thr'[t] = p
        /\ p.at = "towait" /\ p.i = thr[t].i /\ p.from = thr[t].from /\ p.end = thr[t].end
        /\ p.inc = thr[t].inc
  BY <1>1, PlaceOf DEF LoopSuspends, Places
<1>3. flags' \in [Flags -> BOOLEAN] /\ flags'.running
  BY <1>1 DEF LoopSuspends, Flags
<1>4. Bounds(t)'
  BY <1>1, <1>2 DEF Bounds, InPass, NowAndThen, InRange, Passing
<1>5. ~tangled => PassOK(t)'
  BY <1>1, <1>2, <1>3 DEF PassOK, InPass, NowAndThen
<1>6. p.at # "born" /\ Alive(t)'
  BY <1>2 DEF Alive
<1>7. QED
  BY <1>1, <1>2, <1>3, <1>4, <1>5, <1>6, ThreadStepKeeps

LEMMA ResumesKeeps ==
  ASSUME IInv, NEW t \in Threads, Resumes(t) PROVE IInv'
<1>1. over = "no" /\ thr[t].at = "woken" /\ Alive(t) /\ UNCHANGED NowAndThen
      /\ UNCHANGED <<last_draw, canStart, canStep, canTurn, frozen, redraw>>
  BY DEF Resumes, At, Alive, Quiet, NowAndThen, dataVars, uiVars, buttonVars, endVars
<1> USE ThreadKnows
<1>2. PICK p \in Passing :
        /\ thr' = [thr EXCEPT ![t] = p] /\ thr'[t] = p
        /\ p.at = "label" /\ p.i = thr[t].i /\ p.from = thr[t].from /\ p.end = thr[t].end
        /\ p.inc = thr[t].inc
  BY <1>1, PlaceOf DEF Resumes, Places
<1>3. flags' \in [Flags -> BOOLEAN] /\ flags'.running = flags.running /\ ~flags'.suspending
  BY <1>1, FlagSet DEF Resumes, Flags
<1>4. Bounds(t)'
  BY <1>1, <1>2 DEF Bounds, InPass, NowAndThen
<1>5. ~tangled => PassOK(t)'
  BY <1>1, <1>2, <1>3 DEF PassOK, InPass, NowAndThen
<1>6. p.at # "born" /\ (closing = "no" => Alive(t)' /\ flags'.running)
  BY <1>1, <1>2, <1>3 DEF Alive
<1>7. QED
  BY <1>1, <1>2, <1>3, <1>4, <1>5, <1>6, ThreadStepKeeps

\* On to a record within the pass, to be drawn now or with the next one
LEMMA PassesKeeps ==
  ASSUME IInv, over = "no", NEW t \in Threads, thr[t].at \in {"loop", "label"},
         NEW k \in Int, k \in {thr[t].i, thr[t].end},
         IF thr[t].inc = 1 THEN 0 <= k /\ k <= thr[t].end ELSE thr[t].end <= k,
         Passes(t, k), UNCHANGED <<dataVars, uiVars, endVars>>,
         flags' \in [Flags -> BOOLEAN], flags'.running = flags.running,
         flags'.suspending = flags.suspending
  PROVE  IInv'
<1> USE ThreadKnows
<1>1. Alive(t) /\ InPass(t) /\ UNCHANGED NowAndThen
      /\ UNCHANGED <<last_draw, canStart, canStep, canTurn, frozen, redraw>>
  BY DEF Alive, InPass, NowAndThen, dataVars, uiVars, buttonVars, endVars
<1>2. thr[t].inc \in {1, -1} /\ thr[t].end \in 0..Longest /\ thr[t].i \in -1..Longest
      /\ Longest \in Nat
  BY <1>1, LongestIs DEF Passing
<1>3. PICK p \in Passing :
        /\ thr' = [thr EXCEPT ![t] = p] /\ thr'[t] = p
        /\ p.from = thr[t].from /\ p.end = thr[t].end /\ p.inc = thr[t].inc
        /\ \/ p.at = "draw" /\ p.i = k
           \/ k # thr[t].end /\ p.at = "loop" /\ p.i = k + thr[t].inc
  <2>1. CASE thr' = [thr EXCEPT ![t].at = "draw", ![t].i = k]
    <3> DEFINE p == [thr[t] EXCEPT !.at = "draw", !.i = k]
    <3>1. p.at = "draw" /\ p.i = k
          /\ p.from = thr[t].from /\ p.end = thr[t].end /\ p.inc = thr[t].inc
      BY <1>1 DEF Passing
    <3>0. k \in -1..Longest
      BY <1>2
    <3>2. p \in Passing
      BY <1>1, <3>0 DEF Passing, Places
    <3>3. thr' = [thr EXCEPT ![t] = p]
      BY <1>1, <2>1
    <3> HIDE DEF p
    <3>4. thr'[t] = p
      BY <1>1, <3>3
    <3> QED
      BY <3>1, <3>2, <3>3, <3>4
  <2>2. CASE k # thr[t].end /\ thr' = [thr EXCEPT ![t].at = "loop", ![t].i = k + thr[t].inc]
    <3> DEFINE p == [thr[t] EXCEPT !.at = "loop", !.i = k + thr[t].inc]
    <3>1. p.at = "loop" /\ p.i = k + thr[t].inc
          /\ p.from = thr[t].from /\ p.end = thr[t].end /\ p.inc = thr[t].inc
      BY <1>1 DEF Passing
    <3>2. k + thr[t].inc \in -1..Longest
      BY <1>1, <1>2, <2>2 DEF Bounds
    <3>3. p \in Passing
      BY <1>1, <1>2, <3>2 DEF Passing, Places
    <3>4. thr' = [thr EXCEPT ![t] = p]
      BY <1>1, <2>2
    <3> HIDE DEF p
    <3>5. thr'[t] = p
      BY <1>1, <3>4
    <3> QED
      BY <2>2, <3>1, <3>3, <3>4, <3>5
  <2> QED
    BY <2>1, <2>2 DEF Passes
<1>4. Bounds(t)'
  <2>1. Bounds(t)
    BY <1>1
  <2>2. CASE p.at = "draw" /\ p.i = k
    BY <1>1, <1>2, <1>3, <2>1, <2>2 DEF Bounds, InPass, NowAndThen
  <2>3. CASE k # thr[t].end /\ p.at = "loop" /\ p.i = k + thr[t].inc
    BY <1>1, <1>2, <1>3, <2>1, <2>3 DEF Bounds, InPass, NowAndThen
  <2> QED
    BY <1>3, <2>2, <2>3
<1>5. ~tangled => PassOK(t)'
  <2> SUFFICES ASSUME ~tangled PROVE PassOK(t)'
    OBVIOUS
  <2>1. PassOK(t) /\ Bounds(t) /\ ~flags.suspending
    BY <1>1 DEF PassOK
  <2>2. thr[t].inc = -1 => p.i < total
    BY <1>1, <1>2, <1>3, <2>1 DEF PassOK, Bounds
  <2>3. p.at \in {"draw", "loop"} /\ ~flags'.suspending
    BY <1>3, <2>1
  <2> QED
    BY <1>1, <1>2, <1>3, <2>1, <2>2, <2>3 DEF PassOK, InPass, NowAndThen
<1>6. p.at # "born" /\ (closing = "no" => Alive(t)' /\ flags'.running)
  BY <1>1, <1>3 DEF Alive
<1>7. QED
  BY <1>1, <1>3, <1>4, <1>5, <1>6, ThreadStepKeeps

LEMMA AdvancesKeeps ==
  ASSUME IInv, NEW t \in Threads, Advances(t) PROVE IInv'
<1> USE ThreadKnows
<1>1. over = "no" /\ thr[t].at \in {"loop", "label"} /\ Alive(t) /\ InPass(t)
      /\ UNCHANGED <<dataVars, uiVars, endVars>>
  BY DEF Advances, Walks, At, Alive, InPass, Quiet
<1>2. thr[t].inc \in {1, -1} /\ thr[t].end \in 0..Longest /\ thr[t].i \in -1..Longest
      /\ thr[t].i \in Int /\ thr[t].end \in Int /\ Longest \in Nat /\ Bounds(t)
      /\ flags \in [Flags -> BOOLEAN]
  BY <1>1, LongestIs DEF Passing
<1>3. CASE Walks(t) /\ flags.toend /\ Flag("toend", FALSE) /\ Passes(t, thr[t].end)
  <2>1. flags' \in [Flags -> BOOLEAN] /\ flags'.running = flags.running
        /\ flags'.suspending = flags.suspending
    BY <1>2, <1>3, FlagSet DEF Flags
  <2> QED
    BY <1>1, <1>2, <1>3, <2>1, PassesKeeps
<1>4. CASE Walks(t) /\ ~flags.toend /\ ~flags.suspend /\ UNCHANGED flags /\ Passes(t, thr[t].i)
  <2>1. IF thr[t].inc = 1 THEN 0 <= thr[t].i /\ thr[t].i <= thr[t].end
                          ELSE thr[t].end <= thr[t].i
    BY <1>1, <1>2, <1>4 DEF Walks, InRange, Bounds
  <2> QED
    BY <1>1, <1>2, <1>4, <2>1, PassesKeeps
<1>5. CASE At(t, "label") /\ UiFree /\ UNCHANGED flags /\ Passes(t, thr[t].i)
  <2>1. IF thr[t].inc = 1 THEN 0 <= thr[t].i /\ thr[t].i <= thr[t].end
                          ELSE thr[t].end <= thr[t].i
    BY <1>1, <1>2, <1>5 DEF At, Bounds
  <2> QED
    BY <1>1, <1>2, <1>5, <2>1, PassesKeeps
<1>6. QED
  BY <1>3, <1>4, <1>5 DEF Advances

LEMMA DrawsKeeps ==
  ASSUME IInv, NEW t \in Threads, Draws(t) PROVE IInv'
<1> USE ThreadKnows
<1>1. over = "no" /\ thr[t].at = "draw" /\ Alive(t) /\ InPass(t) /\ UNCHANGED NowAndThen
      /\ UNCHANGED <<flags, canStart, canStep, canTurn, frozen, redraw>>
      /\ last_draw' = thr[t].i
  BY DEF Draws, At, Alive, InPass, NowAndThen, uiVars, buttonVars, endVars
<1>2. thr[t].inc \in {1, -1} /\ thr[t].end \in 0..Longest /\ thr[t].i \in -1..Longest
      /\ Longest \in Nat /\ Bounds(t)
  BY <1>1, LongestIs DEF Passing
<1>3. thr[t].i \in 0..(Longest - 1) /\ thr[t].i + thr[t].inc \in -1..Longest
  BY <1>1, <1>2 DEF Bounds
<1> DEFINE p == [thr[t] EXCEPT !.at = "loop", !.i = @ + thr[t].inc, !.from = Next_from(t)]
<1>4. p.at = "loop" /\ p.i = thr[t].i + thr[t].inc /\ p.from = thr[t].i + thr[t].inc
      /\ p.end = thr[t].end /\ p.inc = thr[t].inc
  BY <1>1 DEF Next_from, Passing
<1>5. p \in Passing
  BY <1>1, <1>2, <1>3 DEF Next_from, Passing, Places
<1>6. thr' = [thr EXCEPT ![t] = p]
  BY <1>1 DEF Draws
<1> HIDE DEF p
<1>7. thr'[t] = p
  BY <1>1, <1>6
<1>8. Bounds(t)'
  BY <1>1, <1>2, <1>3, <1>4, <1>7 DEF Bounds, InPass, NowAndThen
<1>9. ~tangled => PassOK(t)'
  <2> SUFFICES ASSUME ~tangled PROVE PassOK(t)'
    OBVIOUS
  <2>1. PassOK(t)
    BY <1>1
  <2>2. thr[t].inc = -1 => p.i < total
    BY <1>1, <1>2, <1>3, <1>4, <2>1 DEF PassOK
  <2> QED
    BY <1>1, <1>2, <1>3, <1>4, <1>7, <2>1, <2>2 DEF PassOK, InPass, NowAndThen
<1>10. p.at # "born" /\ (closing = "no" => Alive(t)' /\ flags'.running)
  BY <1>1, <1>4, <1>7 DEF Alive
<1>11. last_draw' \in -1..(Longest - 1)
  BY <1>1, <1>2, <1>3
<1>12. QED
  BY <1>1, <1>5, <1>6, <1>8, <1>9, <1>10, <1>11, ThreadStepKeeps

LEMMA FinishesKeeps ==
  ASSUME IInv, NEW t \in Threads, Finishes(t) PROVE IInv'
<1> USE ThreadKnows
<1>1. over = "no" /\ thr[t].at = "loop" /\ Alive(t) /\ InPass(t) /\ UNCHANGED NowAndThen
      /\ UNCHANGED <<flags, canStart, canStep, canTurn, frozen, redraw>>
      /\ last_draw' = thr[t].end
  BY DEF Finishes, At, Alive, InPass, NowAndThen, uiVars, buttonVars, endVars
<1>2. thr[t].end \in 0..Longest /\ Longest \in Nat /\ Bounds(t)
  BY <1>1, LongestIs DEF Passing
<1>3. last_draw' \in -1..(Longest - 1)
  BY <1>1, <1>2 DEF Bounds
<1>4. PICK p \in Passing : thr' = [thr EXCEPT ![t] = p] /\ thr'[t] = p /\ p.at = "stopping"
  BY <1>1, LeavesFor DEF Finishes, Places
<1>5. Bounds(t)'
  BY <1>1, <1>2, <1>4 DEF Bounds, InPass, NowAndThen
<1>6. ~tangled => PassOK(t)'
  BY <1>1, <1>4 DEF PassOK, InPass
<1>7. p.at # "born" /\ (closing = "no" => Alive(t)' /\ flags'.running)
  BY <1>1, <1>4 DEF Alive
<1>8. QED
  BY <1>1, <1>3, <1>4, <1>5, <1>6, <1>7, ThreadStepKeeps

LEMMA ResetsKeeps ==
  ASSUME IInv, NEW t \in Threads, Resets(t) PROVE IInv'
<1> USE ThreadKnows
<1>1. over = "no" /\ thr[t].at = "stopping" /\ Alive(t) /\ UNCHANGED NowAndThen
      /\ UNCHANGED <<last_draw, frozen, redraw>>
      /\ canStart' = TRUE /\ canStep' = FALSE /\ canTurn' = TRUE
  BY DEF Resets, Reset, At, Alive, NowAndThen, dataVars, endVars
<1>2. flags' \in [Flags -> BOOLEAN] /\ flags'.running = flags.running
  BY <1>1, FlagSet DEF Resets, Reset, Flags
<1>3. PICK p \in Passing : thr' = [thr EXCEPT ![t] = p] /\ thr'[t] = p /\ p.at = "torest"
  BY <1>1, PlaceOf DEF Resets, Places
<1>4. Bounds(t)'
  BY <1>1, <1>3 DEF Bounds, InPass, NowAndThen
<1>5. ~tangled => PassOK(t)'
  BY <1>1, <1>3 DEF PassOK, InPass
<1>6. p.at # "born" /\ (closing = "no" => Alive(t)' /\ flags'.running)
  BY <1>1, <1>2, <1>3 DEF Alive
<1>7. QED
  BY <1>1, <1>2, <1>3, <1>4, <1>5, <1>6, ThreadStepKeeps

LEMMA WaitsKeeps ==
  ASSUME IInv, NEW t \in Threads, Waits(t) PROVE IInv'
<1> USE ThreadKnows
<1>1. over = "no" /\ thr[t].at \in {"towait", "torest"} /\ Alive(t) /\ UNCHANGED NowAndThen
      /\ UNCHANGED <<flags, last_draw, canStart, canStep, canTurn, frozen, redraw>>
  BY DEF Waits, At, Alive, Quiet, NowAndThen, dataVars, uiVars, buttonVars, endVars
<1>2. PICK p \in Passing :
        /\ thr' = [thr EXCEPT ![t] = p] /\ thr'[t] = p
        /\ p.i = thr[t].i /\ p.from = thr[t].from /\ p.end = thr[t].end /\ p.inc = thr[t].inc
        /\ \/ thr[t].at = "towait" /\ p.at = "paused"
           \/ thr[t].at = "torest" /\ p.at = "rest"
  <2>1. CASE At(t, "towait") /\ Goes(t, "paused")
    BY <1>1, <2>1, PlaceOf DEF At, Places
  <2>2. CASE At(t, "torest") /\ Goes(t, "rest")
    BY <1>1, <2>2, PlaceOf DEF At, Places
  <2> QED
    BY <2>1, <2>2 DEF Waits
<1>3. Bounds(t)'
  BY <1>1, <1>2 DEF Bounds, InPass, NowAndThen
<1>4. ~tangled => PassOK(t)'
  BY <1>1, <1>2 DEF PassOK, InPass, NowAndThen
<1>5. p.at # "born" /\ (closing = "no" => Alive(t)' /\ flags'.running)
  BY <1>1, <1>2 DEF Alive
<1>6. QED
  BY <1>1, <1>2, <1>3, <1>4, <1>5, ThreadStepKeeps

\* The process crashes only after a file was read over a living thread.
LEMMA CrashKeeps ==
  ASSUME IInv, tangled, Crash PROVE IInv'
<1>1. ReplayTypeOK'
  BY TypeIs DEF IInv, Crash, ReplayTypeOK, Flags, Passing, Places, Longest, dataVars, uiVars,
                buttonVars
<1>2. ASSUME NEW t \in Threads PROVE Bounds(t)'
  BY DEF IInv, Bounds, InPass, Crash, dataVars, uiVars
<1>3. Regular'
  BY DEF Regular, Crash
<1>4. Owing'
  BY DEF Owing, Crash
<1>5. QED
  BY <1>1, <1>2, <1>3, <1>4 DEF IInv

LEMMA SetupAssertsKeeps ==
  ASSUME IInv, NEW t \in Threads, SetupAsserts(t) PROVE IInv'
<1>1. over = "no" /\ Alive(t) /\ records = NoRecords /\ Crash
  BY DEF SetupAsserts, At, Alive
<1>2. tangled \in BOOLEAN
  BY TypeIs DEF IInv
<1>3. tangled
  BY <1>1, <1>2, ThreadKnows, LongestIs DEF Loaded, NoRecords
<1>4. QED
  BY <1>1, <1>3, CrashKeeps

LEMMA StraysKeeps ==
  ASSUME IInv, NEW t \in Threads, Strays(t) PROVE IInv'
<1> USE ThreadKnows
<1>1. over = "no" /\ Alive(t) /\ InPass(t) /\ Crash
      /\ thr[t].at \in {"loop", "label", "draw"} /\ (thr[t].at = "loop" => InRange(t))
  BY DEF Strays, Walks, At, Alive, InPass
<1>2. thr[t].inc \in {1, -1} /\ thr[t].end \in 0..Longest /\ thr[t].i \in -1..Longest
      /\ Longest \in Nat /\ Bounds(t)
  BY <1>1, LongestIs DEF Passing
<1>3. tangled
  <2> SUFFICES ASSUME ~tangled PROVE FALSE
    OBVIOUS
  <2>1. records = total /\ total \in Nat /\ total # 0 /\ PassOK(t)
    BY <1>1, LongestIs DEF Loaded
  <2>2. thr[t].inc = 1 => thr[t].end = total - 1
    BY <1>1, <2>1 DEF PassOK
  <2>3. thr[t].inc = -1 => thr[t].end = 0 /\ thr[t].i < total
    BY <1>1, <1>2, <2>1 DEF PassOK, Bounds
  <2>4. Inside(thr[t].end)
    BY <1>2, <2>1, <2>2, <2>3 DEF Inside
  <2>5. Inside(thr[t].i)
    <3>1. thr[t].inc = 1 => 0 <= thr[t].i /\ thr[t].i <= thr[t].end
      BY <1>1, <1>2 DEF InRange, Bounds
    <3>2. thr[t].inc = -1 => 0 <= thr[t].i
      BY <1>1, <1>2, <2>3 DEF InRange, Bounds
    <3> QED
      BY <1>2, <2>1, <2>2, <2>3, <3>1, <3>2 DEF Inside
  <2>6. Drawable(t)
    BY <1>1, <1>2 DEF Drawable, Bounds
  <2> QED
    BY <2>4, <2>5, <2>6 DEF Strays
<1>4. QED
  BY <1>1, <1>3, CrashKeeps

LEMMA ThreadStepsKeep ==
  ASSUME IInv, NEW t \in Threads, ThreadStep(t) PROVE IInv'
BY BornKeeps, HeadKeeps, SetupKeeps, SetupAssertsKeeps, LoopEndsKeeps, LoopSuspendsKeeps,
   ResumesKeeps, AdvancesKeeps, DrawsKeeps, StraysKeeps, FinishesKeeps, ResetsKeeps, WaitsKeeps
   DEF ThreadStep

-----------------------------------------------------------------------------
(* The callbacks *)

\* As long as the process runs with its UI lock free and no file was read over a thread, the tid
\* names the living thread, if there is one; without a thread, nothing is owed.
LEMMA UiKnows ==
  ASSUME IInv, UiFree
  PROVE  /\ over = "no" /\ closing = "no"
         /\ flags \in [Flags -> BOOLEAN] /\ thr \in [Threads -> Passing]
         /\ tid \in Threads \cup {NoThread} /\ tangled \in BOOLEAN
         /\ ~tangled => Sound
         /\ ~tangled /\ tid = NoThread => \A t \in Threads : ~Alive(t)
         /\ ~tangled /\ (\A t \in Threads : ~Alive(t)) => tid = NoThread
         /\ Owing
         /\ tid = NoThread /\ (\A t \in Threads : ~Alive(t)) => ~frozen /\ ~redraw
<1>1. over = "no" /\ closing = "no"
  BY DEF UiFree
<1>2. flags \in [Flags -> BOOLEAN] /\ thr \in [Threads -> Passing]
      /\ tid \in Threads \cup {NoThread} /\ tangled \in BOOLEAN
  BY TypeIs DEF IInv
<1>3. ~tangled => Sound
  BY <1>1 DEF IInv, Regular
<1>4. NoThread \notin Threads
  BY ReplayAssumption DEF NoThread
<1>5. ~tangled /\ tid = NoThread => \A t \in Threads : ~Alive(t)
  BY <1>3, <1>4 DEF Sound
<1>6. ~tangled /\ (\A t \in Threads : ~Alive(t)) => tid = NoThread
  BY <1>1, <1>2, <1>3 DEF Sound
<1>7. Owing /\ (tid = NoThread /\ (\A t \in Threads : ~Alive(t)) => ~frozen /\ ~redraw)
  BY <1>1 DEF IInv, Owing
<1>8. QED
  BY <1>1, <1>2, <1>3, <1>5, <1>6, <1>7

\* The counter of a bounded choice
LEMMA OneMore ==
  ASSUME NEW m \in Nat, NEW n \in 0..m, n < m
  PROVE  n + 1 \in 0..m /\ n + 1 # 0
OBVIOUS

LEMMA OpenedKeeps ==
  ASSUME IInv, OpenReadable \/ OpenEmpty \/ OpenMalformed
  PROVE  IInv'
<1> USE ReplayAssumption, UiKnows
<1>1. /\ UiFree /\ ~tangled /\ opens < MaxOpens /\ shown' /\ opens' = opens + 1
      /\ tangled' = \E t \in Threads : Alive(t)
      /\ UNCHANGED <<forward, frozen, redraw, thr, closing, over, leaves, clicks>>
  BY DEF OpenReadable, OpenEmpty, OpenMalformed, Opened
<1>2. /\ records' \in Lengths \cup {NoRecords, 0} /\ total' \in Lengths \cup {0}
      /\ last_draw' \in -1..(Longest - 1) /\ tid' \in {tid, NoThread}
      /\ canStart' \in BOOLEAN /\ canStep' = FALSE /\ canTurn' \in BOOLEAN
      /\ canStart' => records' = total' /\ total' \in Lengths
      /\ flags' \in [Flags -> BOOLEAN] /\ flags'.running = flags.running
      /\ total # 0 => total' # 0
  <2>1. /\ records \in Lengths \cup {NoRecords, 0} /\ total \in Lengths \cup {0}
        /\ last_draw \in -1..(Longest - 1) /\ canTurn \in BOOLEAN
        /\ flags \in [Flags -> BOOLEAN]
    BY TypeIs DEF IInv
  <2>2. CASE OpenReadable
    <3>1. PICK n \in Lengths : records' = n /\ total' = n
      BY <2>2 DEF OpenReadable
    <3>2. /\ flags' \in [Flags -> BOOLEAN] /\ flags'.running = flags.running
          /\ canStart' = TRUE /\ canStep' = FALSE /\ canTurn' = TRUE
      BY <2>1, <2>2, FlagSet DEF OpenReadable, Reset, Flags
    <3> QED
      BY <2>1, <2>2, <3>1, <3>2, LongestIs DEF OpenReadable
  <2>3. CASE OpenEmpty
    BY <2>1, <2>3 DEF OpenEmpty, Unstartable
  <2>4. CASE OpenMalformed
    <3>1. Forgotten /\ Unstartable
      BY <2>4 DEF OpenMalformed
    <3>2. last_draw' \in -1..(Longest - 1) /\ records' = NoRecords
      BY <3>1, LongestIs DEF Forgotten
    <3> QED
      BY <2>1, <3>1, <3>2 DEF Unstartable, Forgotten
  <2> QED
    BY <2>2, <2>3, <2>4
<1>3. ReplayTypeOK'
  <2>1. opens' \in 0..MaxOpens
    BY <1>1, OneMore DEF IInv, ReplayTypeOK
  <2>2. tid' \in Threads \cup {NoThread} /\ tangled' \in BOOLEAN
    BY <1>1, <1>2
  <2> QED
    BY <1>1, <1>2, <2>1, <2>2, TypeIs
    DEF IInv, ReplayTypeOK, Flags, Passing, Places, Longest
<1>4. ASSUME NEW t \in Threads PROVE Bounds(t)'
  <2>1. Bounds(t)
    BY DEF IInv
  <2> QED
    BY <1>1, <1>2, <2>1 DEF Bounds, InPass
<1>5. Regular'
  <2> SUFFICES ASSUME ~tangled' PROVE Sound'
    BY <1>1 DEF Regular
  <2>1. \A t \in Threads : ~Alive(t) /\ ~Alive(t)'
    BY <1>1 DEF Alive
  <2>2. tid = NoThread /\ tid' = NoThread
    BY <1>1, <1>2, <2>1
  <2>3. ~redraw /\ closing = "no"
    BY <1>1, <2>2 DEF Sound
  <2> QED
    BY <1>1, <1>2, <2>1, <2>2, <2>3 DEF Sound, Loaded
<1>6. Owing'
  <2>1. Owing /\ \A t \in Threads : Alive(t)' <=> Alive(t)
    BY <1>1 DEF Alive
  <2>2. tid # NoThread => tid \in Threads /\ Alive(tid)
    BY <1>1 DEF Sound
  <2>3. closing = "no" /\ over = "no"
    BY <1>1
  <2> QED
    BY <1>1, <1>2, <2>1, <2>2, <2>3 DEF Owing
<1>7. QED
  BY <1>3, <1>4, <1>5, <1>6 DEF IInv

LEMMA LeaveKeeps ==
  ASSUME IInv, Leave PROVE IInv'
<1> USE UiKnows
<1>1. /\ UiFree /\ shown' = FALSE /\ redraw' = FALSE /\ leaves' = leaves + 1 /\ ~tangled
      /\ leaves < MaxLeaves
      /\ UNCHANGED <<dataVars, forward, tid, buttonVars, frozen, flags, thr, closing, over, opens,
                     clicks, tangled>>
  BY DEF Leave, Pressable
<1>2. leaves' \in 0..MaxLeaves
  BY <1>1, ReplayAssumption, OneMore DEF IInv, ReplayTypeOK
<1>3. ReplayTypeOK'
  BY <1>1, <1>2, TypeIs DEF IInv, ReplayTypeOK, Flags, Passing, Places, Longest, dataVars,
                            buttonVars
<1>4. ASSUME NEW t \in Threads PROVE Bounds(t)'
  BY <1>1 DEF IInv, Bounds, InPass, dataVars
<1>5. Regular'
  <2>1. Sound
    BY <1>1
  <2>2. Sound'
    BY <1>1, <2>1 DEF Sound, Alive, Loaded, PassOK, InPass, dataVars, buttonVars
  <2> QED
    BY <1>1, <2>2 DEF Regular
<1>6. Owing'
  BY <1>1 DEF Owing, Alive
<1>7. QED
  BY <1>3, <1>4, <1>5, <1>6 DEF IInv

LEMMA ExposeKeeps ==
  ASSUME IInv, Expose PROVE IInv'
<1>1. UiFree /\ redraw /\ records = NoRecords /\ Crash
  BY DEF Expose
<1>2. tangled
  <2> SUFFICES ASSUME ~tangled PROVE FALSE
    BY <1>1, UiKnows
  <2>1. Sound /\ tid # NoThread /\ closing = "no" /\ tid \in Threads
    BY <1>1, UiKnows DEF Sound
  <2>2. Loaded
    BY <2>1 DEF Sound
  <2> QED
    BY <1>1, <2>2, LongestIs DEF Loaded, NoRecords
<1>3. QED
  BY <1>1, <1>2, CrashKeeps

LEMMA StartRunningKeeps ==
  ASSUME IInv, StartRunning PROVE IInv'
<1>1. UiFree /\ Flag("stop", TRUE) /\ WakeUp /\ UNCHANGED <<dataVars, uiVars, endVars>>
  BY DEF StartRunning, Pressable
<1>2. flags' \in [Flags -> BOOLEAN] /\ flags'.suspending = flags.suspending
      /\ flags'.running = flags.running
  BY <1>1, UiKnows, FlagSet DEF Flags
<1>3. clicks' \in 0..MaxClicks /\ closing' = "no" /\ closing = "no"
  BY <1>1, UiKnows DEF IInv, ReplayTypeOK, endVars
<1>4. QED
  BY <1>1, <1>2, <1>3, UiKnows, WakingKeeps DEF endVars

\* The clicks that wake the thread, whatever else they ask of it
LEMMA ClickKeeps ==
  ASSUME IInv, Nudge \/ SuspendClicked \/ ToendClicked PROVE IInv'
<1>1. UiFree /\ WakeUp /\ UNCHANGED <<dataVars, uiVars, closing, over, opens, leaves, tangled>>
      /\ clicks < MaxClicks /\ clicks' = clicks + 1
  BY DEF Nudge, SuspendClicked, ToendClicked, Click, Pressable, uiVars
<1>2. flags \in [Flags -> BOOLEAN]
  BY <1>1, UiKnows
<1>3. flags' \in [Flags -> BOOLEAN] /\ flags'.suspending = flags.suspending
      /\ flags'.running = flags.running
  <2>1. CASE Nudge
    BY <1>2, <2>1 DEF Nudge
  <2>2. CASE SuspendClicked
    BY <1>2, <2>2, FlagSet DEF SuspendClicked, Flags
  <2>3. CASE ToendClicked
    BY <1>2, <2>3, FlagSet DEF ToendClicked, Flags
  <2> QED
    BY <2>1, <2>2, <2>3
<1>4. clicks' \in 0..MaxClicks
  BY <1>1, ReplayAssumption, OneMore DEF IInv, ReplayTypeOK
<1>5. QED
  BY <1>1, <1>3, <1>4, UiKnows, WakingKeeps

LEMMA CancelBeginsKeeps ==
  ASSUME IInv, NEW who \in {"close", "exit"}, CancelBegins(who) PROVE IInv'
<1>1. UiFree /\ tid # NoThread /\ Flag("running", FALSE) /\ WakeUp /\ closing' = who
      /\ UNCHANGED <<dataVars, uiVars, over, opens, leaves, clicks, tangled>>
  BY DEF CancelBegins, NeedsCancel
<1>2. flags' \in [Flags -> BOOLEAN] /\ flags'.suspending = flags.suspending
  BY <1>1, UiKnows, FlagSet DEF Flags
<1>3. clicks' \in 0..MaxClicks
  BY <1>1 DEF IInv, ReplayTypeOK
<1>4. QED
  BY <1>1, <1>2, <1>3, UiKnows, WakingKeeps

LEMMA DirectionToggledKeeps ==
  ASSUME IInv, DirectionToggled PROVE IInv'
<1> USE UiKnows
<1>1. /\ UiFree /\ ~tangled /\ canTurn /\ forward' = ~forward
      /\ clicks < MaxClicks /\ clicks' = clicks + 1
      /\ UNCHANGED <<dataVars, shown, tid, buttonVars, frozen, redraw, closing, over, opens, leaves,
                     tangled, flags, thr>>
  BY DEF DirectionToggled, Click, Pressable, Turnable
<1>2. Sound
  BY <1>1
<1>3. \A t \in Threads : ~InPass(t) /\ ~InPass(t)'
  <2> SUFFICES ASSUME NEW t \in Threads PROVE ~InPass(t)
    BY <1>1 DEF InPass
  <2>1. InPass(t) => Alive(t)
    BY DEF InPass, Alive
  <2> QED
    BY <1>1, <1>2, <2>1 DEF Sound, PassOK
<1>4. clicks' \in 0..MaxClicks
  BY <1>1, ReplayAssumption, OneMore DEF IInv, ReplayTypeOK
<1>5. ReplayTypeOK'
  <2>1. forward' \in BOOLEAN
    BY <1>1
  <2> QED
    BY <1>1, <1>4, <2>1, TypeIs DEF IInv, ReplayTypeOK, Flags, Passing, Places, Longest, dataVars,
                                    buttonVars
<1>6. ASSUME NEW t \in Threads PROVE Bounds(t)'
  BY <1>1, <1>3 DEF IInv, Bounds, dataVars
<1>7. Sound'
  <2>1. ASSUME NEW t \in Threads, Alive(t)' PROVE t = tid /\ Loaded /\ PassOK(t)'
    <3>1. Alive(t)
      BY <1>1, <2>1 DEF Alive
    <3> QED
      BY <1>1, <1>2, <1>3, <3>1 DEF Sound, PassOK, dataVars, buttonVars
  <2> QED
    BY <1>1, <1>2, <2>1 DEF Sound, Alive, Loaded, dataVars, buttonVars
<1>8. Regular'
  BY <1>1, <1>7 DEF Regular
<1>9. Owing'
  BY <1>1 DEF Owing, Alive, buttonVars
<1>10. QED
  BY <1>5, <1>6, <1>8, <1>9 DEF IInv

LEMMA StartNewKeeps ==
  ASSUME IInv, StartNew PROVE IInv'
<1> USE UiKnows
<1>1. /\ UiFree /\ shown /\ ~tangled /\ canStart /\ tid = NoThread /\ closing = "no"
      /\ UNCHANGED <<dataVars, shown, forward, frozen, redraw, endVars>>
  BY DEF StartNew, Pressable, Creatable
<1>2. Sound /\ Loaded /\ ~canStep /\ \A t \in Threads : ~Alive(t)
  BY <1>1 DEF Sound
<1>3. NoThread \notin Threads
  BY ReplayAssumption DEF NoThread
<1>4. CASE \E t \in Threads : /\ tid' = t
                             /\ thr' = [thr EXCEPT ![t].at = "born"]
                             /\ UNCHANGED <<flags, buttonVars>>
  <2>1. PICK t \in Threads :
          tid' = t /\ thr' = [thr EXCEPT ![t].at = "born"] /\ UNCHANGED <<flags, buttonVars>>
    BY <1>4
  <2>2. thr \in [Threads -> Passing]
    BY <1>1
  <2>3. Goes(t, "born")
    BY <2>1 DEF Goes
  <2>4. PICK p \in Passing : thr' = [thr EXCEPT ![t] = p] /\ thr'[t] = p /\ p.at = "born"
    BY <2>2, <2>3, PlaceOf DEF Places
  <2>5. thr' \in [Threads -> Passing] /\ \A s \in Threads \ {t} : thr'[s] = thr[s]
    BY <2>2, <2>4
  <2>6. ReplayTypeOK'
    BY <1>1, <2>1, <2>5, TypeIs DEF IInv, ReplayTypeOK, Flags, Passing, Places, Longest, dataVars,
                                    buttonVars, endVars
  <2>7. ASSUME NEW s \in Threads PROVE Bounds(s)'
    <3>1. CASE s = t
      BY <2>4, <3>1 DEF Bounds, InPass
    <3>2. CASE s # t
      BY <1>1, <2>5, <3>2 DEF IInv, Bounds, InPass, dataVars
    <3> QED
      BY <3>1, <3>2
  <2>8. ASSUME NEW s \in Threads, Alive(s)' PROVE s = tid' /\ Loaded' /\ PassOK(s)'
    <3>1. s = t
      BY <1>2, <2>5, <2>8 DEF Alive
    <3> QED
      BY <1>1, <1>2, <2>1, <2>4, <3>1 DEF PassOK, InPass, Loaded, dataVars, buttonVars
  <2>9. tid' # NoThread /\ Alive(tid)' /\ thr'[tid'].at = "born"
    BY <1>3, <2>1, <2>4 DEF Alive
  <2>10. Regular'
    BY <1>1, <1>2, <2>1, <2>8, <2>9 DEF Regular, Sound, Loaded, dataVars, endVars
  <2>11. Owing'
    <3>1. ASSUME NEW s \in Threads, Alive(s)' PROVE s = t
      BY <1>2, <2>5, <3>1 DEF Alive
    <3>2. tid' = t /\ thr'[t].at = "born" /\ ~frozen' /\ ~redraw' /\ closing' = "no"
      BY <1>1, <1>2, <2>1, <2>4 DEF endVars
    <3> QED
      BY <3>1, <3>2 DEF Owing
  <2> QED
    BY <2>6, <2>7, <2>10, <2>11 DEF IInv
<1>5. CASE Reset /\ UNCHANGED <<tid, thr>>
  <2>1. flags' \in [Flags -> BOOLEAN] /\ canStart' = TRUE /\ canStep' = FALSE /\ canTurn' = TRUE
    BY <1>1, <1>5, FlagSet DEF Reset, Flags
  <2>2. ReplayTypeOK'
    BY <1>1, <1>5, <2>1, TypeIs DEF IInv, ReplayTypeOK, Flags, Passing, Places, Longest, dataVars,
                                    endVars
  <2>3. ASSUME NEW s \in Threads PROVE Bounds(s)'
    BY <1>1, <1>5 DEF IInv, Bounds, InPass, dataVars
  <2>4. Regular'
    BY <1>1, <1>2, <1>5, <2>1 DEF Regular, Sound, Alive, Loaded, dataVars, endVars
  <2>5. Owing'
    BY <1>1, <1>2, <1>5 DEF Owing, Alive, endVars
  <2> QED
    BY <2>2, <2>3, <2>4, <2>5 DEF IInv
<1>6. QED
  BY <1>4, <1>5 DEF StartNew

\* The thread is killed; there is no other.
LEMMA KilledIs ==
  ASSUME IInv, over = "no", closing # "no", Killed
  PROVE  /\ thr' \in [Threads -> Passing]
         /\ \A t \in Threads : thr'[t] = thr[t] \/ thr'[t] = NoPass
         /\ \A t \in Threads : ~Alive(t)'
<1>1. thr \in [Threads -> Passing]
  BY TypeIs DEF IInv
<1>2. NoPass \in Passing
  BY LongestIs DEF NoPass, Passing, Places
<1>3. thr' = [thr EXCEPT ![tid] = NoPass]
  BY DEF Killed
<1>4. \A t \in Threads : thr'[t] = IF t = tid THEN NoPass ELSE thr[t]
  BY <1>1, <1>3
<1>5. thr' \in [Threads -> Passing]
  BY <1>1, <1>2, <1>3
<1>6. NoPass.at = "none"
  BY DEF NoPass
<1>7. ASSUME NEW t \in Threads PROVE ~Alive(t)'
  <2>1. Alive(t) => t = tid
    BY DEF IInv, Owing
  <2>2. CASE t = tid
    BY <1>4, <1>6, <2>2 DEF Alive
  <2>3. CASE t # tid
    BY <1>4, <2>1, <2>3 DEF Alive
  <2> QED
    BY <2>2, <2>3
<1>8. QED
  BY <1>4, <1>5, <1>7

\* Whatever ends the replay forgets its records.
LEMMA ForgottenIs ==
  ASSUME Forgotten
  PROVE  records' \in Lengths \cup {NoRecords, 0} /\ last_draw' \in -1..(Longest - 1)
         /\ tid' = NoThread /\ total' = total
BY LongestIs DEF Forgotten

LEMMA KilledKeepsBounds ==
  ASSUME IInv, over = "no", closing # "no", Killed, total' = total, forward' = forward,
         NEW t \in Threads
  PROVE  Bounds(t)'
<1>1. CASE thr'[t] = thr[t]
  BY <1>1 DEF IInv, Bounds, InPass
<1>2. CASE thr'[t] = NoPass
  <2>1. thr'[t].at = "none"
    BY <1>2 DEF NoPass
  <2> QED
    BY <2>1 DEF Bounds, InPass
<1>3. QED
  BY <1>1, <1>2, KilledIs

LEMMA CloseEndsKeeps ==
  ASSUME IInv, CloseEnds PROVE IInv'
<1>1. /\ over = "no" /\ closing # "no" /\ Killed /\ Forgotten
      /\ redraw' = FALSE /\ frozen' = FALSE /\ shown' = FALSE /\ closing' = "no"
      /\ UNCHANGED <<forward, flags, buttonVars, over, opens, leaves, clicks, tangled>>
  BY DEF CloseEnds, GiveBack
<1>2. ReplayTypeOK'
  BY <1>1, KilledIs, ForgottenIs, TypeIs DEF IInv, ReplayTypeOK, Flags, Passing, Places, Longest,
                                             buttonVars
<1>3. ASSUME NEW t \in Threads PROVE Bounds(t)'
  BY <1>1, ForgottenIs, KilledKeepsBounds
<1>4. Regular'
  BY <1>1, ForgottenIs, KilledIs DEF Regular, Sound
<1>5. Owing'
  BY <1>1, KilledIs DEF Owing
<1>6. QED
  BY <1>2, <1>3, <1>4, <1>5 DEF IInv

LEMMA ExitEndsKeeps ==
  ASSUME IInv, ExitEnds PROVE IInv'
<1>1. /\ over = "no" /\ closing # "no" /\ Killed /\ Forgotten
      /\ closing' = "no" /\ over' = "exit"
      /\ UNCHANGED <<shown, forward, flags, buttonVars, frozen, redraw, opens, leaves, clicks,
                     tangled>>
  BY DEF ExitEnds
<1>2. ReplayTypeOK'
  BY <1>1, KilledIs, ForgottenIs, TypeIs DEF IInv, ReplayTypeOK, Flags, Passing, Places, Longest,
                                             buttonVars
<1>3. ASSUME NEW t \in Threads PROVE Bounds(t)'
  BY <1>1, ForgottenIs, KilledKeepsBounds
<1>4. Regular'
  BY <1>1, KilledIs DEF Regular
<1>5. Owing'
  BY <1>1 DEF Owing
<1>6. QED
  BY <1>2, <1>3, <1>4, <1>5 DEF IInv

LEMMA CloseIdleKeeps ==
  ASSUME IInv, CloseIdle PROVE IInv'
<1> USE UiKnows
<1>1. /\ UiFree /\ shown /\ tid = NoThread /\ Forgotten /\ shown' = FALSE
      /\ UNCHANGED <<forward, flags, buttonVars, frozen, redraw, thr, endVars>>
  BY DEF CloseIdle, NeedsCancel
<1>2. ReplayTypeOK'
  BY <1>1, ForgottenIs, TypeIs DEF IInv, ReplayTypeOK, Flags, Passing, Places, Longest,
                                   buttonVars, endVars
<1>3. ASSUME NEW t \in Threads PROVE Bounds(t)'
  BY <1>1, ForgottenIs DEF IInv, Bounds, InPass
<1>4. Regular'
  <2> SUFFICES ASSUME ~tangled PROVE Sound'
    BY <1>1 DEF Regular, endVars
  <2>1. Sound /\ ~redraw /\ \A t \in Threads : ~Alive(t) /\ ~Alive(t)'
    BY <1>1 DEF Sound, Alive
  <2> QED
    BY <1>1, <2>1, ForgottenIs DEF Sound, endVars
<1>5. Owing'
  BY <1>1, ForgottenIs DEF Owing, Alive, endVars
<1>6. QED
  BY <1>2, <1>3, <1>4, <1>5 DEF IInv

LEMMA UiStepsKeep ==
  ASSUME IInv, UiStep PROVE IInv'
<1>1. CASE OpenReadable \/ OpenEmpty \/ OpenMalformed
  BY <1>1, OpenedKeeps
<1>2. CASE Nudge \/ SuspendClicked \/ ToendClicked
  BY <1>2, ClickKeeps
<1>3. CASE CancelBegins("close") \/ CancelBegins("exit")
  BY <1>3, CancelBeginsKeeps
<1>4. CASE Leave \/ Expose \/ StartRunning \/ StartNew \/ DirectionToggled
           \/ CloseEnds \/ CloseIdle \/ ExitEnds
  BY <1>4, LeaveKeeps, ExposeKeeps, StartRunningKeeps, StartNewKeeps, DirectionToggledKeeps,
     CloseEndsKeeps, CloseIdleKeeps, ExitEndsKeeps
<1>5. QED
  BY <1>1, <1>2, <1>3, <1>4 DEF UiStep

-----------------------------------------------------------------------------
(* The invariant and what it says *)

LEMMA InitHolds == Init => IInv
<1> SUFFICES ASSUME Init PROVE IInv
  OBVIOUS
<1> USE DEF Init
<1>1. \A t \in Threads : thr[t] = NoPass /\ thr[t].at = "none"
  BY DEF NoPass
<1>2. ReplayTypeOK
  <2>1. NoPass \in Passing
    BY LongestIs DEF NoPass, Passing, Places
  <2>2. thr \in [Threads -> Passing]
    BY <2>1
  <2>3. flags \in [Flags -> BOOLEAN]
    <3>1. DOMAIN flags = Flags /\ \A f \in Flags : flags[f] = FALSE
      BY DEF Flags
    <3>2. flags = [f \in DOMAIN flags |-> flags[f]]
      OBVIOUS
    <3> QED
      BY <3>1, <3>2
  <2>4. opens \in 0..MaxOpens /\ leaves \in 0..MaxLeaves /\ clicks \in 0..MaxClicks
    BY ReplayAssumption
  <2>5. last_draw \in -1..(Longest - 1)
    BY LongestIs
  <2> QED
    BY <2>2, <2>3, <2>4, <2>5, TypeIs
<1>3. \A t \in Threads : Bounds(t) /\ ~Alive(t)
  BY <1>1 DEF Bounds, InPass, Alive
<1>4. Regular
  BY <1>3 DEF Regular, Sound
<1>5. Owing
  BY <1>3 DEF Owing
<1>6. QED
  BY <1>2, <1>3, <1>4, <1>5 DEF IInv

LEMMA StutterKeeps ==
  ASSUME IInv, UNCHANGED vars PROVE IInv'
<1> USE DEF vars, dataVars, uiVars, buttonVars, endVars
<1>1. ReplayTypeOK'
  BY DEF IInv, ReplayTypeOK
<1>2. (\A t \in Threads : Bounds(t))'
  BY DEF IInv, Bounds, InPass
<1>3. Regular'
  BY DEF IInv, Regular, Sound, Alive, Loaded, PassOK, InPass
<1>4. Owing'
  BY DEF IInv, Owing, Alive
<1>5. QED
  BY <1>1, <1>2, <1>3, <1>4 DEF IInv

\* What the properties below rest on: it holds at first, and every step of the thread and of the
\* callbacks keeps it.
THEOREM ReplayInvariant == Spec => []IInv
<1>1. IInv /\ [Next]_vars => IInv'
  BY ThreadStepsKeep, UiStepsKeep, StutterKeeps DEF Next
<1>2. QED
  BY InitHolds, <1>1, PTL DEF Spec

\* The variables of the replay keep their types, and the indices of its threads stay within the
\* longest file and one step beyond, for any set of threads, any readable files and any bounds.
THEOREM ReplayTypeCorrect == Spec => []ReplayTypeOK
<1>1. IInv => ReplayTypeOK
  BY DEF IInv
<1>2. QED
  BY ReplayInvariant, <1>1, PTL

\* At most one thread replays, the one that replay_thread_tid names, unless a file was read over
\* a living one.
THEOREM OneReplayerCorrect == Spec => []OneReplayer
<1>1. IInv => OneReplayer
  BY DEF IInv, Regular, Sound, OneReplayer
<1>2. QED
  BY ReplayInvariant, <1>1, PTL

\* No thread reads beyond replay_records, and neither a thread nor the redraw meets the NULL that
\* replay_free_data leaves, unless a file was read over a living thread.
THEOREM RecordsOutliveCorrect == Spec => []RecordsOutlive
<1>1. IInv => RecordsOutlive
  BY TypeIs DEF IInv, Regular, RecordsOutlive
<1>2. QED
  BY ReplayInvariant, <1>1, PTL

\* The records a pass draws are a gapless stretch from its first one, in the direction it started
\* with, however suspend, to-end and the speed interfere.
THEOREM PassInOrderCorrect == Spec => []PassInOrder
<1>1. IInv => PassInOrder
  <2> SUFFICES ASSUME IInv, NEW t \in Threads, InPass(t), ~tangled
               PROVE  /\ (thr[t].inc = 1) = forward
                      /\ last_draw # -1 => thr[t].from = last_draw + thr[t].inc
                      /\ last_draw = -1 => thr[t].from = (IF forward THEN 0 ELSE total - 1)
    BY DEF PassInOrder
  <2>1. Alive(t)
    BY DEF InPass, Alive
  <2>2. PassOK(t) /\ Bounds(t) /\ forward \in BOOLEAN
    BY <2>1, TypeIs DEF IInv, Regular, Sound
  <2>3. (thr[t].inc = 1) = forward
    BY <2>2 DEF Bounds
  <2> QED
    BY <2>2, <2>3 DEF PassOK
<1>2. QED
  BY ReplayInvariant, <1>1, PTL

\* The button that can be clicked says "resume" only while the thread pauses, or is on its way into
\* the pause or out of it.
THEOREM ResumeIsRealCorrect == Spec => []ResumeIsReal
<1>1. IInv => ResumeIsReal
  <2> SUFFICES ASSUME IInv, flags.suspending, canStep, ~tangled, closing = "no", over = "no", shown
               PROVE  \E t \in Threads : thr[t].at \in {"towait", "paused", "woken"}
    BY DEF ResumeIsReal
  <2>1. Sound /\ tid \in Threads /\ thr[tid].at \in Places
    <3>1. Sound /\ tid \in Threads
      BY TypeIs DEF IInv, Regular, Sound
    <3>2. thr[tid] \in Passing
      BY <3>1, TypeIs DEF IInv
    <3> QED
      BY <3>1, <3>2 DEF Passing
  <2>2. Alive(tid) /\ PassOK(tid)
    BY <2>1 DEF Sound, NoThread
  <2>3. thr[tid].at \in {"towait", "paused", "woken"}
    BY <2>1, <2>2 DEF PassOK, Alive, Places
  <2> QED
    BY <2>1, <2>3
<1>2. QED
  BY ReplayInvariant, <1>1, PTL

\* When no thread is named and none was left behind, the map is neither frozen nor drawn by the
\* replay, however often files were read, the GPS took the view over, and the replay was closed.
THEOREM ViewGivenBackCorrect == Spec => []ViewGivenBack
<1>1. IInv => ViewGivenBack
  BY ReplayAssumption DEF IInv, Owing, ViewGivenBack, Orphaned, NoThread
<1>2. QED
  BY ReplayInvariant, <1>1, PTL
==============================================================================
