------------------------- MODULE OnlMonServer_proofs -------------------------
(***************************************************************************)
(* Proofs about OnlMonServer, for any number of clients, runs, requests    *)
(* and connections: what the mutex achieves, that the clients count each   *)
(* event once, that a viewer gets a copy of these counts, and that it gets *)
(* them spill by spill as long as the server says so.                      *)
(***************************************************************************)
EXTENDS OnlMonServer, SetLemmas

(* The variables that decide whether spills are kept apart.                *)
Switches ==
  /\ cli \in Clients
  /\ sp_sel \in BOOLEAN
  /\ make_sp_hist \in [Clients -> BOOLEAN]

(* Who holds the mutex: each thread between its lock and its unlock.       *)
LockHeld ==
  /\ pc \in {"event", "disabled"} => mutex = "main"
  /\ svr = "merge" => mutex = "server"

(* A client registers its histograms one after the other.                  *)
Registering == registered \in [Clients -> {{}, {"add"}, Names}]

(* A client that has stopped keeping its spills apart has made the server  *)
(* say so, or is about to.                                                 *)
Told ==
  sp_sel => \A c \in Clients :
              make_sp_hist[c] \/ (c = cli /\ pc \in {"disabled", "endDisabled"})

IInv == Switches /\ Told /\ LockHeld /\ Registering

LEMMA NextClient ==
  ASSUME NEW c \in Clients
  PROVE  (c % NClients) + 1 \in Clients
<1>1. NClients \in Nat /\ NClients > 0 /\ c \in Nat
  BY OnlMonAssumption DEF Clients
<1>2. c % NClients \in 0..(NClients - 1)
  BY <1>1
<1>3. QED
  BY <1>1, <1>2 DEF Clients

LEMMA InitInv == Init => IInv
BY OnlMonAssumption DEF Init, MainInit, IInv, Switches, Told, LockHeld, Clients, Registering

(* The steps of the main thread.                                           *)
LEMMA MainInv ==
  ASSUME IInv, MainNext \/ GoEnd, UNCHANGED svr
  PROVE  IInv'
<1> USE DEF IInv, Switches, Told, LockHeld, Registering
<1>1. CASE InitRun
  BY <1>1 DEF InitRun
<1>2. CASE RegisterHist
  BY <1>2, NextClient DEF RegisterHist
<1>3. CASE LockForEvent
  BY <1>3 DEF LockForEvent
<1>4. CASE ProcessEvent
  <2>1. cli' \in Clients
    BY <1>4, NextClient DEF ProcessEvent
  <2>2. pc = "event" /\ pc' = "lock" /\ UNCHANGED <<make_sp_hist, sp_sel, registered, svr>>
    BY <1>4 DEF ProcessEvent, SameSpill, NewSpill
  <2>3. QED
    BY <2>1, <2>2
<1>5. CASE DisableSpillHist
  <2>1. /\ (pc = "event" /\ pc' = "disabled") \/ (pc = "end" /\ pc' = "endDisabled")
        /\ make_sp_hist' = [make_sp_hist EXCEPT ![cli] = FALSE]
        /\ UNCHANGED <<cli, mutex, registered, sp_sel>>
    BY <1>5 DEF DisableSpillHist
  <2>2. QED
    BY <2>1
<1>6. CASE SetSpillSelectability
  BY <1>6 DEF SetSpillSelectability
<1>7. CASE EndClient
  <2>1. cli' \in Clients
    BY <1>7, OnlMonAssumption DEF EndClient, Clients
  <2>2. QED
    BY <1>7, <2>1 DEF EndClient
<1>8. CASE GoEnd
  BY <1>8, OnlMonAssumption DEF GoEnd, Clients
<1>9. QED
  BY <1>1, <1>2, <1>3, <1>4, <1>5, <1>6, <1>7, <1>8 DEF MainNext

(* The steps of the server thread.                                         *)
LEMMA ServerInv ==
  ASSUME IInv, ServerThread
  PROVE  IInv'
<1> USE DEF IInv, Switches, Told, LockHeld, Registering
<1>1. CASE UNCHANGED mainVars /\ (Boot \/ Accept \/ Ping \/ Spill \/ SendRange)
  BY <1>1 DEF mainVars, Boot, Accept, Ping, Spill, SendRange, Message
<1>2. CASE UNCHANGED mainVars /\ (Subsys \/ SendHist \/ RecvNext)
  BY <1>2 DEF mainVars, Subsys, SendHist, RecvNext, Message
<1>3. CASE EndConnection /\ UNCHANGED <<pc, cli, mutex, make_sp_hist, sp_sel, registered>>
  BY <1>3 DEF EndConnection, CloseConnection
<1>4. CASE LockForSend /\ UNCHANGED <<pc, cli, make_sp_hist, sp_sel, registered>>
  BY <1>4 DEF LockForSend
<1>5. CASE Merge /\ UNCHANGED <<pc, cli, make_sp_hist, sp_sel, registered>>
  BY <1>5 DEF Merge
<1>6. QED
  BY <1>1, <1>2, <1>3, <1>4, <1>5 DEF ServerThread

(* What the viewer, another decoder and the operating system do.           *)
LEMMA OthersInv ==
  ASSUME IInv, UNCHANGED <<mainVars, svr>>
  PROVE  IInv'
BY DEF IInv, Switches, Told, LockHeld, Registering, mainVars

LEMMA NextInv == IInv /\ [Next]_vars => IInv'
<1> SUFFICES ASSUME IInv, [Next]_vars
             PROVE  IInv'
  OBVIOUS
<1>1. CASE MainThread
  BY <1>1, MainInv DEF MainThread, svrVars
<1>2. CASE EndOfData
  BY <1>2, MainInv DEF EndOfData, svrVars
<1>3. CASE ServerThread
  BY <1>3, ServerInv
<1>4. CASE \E k \in Viewers : ViewerThread(k) \/ ViewerConnects(k)
  BY <1>4, OthersInv DEF ViewerThread, ViewerConnects
<1>5. CASE AnotherDecoder
  BY <1>5, OthersInv DEF AnotherDecoder
<1>6. CASE Exit \/ Crash
  BY <1>6, OthersInv DEF Exit, Crash, Gone
<1>7. CASE UNCHANGED vars
  BY <1>7, OthersInv DEF vars, svrVars
<1>8. QED
  BY <1>1, <1>2, <1>3, <1>4, <1>5, <1>6, <1>7 DEF Next, Terminated

(* The mutex keeps the two threads apart except where the main thread does *)
(* not lock.                                                               *)
THEOREM RaceOnlyCorrect == Spec => []RaceOnlyOutsideEvents
<1>1. IInv => RaceOnlyOutsideEvents
  BY DEF IInv, LockHeld, RaceOnlyOutsideEvents, HistRace, MainThreadIn
<1>2. QED
  BY <1>1, InitInv, NextInv, PTL DEF Spec

-----------------------------------------------------------------------------
(* What the clients count.  `r` is the run and `n` the number of its       *)
(* events that a client has filled.                                        *)

SpillsOf(r, n) == {r[e] : e \in 1..n}
Second(r, n)   == n > 0 /\ r[n] # r[1]

CountsOf(r, n, s) == [e \in Events |-> IF e <= n /\ r[e] = s THEN 1 ELSE 0]
AllCounts(n) == [add |-> [e \in Events |-> IF e <= n THEN 1 ELSE 0], upd |-> n]

(* Entries `m` of the spills and live histograms `h` hold each event once, *)
(* in its own spill; the first spill has no entry before the second.       *)
Apart(r, n, m, h) ==
  IF Second(r, n)
  THEN /\ DOMAIN m = SpillsOf(r, n) /\ m[r[n]] = LIVE
       /\ \A s \in DOMAIN m \ {r[n]} : m[s] \in Counts /\ m[s].add = CountsOf(r, n, s)
       /\ h \in Counts /\ h.add = CountsOf(r, n, r[n]) /\ h.upd = n
  ELSE DOMAIN m = {} /\ h = AllCounts(n)

(* How many events each client has filled.                                 *)
Fills == [c \in Clients |-> FilledBy(c)]

(* Where the main thread is.                                               *)
Progress ==
  /\ spill_id \in SpillRuns
  /\ pc \in {"first", "initRun", "lock", "event", "disabled", "end", "endDisabled", "ended"}
  /\ evt \in 1..(Len(spill_id) + 1)
  /\ hm = [c \in Clients |-> hm[c]] /\ sp_hist = [c \in Clients |-> sp_hist[c]]
  /\ registered = [c \in Clients |-> registered[c]] /\ dump = [c \in Clients |-> dump[c]]
  /\ spill_id_pre = [c \in Clients |-> spill_id_pre[c]]
  /\ pc \in {"first", "initRun"} =>
       /\ evt = 1
       /\ \A c \in Clients : hm[c] = NULL <=> c >= cli /\ ~(c = cli /\ pc = "initRun")
       /\ \A c \in Clients : registered[c] = IF c < cli THEN Names
                                             ELSE IF c = cli THEN registered[cli] \ {"upd"} ELSE {}
  /\ pc \in {"lock", "event", "disabled"} => \A c \in Clients : hm[c] # NULL
  /\ pc \in {"event", "disabled"} \/ (pc = "lock" /\ cli # 1) => evt <= Len(spill_id)
  /\ pc \in {"end", "endDisabled", "ended"} =>
       evt = Len(spill_id) + 1 \/ hm = [c \in Clients |-> NULL]

(* What a client holds when it has filled `n` events: live histograms `h`, *)
(* entries `m` of the spills, the spill `pre` of the last event, and       *)
(* whether it keeps the spills apart.                                      *)
Holds(r, n, h, m, pre, make) ==
  /\ h = NULL => pre = -1 /\ m = NoHist
  /\ h # NULL =>
       /\ pre = IF n = 0 THEN -1 ELSE r[n]
       /\ IF make THEN Apart(r, n, m, h) ELSE DOMAIN m = {} /\ h = AllCounts(n)

(* What each client has counted, and written at the end.                   *)
Counted ==
  \A c \in Clients :
    /\ Holds(spill_id, Fills[c], hm[c], sp_hist[c], spill_id_pre[c], make_sp_hist[c])
    /\ dump[c] = IF pc = "ended" \/ (pc \in {"end", "endDisabled"} /\ c < cli)
                 THEN hm[c] ELSE NULL
    /\ dump[c] # NULL => dump[c] = AllCounts(Len(spill_id))

MInv == Progress /\ Counted

-----------------------------------------------------------------------------
(* Runs.                                                                   *)

LEMMA NextClientIs ==
  ASSUME NEW c \in Clients
  PROVE  (c % NClients) + 1 = IF c = NClients THEN 1 ELSE c + 1
<1>1. NClients \in Nat /\ NClients > 0 /\ c \in 1..NClients
  BY OnlMonAssumption DEF Clients
<1>2. c < NClients => c % NClients = c
  BY <1>1
<1>3. NClients % NClients = 0
  BY <1>1
<1>4. QED
  BY <1>1, <1>2, <1>3

(* MaxEvents, the largest length of a run, is one.                         *)
LEMMA LongestRun ==
  /\ MaxEvents \in Nat
  /\ \A r \in SpillRuns : Len(r) <= MaxEvents
<1> DEFINE Lengths == {Len(r) : r \in SpillRuns}
           G == {T \in SUBSET SpillRuns : \E b \in Nat : \A r \in T : Len(r) <= b}
<1>1. \A r \in SpillRuns : Len(r) \in Nat
  BY OnlMonAssumption
<1>2. SpillRuns \in G
  <2>1. {} \in G
    OBVIOUS
  <2>2. ASSUME NEW T \in SUBSET SpillRuns, T # {}, T \ {Pick(T)} \in G PROVE T \in G
    <3>1. PICK b \in Nat : \A r \in T \ {Pick(T)} : Len(r) <= b
      BY <2>2
    <3>2. Pick(T) \in T
      BY <2>2 DEF Pick
    <3>3. Len(Pick(T)) \in Nat
      BY <1>1, <3>2
    <3>4. PICK d \in Nat : b <= d /\ Len(Pick(T)) <= d
      BY <3>3
    <3>5. \A r \in T : Len(r) <= d
      BY <1>1, <3>1, <3>4
    <3>6. QED
      BY <3>5
  <2> HIDE DEF G
  <2>3. QED
    BY <2>1, <2>2, FiniteInduction, OnlMonAssumption
<1>3. PICK b \in Nat : \A r \in SpillRuns : Len(r) <= b
  BY <1>2
<1>4. PICK m \in Lengths : \A k \in Lengths : k <= m
  <2>1. Lengths \subseteq Nat /\ Lengths # {} /\ \A k \in Lengths : k <= b
    BY <1>1, <1>3, OnlMonAssumption
  <2> HIDE DEF Lengths
  <2>2. QED
    BY <2>1, LargestIn
<1>5. Lengths \subseteq Nat
  BY <1>1
<1>6. \E x \in Lengths : \A y \in Lengths : x >= y
  BY <1>4, <1>5
<1>7. MaxEvents \in Lengths /\ \A y \in Lengths : MaxEvents >= y
  BY <1>6 DEF MaxEvents, Max
<1>8. QED
  BY <1>1, <1>5, <1>7

LEMMA RunData ==
  ASSUME NEW r \in SpillRuns
  PROVE  /\ Len(r) \in Nat /\ DOMAIN r = 1..Len(r) /\ 1..Len(r) \subseteq Events
         /\ \A e \in 1..Len(r) : r[e] \in Nat /\ r[e] \in Spills /\ e <= MaxEvents
         /\ \A i, j \in 1..Len(r) : i <= j => r[i] <= r[j]
<1>1. r \in Seq(Nat) /\ \A i, j \in DOMAIN r : i < j => r[i] <= r[j]
  BY OnlMonAssumption
<1>2. Len(r) \in Nat /\ DOMAIN r = 1..Len(r) /\ \A e \in 1..Len(r) : r[e] \in Nat
  BY <1>1
<1>3. MaxEvents \in Nat /\ Len(r) <= MaxEvents
  BY LongestRun
<1>4. \A e \in 1..Len(r) : r[e] \in Spills
  BY <1>2 DEF Spills
<1>5. \A i, j \in 1..Len(r) : i <= j => r[i] <= r[j]
  BY <1>1, <1>2
<1>6. QED
  BY <1>2, <1>3, <1>4, <1>5 DEF Events

LEMMA SpillsSoFar ==
  ASSUME NEW r \in SpillRuns, NEW n \in 1..Len(r)
  PROVE  /\ SpillsOf(r, n) \subseteq Nat /\ IsFiniteSet(SpillsOf(r, n))
         /\ SpillsOf(r, n) \subseteq Spills
         /\ r[n] \in SpillsOf(r, n) /\ Max(SpillsOf(r, n)) = r[n]
<1>1. \A e \in 1..n : e \in 1..Len(r) /\ r[e] \in Nat /\ r[e] \in Spills /\ r[e] <= r[n]
  BY RunData
<1>2. SpillsOf(r, n) \subseteq 0..r[n] /\ r[n] \in Nat /\ r[n] \in SpillsOf(r, n)
  BY <1>1, RunData DEF SpillsOf
<1>3. IsFiniteSet(0..r[n])
  <2>1. \A k \in Nat : IsFiniteSet(0..k)
    BY FS_Interval
  <2>2. QED
    BY <1>2, <2>1
<1>4. IsFiniteSet(SpillsOf(r, n))
  BY <1>2, <1>3, FS_Subset
<1>5. SpillsOf(r, n) \subseteq Spills
  BY <1>1 DEF SpillsOf
<1>6. Max(SpillsOf(r, n)) = r[n]
  <2> DEFINE m == Max(SpillsOf(r, n))
  <2>1. m \in SpillsOf(r, n) /\ \A y \in SpillsOf(r, n) : m >= y
    BY <1>2 DEF Max
  <2> HIDE DEF m
  <2>2. m >= r[n] /\ m <= r[n]
    BY <1>2, <2>1
  <2>3. QED
    BY <1>2, <2>1, <2>2 DEF m
<1>7. QED
  BY <1>2, <1>4, <1>5, <1>6

-----------------------------------------------------------------------------
(* Histograms that are merged.                                             *)

(* Entries of all spills so far.                                           *)
Complete(r, n, m, h) ==
  /\ DOMAIN m = SpillsOf(r, n)
  /\ \A s \in DOMAIN m : Deref(m, s, h).add = CountsOf(r, n, s)

LEMMA MergedCounts ==
  ASSUME NEW r \in SpillRuns, NEW n \in 1..Len(r), NEW m, NEW h, Complete(r, n, m, h),
         NEW lo, NEW hi
  PROVE  MergedHist(m, h, lo, hi) =
           [add |-> [e \in Events |-> IF e <= n /\ InRange(r[e], lo, hi) THEN 1 ELSE 0],
            upd |-> IF InRange(r[n], lo, hi) THEN Deref(m, r[n], h).upd ELSE 0]
<1> DEFINE sel == {s \in DOMAIN m : InRange(s, lo, hi)}
<1>1. DOMAIN m = SpillsOf(r, n) /\ Max(DOMAIN m) = r[n] /\ r[n] \in DOMAIN m
  BY SpillsSoFar DEF Complete
<1>2. IsFiniteSet(sel)
  <2>1. IsFiniteSet(DOMAIN m) /\ sel \subseteq DOMAIN m
    BY <1>1, SpillsSoFar
  <2>2. QED
    BY <2>1, FS_Subset
<1>3. ASSUME NEW e \in Events
      PROVE  SumFunctionOnSet([s \in sel |-> Deref(m, s, h).add[e]], sel)
               = IF e <= n /\ InRange(r[e], lo, hi) THEN 1 ELSE 0
  <2> DEFINE w == [s \in sel |-> Deref(m, s, h).add[e]]
  <2>1. \A s \in sel : w[s] = IF e <= n /\ r[e] = s THEN 1 ELSE 0
    BY DEF Complete, CountsOf
  <2>2. \A s \in sel : w[s] \in Nat
    BY <2>1
  <2>3. e <= n => r[e] \in DOMAIN m
    BY <1>1, LongestRun DEF SpillsOf, Events
  <2> HIDE DEF w
  <2>4. CASE e <= n /\ InRange(r[e], lo, hi)
    <3>1. r[e] \in sel /\ w[r[e]] = 1
      BY <2>1, <2>3, <2>4
    <3> DEFINE rest == sel \ {r[e]}
    <3>2. \A s \in rest : w[s] = 0
      BY <2>1
    <3>3. IsFiniteSet(rest)
      BY <1>2, FS_Subset
    <3> HIDE DEF sel
    <3>4. \A s \in rest : w[s] \in Nat
      BY <3>2
    <3>5. SumFunctionOnSet(w, rest) = 0
      <4> HIDE DEF rest
      <4>1. QED
        BY <3>2, <3>3, <3>4, SumOfNats
    <3>6. SumFunctionOnSet(w, sel) = w[r[e]] + SumFunctionOnSet(w, sel \ {r[e]})
      <4>1. \A s \in sel : w[s] \in Int
        BY <2>2
      <4>2. QED
        BY <1>2, <3>1, <4>1, SumTake
    <3>7. SumFunctionOnSet(w, sel) = 1
      BY <3>1, <3>5, <3>6
    <3>8. QED
      BY <2>4, <3>7 DEF w
  <2>5. CASE ~(e <= n /\ InRange(r[e], lo, hi))
    <3>1. \A s \in sel : w[s] = 0
      BY <2>1, <2>5
    <3> HIDE DEF sel
    <3>2. SumFunctionOnSet(w, sel) = 0
      BY <1>2, <2>2, <3>1, SumOfNats
    <3>3. QED
      BY <2>5, <3>2 DEF w
  <2>6. QED
    BY <2>4, <2>5
<1>4. (sel # {} /\ Max(DOMAIN m) \in sel) <=> InRange(r[n], lo, hi)
  BY <1>1
<1>5. MergedHist(m, h, lo, hi) =
        [add |-> [e \in Events |-> SumFunctionOnSet([s \in sel |-> Deref(m, s, h).add[e]], sel)],
         upd |-> IF sel # {} /\ Max(DOMAIN m) \in sel THEN Deref(m, Max(DOMAIN m), h).upd ELSE 0]
  BY DEF MergedHist
<1> HIDE DEF sel
<1>6. [e \in Events |-> SumFunctionOnSet([s \in sel |-> Deref(m, s, h).add[e]], sel)]
        = [e \in Events |-> IF e <= n /\ InRange(r[e], lo, hi) THEN 1 ELSE 0]
  BY <1>3
<1>7. QED
  BY <1>1, <1>4, <1>5, <1>6

LEMMA MergedNone ==
  ASSUME NEW m, NEW h, DOMAIN m = {}, NEW lo, NEW hi
  PROVE  MergedHist(m, h, lo, hi) = Empty
<1> DEFINE sel == {s \in DOMAIN m : InRange(s, lo, hi)}
<1>1. sel = {}
  OBVIOUS
<1>2. MergedHist(m, h, lo, hi) =
        [add |-> [e \in Events |-> SumFunctionOnSet([s \in sel |-> Deref(m, s, h).add[e]], sel)],
         upd |-> IF sel # {} /\ Max(DOMAIN m) \in sel THEN Deref(m, Max(DOMAIN m), h).upd ELSE 0]
  BY DEF MergedHist
<1> HIDE DEF sel
<1>3. \A e \in Events : SumFunctionOnSet([s \in sel |-> Deref(m, s, h).add[e]], sel) = 0
  BY <1>1, SumNone
<1>4. [e \in Events |-> SumFunctionOnSet([s \in sel |-> Deref(m, s, h).add[e]], sel)]
        = [e \in Events |-> 0]
  BY <1>3
<1>5. QED
  BY <1>1, <1>2, <1>4 DEF Empty

-----------------------------------------------------------------------------
(* One event more.                                                         *)

LEMMA NotCounts == NULL \notin Counts /\ LIVE \notin Counts
BY OnlMonAssumption

LEMMA CountsAre ==
  /\ AllCounts(0) = Empty /\ Empty \in Counts
  /\ \A n \in 0..MaxEvents : AllCounts(n) \in Counts
  /\ \A r, n, s : CountsOf(r, n, s) \in [Events -> Nat]
<1>1. AllCounts(0) = Empty
  <2>1. \A e \in Events : ~(e <= 0)
    BY LongestRun DEF Events
  <2>2. QED
    BY <2>1 DEF AllCounts, Empty
<1>2. \A n \in 0..MaxEvents : AllCounts(n) \in Counts
  BY DEF AllCounts, Counts
<1>3. \A r, n, s : CountsOf(r, n, s) \in [Events -> Nat]
  BY DEF CountsOf
<1>4. 0 \in 0..MaxEvents
  BY LongestRun
<1>5. QED
  BY <1>1, <1>2, <1>3, <1>4

LEMMA FilledCounts ==
  ASSUME NEW h \in Counts, NEW e \in Events
  PROVE  /\ Filled(h, e) \in Counts
         /\ Filled(h, e).upd = e
         /\ Filled(h, e).add = [h.add EXCEPT ![e] = @ + 1]
BY LongestRun DEF Filled, Counts, Events

LEMMA FilledAll ==
  ASSUME NEW n \in Nat, n + 1 \in Events
  PROVE  Filled(AllCounts(n), n + 1) = AllCounts(n + 1)
<1>1. \A e \in Events : e <= n + 1 <=> e <= n \/ e = n + 1
  BY LongestRun DEF Events
<1>2. \A e \in Events : [AllCounts(n).add EXCEPT ![n + 1] = @ + 1][e]
                          = IF e <= n + 1 THEN 1 ELSE 0
  BY <1>1 DEF AllCounts
<1>3. [AllCounts(n).add EXCEPT ![n + 1] = @ + 1] = [e \in Events |-> IF e <= n + 1 THEN 1 ELSE 0]
  BY <1>2 DEF AllCounts
<1>4. QED
  BY <1>3 DEF Filled, AllCounts

LEMMA OneSpillMore ==
  ASSUME NEW r \in SpillRuns, NEW n \in 1..Len(r), n + 1 <= Len(r)
  PROVE  /\ SpillsOf(r, n + 1) = SpillsOf(r, n) \cup {r[n + 1]}
         /\ \A s : s # r[n + 1] => CountsOf(r, n + 1, s) = CountsOf(r, n, s)
<1>1. \A e : e \in 1..(n + 1) <=> e \in 1..n \/ e = n + 1
  BY RunData
<1>2. SpillsOf(r, n + 1) = SpillsOf(r, n) \cup {r[n + 1]}
  BY <1>1 DEF SpillsOf
<1>3. n + 1 \in Events /\ n \in Nat
  BY RunData
<1>4. \A e \in Events : e <= n + 1 <=> e <= n \/ e = n + 1
  BY <1>3, LongestRun DEF Events
<1>5. \A s : s # r[n + 1] => CountsOf(r, n + 1, s) = CountsOf(r, n, s)
  BY <1>4 DEF CountsOf
<1>6. QED
  BY <1>2, <1>5

LEMMA OneCountMore ==
  ASSUME NEW r \in SpillRuns, NEW n \in 1..Len(r), n + 1 <= Len(r), NEW h \in Counts,
         \A e \in Events : h.add[e] = IF e <= n /\ r[e] = r[n + 1] THEN 1 ELSE 0
  PROVE  Filled(h, n + 1).add = CountsOf(r, n + 1, r[n + 1])
<1> DEFINE g == h.add
<1>1. n + 1 \in Events /\ n \in Nat
  BY RunData
<1>2. \A e \in Events : e <= n + 1 <=> e <= n \/ e = n + 1
  BY <1>1, LongestRun DEF Events
<1>3. ~(n + 1 <= n)
  BY <1>1
<1>4. g \in [Events -> Nat]
  BY DEF Counts
<1> HIDE DEF g
<1>5. \A e \in Events : [g EXCEPT ![n + 1] = @ + 1][e]
                          = IF e <= n + 1 /\ r[e] = r[n + 1] THEN 1 ELSE 0
  BY <1>1, <1>2, <1>3, <1>4 DEF g
<1>6. [g EXCEPT ![n + 1] = @ + 1] = CountsOf(r, n + 1, r[n + 1])
  BY <1>4, <1>5 DEF CountsOf
<1>7. QED
  BY <1>1, <1>6, FilledCounts DEF g

LEMMA SameSpillApart ==
  ASSUME NEW r \in SpillRuns, NEW n \in 1..Len(r), n + 1 <= Len(r), r[n + 1] = r[n],
         NEW m, NEW h, Apart(r, n, m, h)
  PROVE  Apart(r, n + 1, m, Filled(h, n + 1))
<1>1. n \in Nat /\ n > 0 /\ n + 1 > 0 /\ n + 1 \in Events
  BY RunData
<1>2. CASE Second(r, n)
  <2>1. h \in Counts /\ h.add = CountsOf(r, n, r[n]) /\ DOMAIN m = SpillsOf(r, n)
    BY <1>2 DEF Apart
  <2>2. Filled(h, n + 1).add = CountsOf(r, n + 1, r[n + 1])
    <3>1. \A e \in Events : h.add[e] = IF e <= n /\ r[e] = r[n + 1] THEN 1 ELSE 0
      BY <2>1 DEF CountsOf
    <3>2. QED
      BY <2>1, <3>1, OneCountMore
  <2>3. SpillsOf(r, n + 1) = SpillsOf(r, n)
    <3>1. r[n + 1] \in SpillsOf(r, n)
      BY SpillsSoFar
    <3>2. SpillsOf(r, n + 1) = SpillsOf(r, n) \cup {r[n + 1]}
      BY OneSpillMore
    <3>3. QED
      BY <3>1, <3>2
  <2>4. Second(r, n + 1)
    BY <1>1, <1>2 DEF Second
  <2>5. \A s \in DOMAIN m \ {r[n + 1]} :
          m[s] \in Counts /\ m[s].add = CountsOf(r, n + 1, s)
    <3>1. \A s \in DOMAIN m \ {r[n]} : m[s] \in Counts /\ m[s].add = CountsOf(r, n, s)
      BY <1>2 DEF Apart
    <3>2. \A s : s # r[n + 1] => CountsOf(r, n + 1, s) = CountsOf(r, n, s)
      BY OneSpillMore
    <3>3. QED
      BY <3>1, <3>2
  <2>6. Filled(h, n + 1) \in Counts /\ Filled(h, n + 1).upd = n + 1
    BY <1>1, <2>1, FilledCounts
  <2>7. m[r[n + 1]] = LIVE
    BY <1>2 DEF Apart
  <2>8. QED
    BY <2>1, <2>2, <2>3, <2>4, <2>5, <2>6, <2>7 DEF Apart
<1>3. CASE ~Second(r, n)
  <2>1. ~Second(r, n + 1)
    BY <1>1, <1>3 DEF Second
  <2>2. Filled(AllCounts(n), n + 1) = AllCounts(n + 1)
    BY <1>1, FilledAll
  <2>3. QED
    BY <1>3, <2>1, <2>2 DEF Apart
<1>4. QED
  BY <1>2, <1>3

LEMMA FirstSpill ==
  ASSUME NEW r \in SpillRuns, NEW n \in 1..Len(r), ~Second(r, n)
  PROVE  AllCounts(n).add = CountsOf(r, n, r[n]) /\ SpillsOf(r, n) = {r[n]}
<1>1. r[n] = r[1] /\ n \in Nat
  BY DEF Second
<1>2. \A e \in 1..n : r[e] = r[n]
  BY <1>1, RunData
<1>3. \A e \in Events : e <= n => r[e] = r[n]
  BY <1>2, LongestRun DEF Events
<1>4. AllCounts(n).add = CountsOf(r, n, r[n])
  BY <1>3 DEF AllCounts, CountsOf
<1>5. n \in 1..n
  OBVIOUS
<1>6. QED
  BY <1>2, <1>4, <1>5 DEF SpillsOf

LEMMA NewSpillApart ==
  ASSUME NEW r \in SpillRuns, NEW n \in 1..Len(r), n + 1 <= Len(r), r[n + 1] # r[n],
         NEW m, NEW h, Apart(r, n, m, h)
  PROVE  Apart(r, n + 1, SpillHistMade(m, h, r[n], r[n + 1]), Filled(Empty, n + 1))
<1> DEFINE k == SpillHistMade(m, h, r[n], r[n + 1])
<1>1. n \in Nat /\ n > 0 /\ n + 1 > 0 /\ n + 1 \in Events /\ n <= MaxEvents
  BY RunData
<1>2. /\ r[1] <= r[n] /\ r[n] < r[n + 1] /\ r[1] \in Nat /\ r[n] \in Nat /\ r[n + 1] \in Nat
      /\ \A e \in 1..n : r[e] <= r[n] /\ r[e] \in Nat
  <2>1. 1 \in 1..Len(r) /\ n \in 1..Len(r) /\ n + 1 \in 1..Len(r) /\ n <= n + 1 /\ 1 <= n
        /\ \A e \in 1..n : e \in 1..Len(r) /\ e <= n
    BY RunData
  <2>2. r[1] \in Nat /\ r[n] \in Nat /\ r[n + 1] \in Nat /\ \A e \in 1..n : r[e] \in Nat
    BY <2>1, RunData
  <2>3. r[1] <= r[n] /\ r[n] <= r[n + 1] /\ \A e \in 1..n : r[e] <= r[n]
    BY <2>1, RunData
  <2>4. QED
    BY <2>2, <2>3
<1>3. Second(r, n + 1)
  BY <1>1, <1>2 DEF Second
<1>4. h \in Counts /\ h.add = CountsOf(r, n, r[n])
  <2>1. CASE Second(r, n)
    BY <2>1 DEF Apart
  <2>2. CASE ~Second(r, n)
    BY <1>1, <2>2, FirstSpill, CountsAre DEF Apart
  <2>3. QED
    BY <2>1, <2>2
<1>5. DOMAIN m \cup {r[n]} = SpillsOf(r, n)
  <2>1. CASE Second(r, n)
    BY <2>1, SpillsSoFar DEF Apart
  <2>2. CASE ~Second(r, n)
    BY <2>2, FirstSpill DEF Apart
  <2>3. QED
    BY <2>1, <2>2
<1>6. /\ DOMAIN k = SpillsOf(r, n) \cup {r[n + 1]} /\ k[r[n + 1]] = LIVE /\ k[r[n]] = h
      /\ \A s \in DOMAIN m : s # r[n] /\ s # r[n + 1] => k[s] = m[s]
  BY <1>2, <1>5 DEF SpillHistMade
<1>7. DOMAIN k = SpillsOf(r, n + 1)
  BY <1>6, OneSpillMore
<1>8. ASSUME NEW s \in DOMAIN k \ {r[n + 1]}
      PROVE  k[s] \in Counts /\ k[s].add = CountsOf(r, n + 1, s)
  <2>1. CountsOf(r, n + 1, s) = CountsOf(r, n, s)
    BY <1>8, OneSpillMore
  <2>2. CASE s = r[n]
    BY <1>4, <1>6, <2>1, <2>2
  <2>3. CASE s # r[n]
    <3>1. s \in DOMAIN m /\ k[s] = m[s]
      BY <1>5, <1>6, <2>3
    <3>2. Second(r, n)
      BY <3>1 DEF Apart
    <3>3. QED
      BY <2>1, <2>3, <3>1, <3>2 DEF Apart
  <2>4. QED
    BY <2>2, <2>3
<1>9. Filled(Empty, n + 1).add = CountsOf(r, n + 1, r[n + 1])
  <2>1. \A e \in Events : Empty.add[e] = IF e <= n /\ r[e] = r[n + 1] THEN 1 ELSE 0
    <3>1. \A e \in Events : e <= n => e \in 1..n
      BY <1>1, LongestRun DEF Events
    <3>2. \A e \in 1..n : r[e] # r[n + 1]
      BY <1>2
    <3>3. QED
      BY <3>1, <3>2 DEF Empty
  <2>2. QED
    BY <2>1, OneCountMore, CountsAre
<1> HIDE DEF k
<1>10. QED
  <2>1. Filled(Empty, n + 1) \in Counts /\ Filled(Empty, n + 1).upd = n + 1
    BY <1>1, FilledCounts, CountsAre
  <2>2. Apart(r, n + 1, k, Filled(Empty, n + 1))
    BY <1>3, <1>6, <1>7, <1>8, <1>9, <2>1 DEF Apart
  <2>3. QED
    BY <2>2 DEF k

LEMMA AllAreMerged ==
  ASSUME NEW r \in SpillRuns, NEW n \in 1..Len(r), NEW m, NEW h, Apart(r, n, m, h)
  PROVE  AllMerged(m, h, r[n]) = AllCounts(n)
<1> DEFINE k == SpillHistMade(m, h, r[n], 0)
<1>1. n \in Nat /\ n \in 0..MaxEvents
  BY RunData
<1>2. h \in Counts /\ h.add = CountsOf(r, n, r[n]) /\ h.upd = n
  <2>1. CASE Second(r, n)
    BY <2>1 DEF Apart
  <2>2. CASE ~Second(r, n)
    <3>1. h = AllCounts(n) /\ AllCounts(n).upd = n
      BY <2>2 DEF Apart, AllCounts
    <3>2. QED
      BY <1>1, <2>2, <3>1, FirstSpill, CountsAre
  <2>3. QED
    BY <2>1, <2>2
<1>3. DOMAIN m \cup {r[n]} = SpillsOf(r, n)
  <2>1. CASE Second(r, n)
    BY <2>1, SpillsSoFar DEF Apart
  <2>2. CASE ~Second(r, n)
    BY <2>2, FirstSpill DEF Apart
  <2>3. QED
    BY <2>1, <2>2
<1>4. k = [t \in DOMAIN m \cup {r[n]} |-> IF t = r[n] THEN h ELSE m[t]]
  BY DEF SpillHistMade
<1>5. ASSUME NEW s \in DOMAIN k
      PROVE  Deref(k, s, Empty) = k[s] /\ k[s].add = CountsOf(r, n, s)
  <2>1. CASE s = r[n]
    BY <1>2, <1>4, <2>1, NotCounts DEF Deref
  <2>2. CASE s # r[n]
    <3>1. s \in DOMAIN m /\ k[s] = m[s]
      BY <1>4, <2>2
    <3>2. m[s] \in Counts /\ m[s].add = CountsOf(r, n, s)
      BY <2>2, <3>1 DEF Apart
    <3>3. QED
      BY <3>1, <3>2, NotCounts DEF Deref
  <2>3. QED
    BY <2>1, <2>2
<1>6. k[r[n]] = h /\ r[n] \in DOMAIN k /\ DOMAIN k = SpillsOf(r, n)
  BY <1>3, <1>4
<1>7. AllMerged(m, h, r[n]) = MergedHist(k, Empty, 0, 0)
  BY DEF AllMerged
<1> HIDE DEF k
<1>8. Complete(r, n, k, Empty)
  BY <1>5, <1>6 DEF Complete
<1>9. \A s : InRange(s, 0, 0)
  BY DEF InRange
<1>10. MergedHist(k, Empty, 0, 0)
         = [add |-> [e \in Events |-> IF e <= n THEN 1 ELSE 0], upd |-> n]
  BY <1>2, <1>5, <1>6, <1>8, <1>9, MergedCounts
<1>11. QED
  BY <1>7, <1>10 DEF AllCounts

(* A client that is set up fills event n + 1.                              *)
LEMMA OneEventMore ==
  ASSUME NEW r \in SpillRuns, NEW n \in Nat, n + 1 <= Len(r),
         NEW h, NEW m, NEW pre, NEW make \in BOOLEAN,
         Holds(r, n, h, m, pre, make), h # NULL
  PROVE  /\ r[n + 1] = pre => Holds(r, n + 1, Filled(h, n + 1), m, pre, make)
         /\ r[n + 1] # pre =>
              /\ ~(pre >= 0 /\ make) => Holds(r, n + 1, Filled(h, n + 1), m, r[n + 1], make)
              /\ pre >= 0 /\ make =>
                   Holds(r, n + 1, Filled(Empty, n + 1),
                         SpillHistMade(m, h, pre, r[n + 1]), r[n + 1], TRUE)
         /\ \A g \in {h, Empty} : Filled(g, n + 1) # NULL
<1>1. /\ n + 1 \in Events /\ n + 1 \in 1..Len(r) /\ n + 1 # 0
      /\ r[n + 1] \in Nat /\ n \in 0..MaxEvents /\ n + 1 \in 0..MaxEvents
  BY RunData, LongestRun DEF Events
<1>2. pre = IF n = 0 THEN -1 ELSE r[n]
  BY DEF Holds
<1>3. n # 0 => n \in 1..Len(r) /\ r[n] \in Nat
  BY RunData
<1>4. Filled(AllCounts(n), n + 1) = AllCounts(n + 1) /\ AllCounts(n + 1) # NULL
  BY <1>1, FilledAll, CountsAre, NotCounts
<1>5. ~make => DOMAIN m = {} /\ h = AllCounts(n)
  BY DEF Holds
<1>6. make => Apart(r, n, m, h)
  BY DEF Holds
<1>7. \A g \in Counts : Filled(g, n + 1) # NULL
  BY <1>1, FilledCounts, NotCounts
<1>8. h \in Counts
  <2>1. CASE ~make \/ ~Second(r, n)
    BY <1>1, <1>5, <1>6, <2>1, CountsAre DEF Apart
  <2>2. CASE make /\ Second(r, n)
    BY <1>6, <2>2 DEF Apart
  <2>3. QED
    BY <2>1, <2>2
<1>9. \A q : DOMAIN q = {} => Holds(r, n + 1, AllCounts(n + 1), q, r[n + 1], FALSE)
  BY <1>1, <1>4 DEF Holds
<1>10. ASSUME r[n + 1] = pre PROVE Holds(r, n + 1, Filled(h, n + 1), m, pre, make)
  <2>1. n # 0 /\ r[n + 1] = r[n]
    BY <1>1, <1>2, <1>10
  <2>2. CASE make
    <3>1. Apart(r, n + 1, m, Filled(h, n + 1))
      BY <1>3, <1>6, <2>1, <2>2, SameSpillApart
    <3>2. QED
      BY <1>1, <1>7, <1>8, <1>10, <2>2, <3>1 DEF Holds
  <2>3. CASE ~make
    BY <1>4, <1>5, <1>9, <1>10, <2>3
  <2>4. QED
    BY <2>2, <2>3
<1>11. ASSUME ~(pre >= 0 /\ make)
       PROVE  Holds(r, n + 1, Filled(h, n + 1), m, r[n + 1], make)
  <2>1. CASE ~make
    BY <1>4, <1>5, <1>9, <2>1
  <2>2. CASE make
    <3>1. n = 0
      BY <1>2, <1>3, <1>11, <2>2
    <3>2. ~Second(r, n) /\ ~Second(r, n + 1)
      BY <3>1 DEF Second
    <3>3. DOMAIN m = {} /\ h = AllCounts(n)
      BY <1>6, <2>2, <3>2 DEF Apart
    <3>4. Apart(r, n + 1, m, Filled(h, n + 1))
      BY <1>4, <3>2, <3>3 DEF Apart
    <3>5. QED
      BY <1>1, <1>7, <1>8, <2>2, <3>4 DEF Holds
  <2>3. QED
    BY <2>1, <2>2
<1>12. ASSUME r[n + 1] # pre, pre >= 0, make
       PROVE  Holds(r, n + 1, Filled(Empty, n + 1), SpillHistMade(m, h, pre, r[n + 1]),
                    r[n + 1], TRUE)
  <2>1. n # 0 /\ n \in 1..Len(r) /\ pre = r[n] /\ Apart(r, n, m, h)
    BY <1>2, <1>3, <1>6, <1>12
  <2>2. Apart(r, n + 1, SpillHistMade(m, h, pre, r[n + 1]), Filled(Empty, n + 1))
    BY <1>12, <2>1, NewSpillApart
  <2>3. Filled(Empty, n + 1) # NULL
    BY <1>7, CountsAre
  <2>4. QED
    BY <1>1, <2>2, <2>3 DEF Holds
<1>13. \A g \in {h, Empty} : Filled(g, n + 1) # NULL
  BY <1>7, <1>8, CountsAre
<1>14. QED
  BY <1>10, <1>11, <1>12, <1>13

(* Is there a spill to be set apart?                                       *)
ToSetApart(pre, make) == pre >= 0 /\ make

(* A client that is set up merges its spills, or has nothing to merge.     *)
LEMMA SpillsMerged ==
  ASSUME NEW r \in SpillRuns, NEW n \in Nat, n <= Len(r),
         NEW h, NEW m, NEW pre, NEW make \in BOOLEAN,
         Holds(r, n, h, m, pre, make), h # NULL
  PROVE  /\ ~ToSetApart(pre, make) => h = AllCounts(n)
         /\ ToSetApart(pre, make) => /\ AllMerged(m, h, pre) = AllCounts(n)
                                    /\ Holds(r, n, AllMerged(m, h, pre), NoHist, pre, FALSE)
<1> USE DEF ToSetApart
<1>1. pre = (IF n = 0 THEN -1 ELSE r[n])
  BY DEF Holds
<1>2. Len(r) \in Nat /\ n \in Nat /\ (n # 0 => n \in 1..Len(r) /\ r[n] \in Nat)
  BY RunData
<1>3. ASSUME ~(pre >= 0 /\ make) PROVE h = AllCounts(n)
  <2>1. CASE ~make
    BY <2>1 DEF Holds
  <2>2. CASE make
    <3>1. n = 0
      BY <1>1, <1>2, <1>3, <2>2
    <3>2. QED
      BY <2>2, <3>1 DEF Holds, Apart, Second
  <2>3. QED
    BY <2>1, <2>2
<1>4. ASSUME pre >= 0, make
      PROVE  /\ AllMerged(m, h, pre) = AllCounts(n)
             /\ Holds(r, n, AllMerged(m, h, pre), NoHist, pre, FALSE)
  <2>1. n # 0 /\ n \in 1..Len(r) /\ pre = r[n]
    BY <1>1, <1>2, <1>4
  <2>2. Apart(r, n, m, h)
    BY <1>4 DEF Holds
  <2>3. AllMerged(m, h, pre) = AllCounts(n)
    BY <2>1, <2>2, AllAreMerged
  <2>4. AllCounts(n) # NULL
    <3>1. n \in 0..MaxEvents
      BY <1>2, RunData, LongestRun
    <3>2. QED
      BY <3>1, CountsAre, NotCounts
  <2>5. DOMAIN NoHist = {}
    BY DEF NoHist
  <2>6. QED
    BY <1>1, <2>3, <2>4, <2>5 DEF Holds
<1>5. QED
  BY <1>3, <1>4

-----------------------------------------------------------------------------
(* The counts are right after every step.                                  *)

LEMMA Numbers ==
  ASSUME Progress
  PROVE  /\ Len(spill_id) \in Nat /\ evt \in Nat /\ evt >= 1 /\ evt <= Len(spill_id) + 1
         /\ NClients \in Nat /\ NClients > 0 /\ 1 \in Clients /\ Clients \subseteq Nat
         /\ \A c \in Clients : c >= 1 /\ c <= NClients
BY RunData, OnlMonAssumption DEF Progress, Clients

\* How many events each client has filled, before and after an event.
LEMMA FillsAre ==
  ASSUME Progress, cli \in Clients
  PROVE  /\ \A c \in Clients : Fills[c] \in 0..Len(spill_id)
         /\ \A c \in Clients :
              Fills[c] = IF pc \in {"lock", "event", "disabled"} /\ c < cli THEN evt ELSE evt - 1
         /\ pc = "event" => Fills[cli] = evt - 1 /\ evt <= Len(spill_id)
         /\ pc \notin {"lock", "event", "disabled"} => Fills = [c \in Clients |-> evt - 1]
<1>1. \A c \in Clients :
        Fills[c] = IF pc \in {"lock", "event", "disabled"} /\ c < cli THEN evt ELSE evt - 1
  BY DEF Fills, FilledBy
<1>2. pc \notin {"lock", "event", "disabled"} => Fills = [c \in Clients |-> evt - 1]
  BY DEF Fills, FilledBy
<1>3. pc \in {"event", "disabled"} \/ (pc = "lock" /\ cli # 1) => evt <= Len(spill_id)
  BY DEF Progress
<1>4. \A c \in Clients : pc = "lock" /\ c < cli => cli # 1
  BY Numbers
<1>5. \A c \in Clients : Fills[c] \in 0..Len(spill_id)
  BY <1>1, <1>3, <1>4, Numbers
<1>6. QED
  BY <1>1, <1>2, <1>3, <1>5, Numbers

LEMMA MInit == Init => MInv
<1> SUFFICES ASSUME Init PROVE MInv
  OBVIOUS
<1>1. /\ spill_id \in SpillRuns /\ pc = "first" /\ evt = 1 /\ cli = 1
      /\ hm = [c \in Clients |-> NULL] /\ registered = [c \in Clients |-> {}]
      /\ sp_hist = [c \in Clients |-> NoHist] /\ spill_id_pre = [c \in Clients |-> -1]
      /\ dump = [c \in Clients |-> NULL]
  BY DEF Init, MainInit
<1>2. Len(spill_id) \in Nat /\ \A c \in Clients : c \in Nat /\ c >= 1
  BY <1>1, RunData DEF Clients
<1>3. Progress
  BY <1>1, <1>2 DEF Progress
<1>4. Counted
  BY <1>1 DEF Counted, Holds
<1>5. QED
  BY <1>3, <1>4 DEF MInv

countVars == <<spill_id, pc, evt, cli, hm, registered, sp_hist, spill_id_pre, make_sp_hist, dump>>

LEMMA MSame ==
  ASSUME MInv, UNCHANGED countVars
  PROVE  MInv'
<1>1. Progress'
  BY DEF MInv, Progress, countVars
<1>2. Fills' = Fills
  BY DEF Fills, FilledBy, countVars
<1>3. Counted'
  BY <1>2 DEF MInv, Counted, countVars
<1>4. QED
  BY <1>1, <1>3 DEF MInv

LEMMA MInitRun ==
  ASSUME MInv, cli \in Clients, make_sp_hist \in [Clients -> BOOLEAN], InitRun
  PROVE  MInv'
<1>1. /\ pc = "first" /\ pc' = "initRun" /\ hm' = [hm EXCEPT ![cli] = Empty]
      /\ UNCHANGED <<spill_id, evt, cli, registered, sp_hist, spill_id_pre, make_sp_hist, dump>>
  BY DEF InitRun
<1>2. Progress /\ Counted
  BY DEF MInv
<1>3. evt = 1 /\ \A c \in Clients : hm[c] = NULL <=> c >= cli
  BY <1>1, <1>2 DEF Progress
<1>4. Empty # NULL
  BY CountsAre, NotCounts
<1>5. hm = [c \in Clients |-> hm[c]]
  BY <1>2 DEF Progress
<1>6. hm' = [c \in Clients |-> IF c = cli THEN Empty ELSE hm[c]]
  BY <1>1, <1>5
<1>7. \A c \in Clients : hm'[c] = NULL <=> c > cli
  BY <1>2, <1>3, <1>4, <1>6, Numbers
<1>8. Progress'
  <2>1. hm' = [c \in Clients |-> hm'[c]]
    BY <1>6
  <2>2. \A c \in Clients : c >= cli /\ ~(c = cli /\ TRUE) <=> c > cli
    BY <1>2, Numbers
  <2>3. \A c \in Clients : registered[c] = IF c < cli THEN Names
                                             ELSE IF c = cli THEN registered[cli] \ {"upd"} ELSE {}
    BY <1>1, <1>2 DEF Progress
  <2>4. /\ spill_id' \in SpillRuns
        /\ evt' \in 1..(Len(spill_id') + 1)
        /\ sp_hist' = [c \in Clients |-> sp_hist'[c]]
        /\ registered' = [c \in Clients |-> registered'[c]] /\ dump' = [c \in Clients |-> dump'[c]]
        /\ spill_id_pre' = [c \in Clients |-> spill_id_pre'[c]]
    BY <1>1, <1>2 DEF Progress
  <2>5. QED
    BY <1>1, <1>3, <1>7, <2>1, <2>2, <2>3, <2>4 DEF Progress
<1>9. Fills' = Fills /\ \A c \in Clients : Fills[c] = 0
  BY <1>1, <1>3 DEF Fills, FilledBy
<1>10. Counted'
  <2> SUFFICES ASSUME NEW c \in Clients
               PROVE  /\ Holds(spill_id, Fills[c], hm'[c], sp_hist[c], spill_id_pre[c], make_sp_hist[c])
                      /\ dump[c] = NULL
    BY <1>1, <1>9 DEF Counted
  <2>1. /\ Holds(spill_id, Fills[c], hm[c], sp_hist[c], spill_id_pre[c], make_sp_hist[c])
        /\ dump[c] = NULL
    BY <1>1, <1>2 DEF Counted
  <2>2. CASE c # cli
    BY <1>6, <2>1, <2>2
  <2>3. CASE c = cli
    <3>1. hm[c] = NULL
      BY <1>2, <1>3, <2>3, Numbers
    <3>2. spill_id_pre[c] = -1 /\ sp_hist[c] = NoHist
      BY <2>1, <3>1 DEF Holds
    <3>3. Apart(spill_id, 0, NoHist, Empty)
      BY CountsAre DEF Apart, Second, NoHist
    <3>4. DOMAIN NoHist = {}
      BY DEF NoHist
    <3>5. hm'[c] = Empty /\ Fills[c] = 0
      BY <1>6, <1>9, <2>3
    <3>6. Holds(spill_id, 0, Empty, NoHist, -1, make_sp_hist[c])
      BY <1>4, <3>3, <3>4, CountsAre DEF Holds
    <3>7. QED
      BY <2>1, <3>2, <3>5, <3>6
  <2>4. QED
    BY <2>2, <2>3
<1>11. QED
  BY <1>8, <1>10 DEF MInv

LEMMA MRegisterHist ==
  ASSUME MInv, cli \in Clients, RegisterHist
  PROVE  MInv'
<1>1. /\ pc = "initRun"
      /\ UNCHANGED <<spill_id, evt, hm, sp_hist, spill_id_pre, make_sp_hist, dump>>
      /\ \/ /\ registered[cli] = {} /\ registered' = [registered EXCEPT ![cli] = {"add"}]
            /\ UNCHANGED <<pc, cli>>
         \/ /\ registered' = [registered EXCEPT ![cli] = Names]
            /\ pc' = IF cli < NClients THEN "first" ELSE "lock"
            /\ cli' = (cli % NClients) + 1
  BY DEF RegisterHist
<1>2. Progress /\ Counted
  BY DEF MInv
<1>3. evt = 1 /\ \A c \in Clients : hm[c] = NULL <=> c > cli
  <2>1. evt = 1 /\ \A c \in Clients : hm[c] = NULL <=> c >= cli /\ ~(c = cli /\ TRUE)
    BY <1>1, <1>2 DEF Progress
  <2>2. QED
    BY <1>2, <2>1, Numbers
<1>4. /\ registered = [c \in Clients |-> registered[c]]
      /\ \A c \in Clients : registered[c] = IF c < cli THEN Names
                                            ELSE IF c = cli THEN registered[cli] \ {"upd"} ELSE {}
  BY <1>1, <1>2 DEF Progress
<1>5. pc' # "initRun" => cli' = IF pc' = "first" THEN cli + 1 ELSE 1
  BY <1>1, <1>2, Numbers, NextClientIs
<1>6. pc' \in {"first", "initRun", "lock"} /\ (pc' = "lock" => ~(cli < NClients))
  BY <1>1
<1>7. Fills' = Fills
  <2>1. \A c \in Clients : pc' \in {"lock", "event", "disabled"} => ~(c < cli')
    BY <1>2, <1>5, <1>6, Numbers
  <2>2. QED
    BY <1>1, <2>1 DEF Fills, FilledBy
<1>8. registered' = [c \in Clients |-> registered'[c]]
  <2>1. \/ registered' = [registered EXCEPT ![cli] = {"add"}]
        \/ registered' = [registered EXCEPT ![cli] = Names]
    BY <1>1
  <2>2. QED
    BY <1>4, <2>1
<1>9. pc' \in {"first", "initRun"} =>
        \A c \in Clients : registered'[c] = IF c < cli' THEN Names
                                            ELSE IF c = cli' THEN registered'[cli'] \ {"upd"} ELSE {}
  <2>1. CASE /\ registered' = [registered EXCEPT ![cli] = {"add"}]
             /\ cli' = cli
    <3>1. registered'[cli] = {"add"} /\ {"add"} \ {"upd"} = {"add"}
      BY <1>4, <2>1
    <3>2. \A c \in Clients : c # cli => registered'[c] = registered[c]
      BY <1>4, <2>1
    <3>3. \A c \in Clients : c < cli => c # cli
      BY <1>2, Numbers
    <3>4. QED
      BY <1>4, <2>1, <3>1, <3>2, <3>3, Zenon
  <2>2. CASE registered' = [registered EXCEPT ![cli] = Names] /\ pc' = "first" /\ cli' = cli + 1
    <3>1. \A c \in Clients : registered'[c] = IF c = cli THEN Names ELSE registered[c]
      BY <1>4, <2>2
    <3>2. \A c \in Clients : (c < cli' <=> c < cli \/ c = cli) /\ (c = cli' => c > cli)
      BY <1>2, <2>2, Numbers
    <3>3. \A c \in Clients : c > cli => registered[c] = {}
      BY <1>2, <1>4, Numbers
    <3>4. \A c \in Clients : c < cli' => registered'[c] = Names
      BY <1>4, <3>1, <3>2
    <3>5. \A c \in Clients : ~(c < cli') => registered'[c] = {}
      BY <1>2, <3>1, <3>2, <3>3, Numbers
    <3>6. \A c \in Clients : c = cli' => registered'[cli'] \ {"upd"} = {} /\ ~(c < cli')
      BY <1>2, <2>2, <3>5, Numbers
    <3>7. QED
      BY <3>4, <3>5, <3>6
  <2>3. QED
    BY <1>1, <1>5, <2>1, <2>2
<1>10. Progress'
  <2>1. \A c \in Clients : pc' = "first" => (hm[c] = NULL <=> c >= cli')
    BY <1>2, <1>3, <1>5, Numbers
  <2>2. pc' = "initRun" => cli' = cli
    BY <1>1
  <2>3. \A c \in Clients : c > cli <=> c >= cli /\ ~(c = cli)
    BY <1>2, Numbers
  <2>4. \A c \in Clients : pc' = "lock" => hm[c] # NULL
    BY <1>2, <1>3, <1>6, Numbers
  <2>5. pc' = "lock" => cli' = 1
    BY <1>5
  <2>6. pc' \in {"first", "initRun"} =>
          \A c \in Clients : hm[c] = NULL <=> c >= cli' /\ ~(c = cli' /\ pc' = "initRun")
    BY <1>3, <2>1, <2>2, <2>3
  <2>7. /\ spill_id' \in SpillRuns
        /\ evt' \in 1..(Len(spill_id') + 1)
        /\ hm' = [c \in Clients |-> hm'[c]] /\ sp_hist' = [c \in Clients |-> sp_hist'[c]]
        /\ dump' = [c \in Clients |-> dump'[c]]
        /\ spill_id_pre' = [c \in Clients |-> spill_id_pre'[c]]
    BY <1>1, <1>2 DEF Progress
  <2>8. QED
    BY <1>1, <1>3, <1>6, <1>8, <1>9, <2>4, <2>5, <2>6, <2>7 DEF Progress
<1>11. Counted'
  <2>1. \A c \in Clients : pc' \notin {"end", "endDisabled", "ended"} /\ dump[c] = NULL
    BY <1>1, <1>2, <1>6 DEF Counted
  <2>2. QED
    BY <1>1, <1>2, <1>7, <2>1 DEF Counted
<1>12. QED
  BY <1>10, <1>11 DEF MInv

LEMMA MLockForEvent ==
  ASSUME MInv, LockForEvent
  PROVE  MInv'
<1>1. /\ pc = "lock" /\ pc' = "event" /\ evt <= Len(spill_id)
      /\ UNCHANGED <<spill_id, evt, cli, hm, registered, sp_hist, spill_id_pre, make_sp_hist, dump>>
  BY DEF LockForEvent
<1>2. Progress'
  BY <1>1 DEF MInv, Progress
<1>3. Fills' = Fills
  BY <1>1 DEF Fills, FilledBy
<1>4. Counted'
  BY <1>1, <1>3 DEF MInv, Counted
<1>5. QED
  BY <1>2, <1>4 DEF MInv

LEMMA MGoEnd ==
  ASSUME MInv, cli \in Clients, GoEnd
  PROVE  MInv'
<1>1. /\ \/ pc = "lock" /\ evt = Len(spill_id) + 1
         \/ pc = "first" /\ hm = [c \in Clients |-> NULL]
      /\ pc' = "end" /\ cli' = 1
      /\ UNCHANGED <<spill_id, evt, hm, registered, sp_hist, spill_id_pre, make_sp_hist, dump>>
  BY DEF GoEnd
<1>2. Progress /\ Counted
  BY DEF MInv
<1>3. Progress'
  BY <1>1, <1>2 DEF Progress
<1>4. pc = "lock" => cli = 1
  BY <1>1, <1>2, Numbers DEF Progress
<1>5. Fills' = Fills
  <2>1. \A c \in Clients : ~(c < 1)
    BY <1>2, Numbers
  <2>2. QED
    BY <1>1, <1>4, <2>1 DEF Fills, FilledBy
<1>6. Counted'
  <2>1. \A c \in Clients : ~(c < 1) /\ dump[c] = NULL
    BY <1>1, <1>2, Numbers DEF Counted
  <2>2. QED
    BY <1>1, <1>2, <1>5, <2>1 DEF Counted
<1>7. QED
  BY <1>3, <1>6 DEF MInv

LEMMA MProcessEvent ==
  ASSUME MInv, cli \in Clients, make_sp_hist \in [Clients -> BOOLEAN], ProcessEvent
  PROVE  MInv'
<1> DEFINE h == hm[cli]
           m == sp_hist[cli]
           pre == spill_id_pre[cli]
           make == make_sp_hist[cli]
           n == evt - 1
<1>1. /\ pc = "event" /\ pc' = "lock" /\ cli' = (cli % NClients) + 1
      /\ evt' = (IF cli = NClients THEN evt + 1 ELSE evt)
      /\ UNCHANGED <<spill_id, registered, dump>>
      /\ SameSpill \/ NewSpill
  BY DEF ProcessEvent
<1>2. Progress /\ Counted
  BY DEF MInv
<1>3. evt <= Len(spill_id) /\ n \in Nat /\ n + 1 = evt /\ Fills[cli] = n
  BY <1>1, <1>2, FillsAre, Numbers
<1>4. cli' = IF cli = NClients THEN 1 ELSE cli + 1
  BY <1>1, NextClientIs
<1>5. Fills' = [Fills EXCEPT ![cli] = evt]
  <2>1. \A c \in Clients : (IF c < cli' THEN evt' ELSE evt' - 1)
                             = IF c = cli THEN evt ELSE IF c < cli THEN evt ELSE evt - 1
    BY <1>1, <1>2, <1>4, Numbers
  <2>2. Fills' = [c \in Clients |-> IF c < cli' THEN evt' ELSE evt' - 1]
    BY <1>1 DEF Fills, FilledBy
  <2>3. Fills = [c \in Clients |-> IF c < cli THEN evt ELSE evt - 1]
    BY <1>1 DEF Fills, FilledBy
  <2>4. QED
    BY <2>1, <2>2, <2>3
<1>6. h # NULL /\ Holds(spill_id, n, h, m, pre, make) /\ spill_id \in SpillRuns /\ make \in BOOLEAN
  BY <1>1, <1>2, <1>3 DEF Progress, Counted
<1>7. /\ hm = [c \in Clients |-> hm[c]] /\ sp_hist = [c \in Clients |-> sp_hist[c]]
      /\ spill_id_pre = [c \in Clients |-> spill_id_pre[c]]
  BY <1>2 DEF Progress
<1> DEFINE After(h2, m2, pre2, make2) ==
             /\ hm' = [hm EXCEPT ![cli] = h2] /\ sp_hist' = [sp_hist EXCEPT ![cli] = m2]
             /\ spill_id_pre' = [spill_id_pre EXCEPT ![cli] = pre2]
             /\ make_sp_hist' = [make_sp_hist EXCEPT ![cli] = make2]
             /\ Holds(spill_id, n + 1, h2, m2, pre2, make2)
<1>8. \E h2, m2, pre2, make2 : h2 # NULL /\ After(h2, m2, pre2, make2)
  <2>1. /\ spill_id[evt] = pre => Holds(spill_id, n + 1, Filled(h, n + 1), m, pre, make)
        /\ spill_id[evt] # pre =>
             /\ ~(pre >= 0 /\ make) => Holds(spill_id, n + 1, Filled(h, n + 1), m, spill_id[evt], make)
             /\ pre >= 0 /\ make =>
                  Holds(spill_id, n + 1, Filled(Empty, n + 1),
                        SpillHistMade(m, h, pre, spill_id[evt]), spill_id[evt], TRUE)
    <3> HIDE DEF h, m, pre, make, n
    <3>1. n + 1 <= Len(spill_id)
      BY <1>3
    <3>2. QED
      BY <1>3, <1>6, <3>1, OneEventMore
  <2>2. \A g \in {h, Empty} : Filled(g, n + 1) # NULL
    <3> HIDE DEF h, m, pre, make, n
    <3>1. n + 1 <= Len(spill_id)
      BY <1>3
    <3>2. QED
      BY <1>3, <1>6, <3>1, OneEventMore
  <2>3. CASE SameSpill
    <3>1. /\ spill_id[evt] = pre /\ hm' = [hm EXCEPT ![cli] = Filled(h, evt)]
          /\ UNCHANGED <<sp_hist, spill_id_pre, make_sp_hist>>
      BY <2>3 DEF SameSpill, IsNewSpill
    <3>2. After(Filled(h, evt), m, pre, make)
      BY <1>3, <1>7, <2>1, <3>1
    <3>3. Filled(h, evt) # NULL
      BY <1>3, <2>2
    <3> HIDE DEF After
    <3>4. QED
      BY <3>2, <3>3
  <2>4. CASE NewSpill
    <3> DEFINE apart == pre >= 0 /\ make
    <3>1. /\ spill_id[evt] # pre
          /\ sp_hist' = [sp_hist EXCEPT ![cli] =
                            IF apart THEN SpillHistMade(m, h, pre, spill_id[evt]) ELSE m]
          /\ spill_id_pre' = [spill_id_pre EXCEPT ![cli] = spill_id[evt]]
          /\ hm' = [hm EXCEPT ![cli] = Filled(IF apart THEN Empty ELSE h, evt)]
          /\ make_sp_hist' = make_sp_hist
      BY <2>4, Zenon DEF NewSpill, IsNewSpill, IsCut
    <3>2. make_sp_hist' = [make_sp_hist EXCEPT ![cli] = make]
      BY <3>1
    <3>3. apart \in BOOLEAN /\ (apart => make = TRUE)
      BY <1>6
    <3> HIDE DEF h, m, pre, make
    <3>4. CASE ~apart
      <4>1. After(Filled(h, evt), m, spill_id[evt], make)
        BY <1>3, <2>1, <3>1, <3>2, <3>4
      <4>2. Filled(h, evt) # NULL
        BY <1>3, <2>2
      <4> HIDE DEF After, apart
      <4>3. QED
        BY <4>1, <4>2
    <3>5. CASE apart
      <4>1. After(Filled(Empty, evt), SpillHistMade(m, h, pre, spill_id[evt]), spill_id[evt], TRUE)
        BY <1>3, <2>1, <3>1, <3>2, <3>3, <3>5
      <4>2. Filled(Empty, evt) # NULL
        BY <1>3, <2>2
      <4> HIDE DEF After, apart
      <4>3. QED
        BY <4>1, <4>2
    <3>6. QED
      BY <3>4, <3>5
  <2>5. QED
    BY <1>1, <2>3, <2>4
<1>9. PICK h2, m2, pre2, make2 : h2 # NULL /\ After(h2, m2, pre2, make2)
  BY <1>8
<1>10. hm' = [c \in Clients |-> IF c = cli THEN h2 ELSE hm[c]]
  BY <1>7, <1>9
<1>11. Progress'
  <2>1. \A c \in Clients : hm'[c] # NULL
    BY <1>1, <1>2, <1>9, <1>10 DEF Progress
  <2>2. hm' = [c \in Clients |-> hm'[c]]
    BY <1>10
  <2>3. sp_hist' = [c \in Clients |-> sp_hist'[c]]
    BY <1>7, <1>9
  <2>4. spill_id_pre' = [c \in Clients |-> spill_id_pre'[c]]
    BY <1>7, <1>9
  <2>5. spill_id \in SpillRuns /\ registered = [c \in Clients |-> registered[c]]
        /\ dump = [c \in Clients |-> dump[c]]
    BY <1>2 DEF Progress
  <2>6. evt' \in 1..(Len(spill_id) + 1) /\ (cli' # 1 => evt' <= Len(spill_id))
    BY <1>1, <1>2, <1>3, <1>4, Numbers
  <2>7. QED
    BY <1>1, <2>1, <2>2, <2>3, <2>4, <2>5, <2>6 DEF Progress
<1>12. Counted'
  <2> SUFFICES ASSUME NEW c \in Clients
               PROVE  /\ Holds(spill_id, Fills'[c], hm'[c], sp_hist'[c], spill_id_pre'[c],
                               make_sp_hist'[c])
                      /\ dump[c] = NULL
    BY <1>1 DEF Counted
  <2>1. /\ Holds(spill_id, Fills[c], hm[c], sp_hist[c], spill_id_pre[c], make_sp_hist[c])
        /\ dump[c] = NULL
    BY <1>1, <1>2 DEF Counted
  <2>2. CASE c # cli
    <3>1. /\ hm'[c] = hm[c] /\ sp_hist'[c] = sp_hist[c] /\ spill_id_pre'[c] = spill_id_pre[c]
          /\ make_sp_hist'[c] = make_sp_hist[c] /\ Fills'[c] = Fills[c]
      BY <1>5, <1>7, <1>9, <2>2 DEF Fills
    <3>2. QED
      BY <2>1, <3>1
  <2>3. CASE c = cli
    <3>1. /\ hm'[c] = h2 /\ sp_hist'[c] = m2 /\ spill_id_pre'[c] = pre2
          /\ make_sp_hist'[c] = make2 /\ Fills'[c] = n + 1
      BY <1>3, <1>5, <1>7, <1>9, <2>3 DEF Fills
    <3>2. QED
      BY <1>9, <2>1, <3>1
  <2>4. QED
    BY <2>2, <2>3
<1>13. QED
  BY <1>11, <1>12 DEF MInv

(* A client that stops keeping its spills apart, too many of them or at    *)
(* the end, has merged what it had counted.                                *)
LEMMA MDisableSpillHist ==
  ASSUME MInv, cli \in Clients, make_sp_hist \in [Clients -> BOOLEAN], DisableSpillHist
  PROVE  MInv' /\ \A c \in Clients : hm[c] # NULL => hm'[c] # NULL
<1> DEFINE h == hm[cli]
           m == sp_hist[cli]
           pre == spill_id_pre[cli]
           make == make_sp_hist[cli]
           n == Fills[cli]
           all == AllMerged(m, h, pre)
<1>1. /\ pre >= 0 /\ make
      /\ \/ pc = "event" /\ pc' = "disabled"
         \/ pc = "end" /\ pc' = "endDisabled" /\ h # NULL
      /\ hm' = [hm EXCEPT ![cli] = all]
      /\ sp_hist' = [sp_hist EXCEPT ![cli] = NoHist]
      /\ make_sp_hist' = [make_sp_hist EXCEPT ![cli] = FALSE]
      /\ UNCHANGED <<spill_id, evt, cli, registered, spill_id_pre, dump>>
  BY Zenon DEF DisableSpillHist, IsCut
<1>2. Progress /\ Counted
  BY DEF MInv
<1>3. h # NULL /\ make = TRUE
  BY <1>1, <1>2 DEF Progress
<1>4. /\ hm = [c \in Clients |-> hm[c]] /\ sp_hist = [c \in Clients |-> sp_hist[c]]
      /\ dump = [c \in Clients |-> dump[c]]
  BY <1>2 DEF Progress
<1>5. Fills' = Fills
  BY <1>1 DEF Fills, FilledBy
<1>6. Holds(spill_id, n, all, NoHist, pre, FALSE) /\ all = AllCounts(n) /\ n \in 0..Len(spill_id)
  <2>1. /\ spill_id \in SpillRuns /\ n \in Nat /\ n <= Len(spill_id) /\ n \in 0..Len(spill_id)
        /\ Holds(spill_id, n, h, m, pre, make)
    BY <1>2, FillsAre, Numbers DEF Counted, Progress
  <2>2. make \in BOOLEAN
    BY <1>1
  <2>3. ToSetApart(pre, make)
    BY <1>1 DEF ToSetApart
  <2>4. ToSetApart(pre, make) =>
          all = AllCounts(n) /\ Holds(spill_id, n, all, NoHist, pre, FALSE)
    <3> HIDE DEF h, m, pre, make, n
    <3>1. h # NULL
      BY <1>3
    <3>2. QED
      BY <2>1, <2>2, <3>1, SpillsMerged
  <2>5. QED
    BY <2>1, <2>3, <2>4
<1>7. all # NULL
  <2>1. n \in 0..MaxEvents
    BY <1>2, <1>6, RunData, LongestRun DEF Progress
  <2>2. QED
    BY <1>6, <2>1, CountsAre, NotCounts
<1> HIDE DEF all
<1>8. /\ hm' = [c \in Clients |-> IF c = cli THEN all ELSE hm[c]]
      /\ sp_hist' = [c \in Clients |-> IF c = cli THEN NoHist ELSE sp_hist[c]]
  BY <1>1, <1>4
<1>9. \A c \in Clients : hm[c] # NULL => hm'[c] # NULL
  BY <1>7, <1>8
<1>10. Progress'
  <2>1. evt = Len(spill_id) + 1 \/ pc = "event"
    <3>1. hm # [c \in Clients |-> NULL]
      BY <1>3
    <3>2. QED
      BY <1>1, <1>2, <3>1 DEF Progress
  <2>2. pc = "event" => evt <= Len(spill_id) /\ \A c \in Clients : hm'[c] # NULL
    BY <1>2, <1>9 DEF Progress
  <2>3. hm' = [c \in Clients |-> hm'[c]] /\ sp_hist' = [c \in Clients |-> sp_hist'[c]]
    BY <1>8
  <2>4. /\ spill_id \in SpillRuns /\ registered = [c \in Clients |-> registered[c]]
        /\ dump = [c \in Clients |-> dump[c]]
        /\ spill_id_pre = [c \in Clients |-> spill_id_pre[c]]
        /\ evt \in 1..(Len(spill_id) + 1)
    BY <1>2 DEF Progress
  <2>5. QED
    BY <1>1, <2>1, <2>2, <2>3, <2>4 DEF Progress
<1>11. Counted'
  <2> SUFFICES ASSUME NEW c \in Clients
               PROVE  /\ Holds(spill_id, Fills[c], hm'[c], sp_hist'[c], spill_id_pre[c],
                               make_sp_hist'[c])
                      /\ dump[c] = IF pc = "end" /\ c < cli THEN hm'[c] ELSE NULL
                      /\ dump[c] # NULL => dump[c] = AllCounts(Len(spill_id))
    BY <1>1, <1>5 DEF Counted
  <2>1. /\ Holds(spill_id, Fills[c], hm[c], sp_hist[c], spill_id_pre[c], make_sp_hist[c])
        /\ dump[c] = IF pc = "end" /\ c < cli THEN hm[c] ELSE NULL
        /\ dump[c] # NULL => dump[c] = AllCounts(Len(spill_id))
    BY <1>1, <1>2 DEF Counted
  <2>2. CASE c # cli
    <3>1. hm'[c] = hm[c] /\ sp_hist'[c] = sp_hist[c] /\ make_sp_hist'[c] = make_sp_hist[c]
      BY <1>1, <1>8, <2>2
    <3>2. QED
      BY <2>1, <3>1
  <2>3. CASE c = cli
    <3>1. /\ hm'[c] = all /\ sp_hist'[c] = NoHist /\ spill_id_pre[c] = pre /\ Fills[c] = n
          /\ make_sp_hist'[c] = FALSE
      BY <1>1, <1>8, <2>3
    <3>2. ~(c < cli)
      BY <1>2, <2>3, Numbers
    <3>3. QED
      BY <1>6, <2>1, <3>1, <3>2
  <2>4. QED
    BY <2>2, <2>3
<1>12. QED
  BY <1>9, <1>10, <1>11 DEF MInv

LEMMA MSetSpillSelectability ==
  ASSUME MInv, SetSpillSelectability
  PROVE  MInv'
<1>1. /\ (pc = "disabled" /\ pc' = "event") \/ (pc = "endDisabled" /\ pc' = "end")
      /\ UNCHANGED <<spill_id, evt, cli, hm, registered, sp_hist, spill_id_pre, make_sp_hist, dump>>
  BY DEF SetSpillSelectability
<1>2. Progress'
  BY <1>1 DEF MInv, Progress
<1>3. Fills' = Fills
  BY <1>1 DEF Fills, FilledBy
<1>4. Counted'
  BY <1>1, <1>3 DEF MInv, Counted
<1>5. QED
  BY <1>2, <1>4 DEF MInv

LEMMA MEndClient ==
  ASSUME MInv, cli \in Clients, make_sp_hist \in [Clients -> BOOLEAN], EndClient
  PROVE  MInv'
<1> DEFINE h == hm[cli]
           m == sp_hist[cli]
           pre == spill_id_pre[cli]
           make == make_sp_hist[cli]
           N == Len(spill_id)
<1>1. /\ pc = "end" /\ pc' = (IF cli = NClients THEN "ended" ELSE "end")
      /\ cli' = (IF cli = NClients THEN cli ELSE cli + 1)
      /\ UNCHANGED <<spill_id, evt, hm, registered, sp_hist, spill_id_pre, make_sp_hist>>
      /\ h # NULL => ~ToSetApart(pre, make)
      /\ dump' = [dump EXCEPT ![cli] = h]
  BY Zenon DEF EndClient, IsCut, ToSetApart
<1>2. Progress /\ Counted
  BY DEF MInv
<1>3. evt = N + 1 \/ hm = [c \in Clients |-> NULL]
  BY <1>1, <1>2 DEF Progress
<1>4. dump = [c \in Clients |-> dump[c]]
  BY <1>2 DEF Progress
<1>5. Holds(spill_id, Fills[cli], h, m, pre, make) /\ make \in BOOLEAN
  BY <1>2 DEF Counted
<1>6. Fills' = Fills
  BY <1>1 DEF Fills, FilledBy
<1>7. h # NULL => h = AllCounts(N)
  <2> SUFFICES ASSUME h # NULL PROVE h = AllCounts(N)
    OBVIOUS
  <2>1. evt = N + 1
    BY <1>3
  <2>2. Fills[cli] = evt - 1
    BY <1>1, <1>2, FillsAre
  <2>3. Fills[cli] = N
    BY <1>2, <2>1, <2>2, Numbers
  <2>4. /\ spill_id \in SpillRuns /\ N \in Nat /\ N <= Len(spill_id)
        /\ Holds(spill_id, N, h, m, pre, make)
    BY <1>2, <1>5, <2>3, Numbers DEF Progress
  <2>5. make \in BOOLEAN
    BY <1>5
  <2>6. /\ ~ToSetApart(pre, make) => h = AllCounts(N)
        /\ ToSetApart(pre, make) =>
             /\ AllMerged(m, h, pre) = AllCounts(N)
             /\ Holds(spill_id, N, AllMerged(m, h, pre), NoHist, pre, FALSE)
    <3> HIDE DEF h, m, pre, make, N
    <3>1. h # NULL
      OBVIOUS
    <3>2. QED
      BY <2>4, <2>5, <3>1, SpillsMerged
  <2>7. QED
    BY <1>1, <2>6
<1>8. Progress'
  <2>1. dump' = [c \in Clients |-> dump'[c]]
    BY <1>1, <1>4
  <2>2. QED
    BY <1>1, <1>2, <1>3, <2>1 DEF Progress
<1>9. Counted'
  <2> SUFFICES ASSUME NEW c \in Clients
               PROVE  /\ Holds(spill_id, Fills[c], hm[c], sp_hist[c], spill_id_pre[c], make_sp_hist[c])
                      /\ dump'[c] = IF pc' = "ended" \/ (pc' = "end" /\ c < cli') THEN hm[c] ELSE NULL
                      /\ dump'[c] # NULL => dump'[c] = AllCounts(N)
    BY <1>1, <1>6 DEF Counted
  <2>1. /\ Holds(spill_id, Fills[c], hm[c], sp_hist[c], spill_id_pre[c], make_sp_hist[c])
        /\ dump[c] = IF c < cli THEN hm[c] ELSE NULL
        /\ dump[c] # NULL => dump[c] = AllCounts(N)
    BY <1>1, <1>2 DEF Counted
  <2>2. CASE c # cli
    <3>1. dump'[c] = dump[c]
      BY <1>1, <1>4, <2>2
    <3>2. (pc' = "ended" \/ (pc' = "end" /\ c < cli')) <=> c < cli
      BY <1>1, <1>2, <2>2, Numbers
    <3>3. QED
      BY <2>1, <3>1, <3>2
  <2>3. CASE c = cli
    <3>1. pc' = "ended" \/ (pc' = "end" /\ c < cli')
      BY <1>1, <1>2, <2>3, Numbers
    <3>2. dump'[c] = h
      BY <1>1, <1>4, <2>3
    <3>3. QED
      BY <1>7, <2>1, <2>3, <3>1, <3>2
  <2>4. QED
    BY <2>2, <2>3
<1>10. QED
  BY <1>8, <1>9 DEF MInv

LEMMA MNext == IInv /\ MInv /\ [Next]_vars => MInv'
<1> SUFFICES ASSUME IInv, MInv, [Next]_vars
             PROVE  MInv'
  OBVIOUS
<1>1. cli \in Clients /\ make_sp_hist \in [Clients -> BOOLEAN]
  BY DEF IInv, Switches
<1>2. CASE MainNext \/ GoEnd
  BY <1>1, <1>2, MInitRun, MRegisterHist, MLockForEvent, MProcessEvent, MGoEnd,
     MDisableSpillHist, MSetSpillSelectability, MEndClient DEF MainNext
<1>3. CASE UNCHANGED countVars
  BY <1>3, MSame
<1>4. CASE ServerThread
  BY <1>3, <1>4 DEF ServerThread, mainVars, countVars
<1>5. CASE (\E k \in Viewers : ViewerThread(k) \/ ViewerConnects(k)) \/ AnotherDecoder
  BY <1>3, <1>5 DEF ViewerThread, ViewerConnects, AnotherDecoder, mainVars, countVars
<1>6. CASE Exit \/ Crash \/ UNCHANGED vars
  BY <1>3, <1>6 DEF Exit, Crash, Gone, vars, mainVars, countVars
<1>7. QED
  BY <1>2, <1>4, <1>5, <1>6 DEF Next, MainThread, EndOfData, Terminated

(* What is counted, at any moment.                                         *)
THEOREM CountsInvariance == Spec => [](IInv /\ MInv)
BY InitInv, NextInv, MInit, MNext, PTL DEF Spec

(* What End() writes holds every event of the run once, for every run and  *)
(* every number of clients, also when the spills become too many on the    *)
(* way (OnlMonClient::DisableSpillHist), and every client that was set up  *)
(* writes.                                                                 *)
THEOREM DumpCompleteCorrect == Spec => []DumpComplete
<1>1. MInv => DumpComplete
  <2> SUFFICES ASSUME MInv, NEW c \in Clients
               PROVE  /\ dump[c] # NULL => dump[c] = Expected(Len(spill_id), FALSE, 0, 0)
                      /\ pc = "ended" => (dump[c] = NULL) = (hm[c] = NULL)
    BY DEF DumpComplete
  <2>1. Expected(Len(spill_id), FALSE, 0, 0) = AllCounts(Len(spill_id))
    <3>1. Len(spill_id) \in Nat
      BY RunData DEF MInv, Progress
    <3>2. QED
      BY <3>1 DEF Expected, AllCounts
  <2>2. QED
    BY <2>1 DEF MInv, Counted
<1>2. QED
  BY <1>1, CountsInvariance, PTL

-----------------------------------------------------------------------------
(* Conversations.                                                          *)

(* Expected, of any run.                                                   *)
Shows(r, n, apart, lo, hi) ==
  LET Shown(e) == e <= n /\ (apart => Second(r, n) /\ InRange(r[e], lo, hi))
  IN  [add |-> [e \in Events |-> IF Shown(e) THEN 1 ELSE 0],
       upd |-> IF n > 0 /\ Shown(n) THEN n ELSE 0]

(* As long as nobody ends the decoder or its server, no connection is      *)
(* closed by it.                                                           *)
Serving == alive /\ svr # "ended"

(* The histograms that may be sent and drawn.                              *)
Copies == [name : Names, hist : {TORN} \cup Nat \cup [Events -> Nat]]
ExactFor(r, end, ct) ==
  {h \in Copies :
     IF h.hist = TORN THEN end \/ ct.names # Names
     ELSE h.hist = Shows(r, ct.n, ct.apart, ct.lo, ct.hi)[h.name]}
Exact == ExactFor(spill_id, go_end, cut)

(* What is sent over the connections of each kind.                         *)
Asked == [type : {"SUBSYS"}, of : Clients, lo : {r[1] : r \in Requests}, hi : {r[2] : r \in Requests}]
Replies(H) == [type : {"Pong", "NotReady", "Finished"}] \cup [type : {"Hist"}, hist : H]
Conns ==
  [who : {"gui"}, msgs : Seq([type : {"Ping", "NEXT"}] \cup Asked), open : {TRUE}]
    \cup [who : {"gui"}, msgs : Seq([type : {"Ping"}]), open : {FALSE}]
    \cup [who : {"range"}, msgs : Seq([type : {"Ping", "Spill"}]), open : BOOLEAN]
    \cup [who : {ANOTHER}, msgs : Seq([type : {"Suicide"}]), open : {FALSE}]

NamesOf(s) == {s[i].name : i \in DOMAIN s}
(* Histograms received and still to be sent, with `N` on the way.          *)
AllOf(N) == NamesOf(got) \cup N \cup NamesOf(list_h1) = cut.names

(* The thread of the buttons has been answered and has asked the server.   *)
Asking    == svr = "recv" /\ inbox["gui"] = <<>> /\ got = <<>> /\ \E q \in Asked : Current.msgs = <<q>>
Copying   == svr \in {"lock", "merge"} /\ inbox["gui"] = <<>> /\ got = <<>> /\ Current.msgs = <<>>
Refused   == svr = "recv" /\ inbox["gui"] = <<[type |-> "NotReady"]>> /\ Current.msgs = <<>>
Sending   == svr = "send" /\ inbox["gui"] = <<>> /\ Current.msgs = <<>> /\ AllOf({})
Arriving  == /\ svr = "next" /\ Current.msgs = <<>>
             /\ \E h \in Exact : inbox["gui"] = <<[type |-> "Hist", hist |-> h]>> /\ AllOf({h.name})
Confirmed == svr = "next" /\ inbox["gui"] = <<>> /\ Current.msgs = <<[type |-> "NEXT"]>> /\ AllOf({})
Announced == /\ svr = "recv" /\ inbox["gui"] = <<[type |-> "Finished"]>> /\ Current.msgs = <<>>
             /\ list_h1 = <<>> /\ AllOf({})

Answered ==
  backlog # <<>> /\ IsMine(Current, "gui") /\ Current.msgs = <<>>
  /\ svr = "recv" /\ inbox["gui"] = <<[type |-> "Pong"]>>

Conversation ==
  /\ backlog \in Seq(Conns)
  /\ \A k \in Viewers : ~broken[k]
  /\ \A i, j \in DOMAIN backlog : IsMine(backlog[i], "gui") /\ IsMine(backlog[j], "gui") => i = j
  /\ v["gui"] \in {"idle", "abort"} => \A i \in DOMAIN backlog : ~IsMine(backlog[i], "gui")
  /\ v["gui"] = "ping" =>
       \/ Answered
       \/ /\ inbox["gui"] = <<>>
          /\ \A i \in DOMAIN backlog :
               IsMine(backlog[i], "gui") => backlog[i].msgs = <<[type |-> "Ping"]>>
  /\ v["gui"] = "recv" =>
       /\ backlog # <<>> /\ IsMine(Current, "gui")
       /\ Asking \/ Copying \/ Refused \/ Sending \/ Arriving \/ Confirmed \/ Announced
  /\ svr \in {"lock", "merge", "send", "next"} => v["gui"] = "recv"
  /\ svr \in {"recv", "range"} => backlog # <<>>
  /\ svr = "range" => Current.who = "range"

(* What holds whether the server is there or not.                          *)
Threads ==
  /\ svr \in {"none", "boot", "bound", "accept", "recv", "range", "lock", "merge",
              "send", "next", "ended"}
  /\ mutex \in {"none", "main", "server"}
  /\ v \in [Viewers -> {"idle", "ping", "recv", "abort"}]
  /\ broken \in [Viewers -> BOOLEAN] /\ DOMAIN inbox = Viewers
  /\ go_end \in BOOLEAN
  /\ pc \in {"end", "endDisabled", "ended"} \/ svr = "ended" => go_end
  /\ svr \in {"lock", "merge"} => job.of \in Clients /\ hm[job.of] # NULL

Sound ==
  got \in Seq(Exact) /\ list_h1 \in Seq(Exact) /\ inbox["gui"] \in Seq(Replies(Exact))

LInv == Threads /\ Sound /\ AbortOnlyWhenCutOff /\ (Serving => Conversation)

-----------------------------------------------------------------------------
(* What a client shows.                                                    *)

LEMMA ExpectedIs ==
  ASSUME NEW n, NEW apart, NEW lo, NEW hi
  PROVE  Expected(n, apart, lo, hi) = Shows(spill_id, n, apart, lo, hi)
BY DEF Expected, Shows, Second

LEMMA ShowsCounts ==
  ASSUME NEW r, NEW n \in Nat, NEW apart, NEW lo, NEW hi
  PROVE  /\ Shows(r, n, apart, lo, hi).add \in [Events -> Nat]
         /\ Shows(r, n, apart, lo, hi).upd \in Nat
BY DEF Shows

LEMMA ShowsAll ==
  ASSUME NEW r, NEW n \in Nat, NEW lo, NEW hi
  PROVE  Shows(r, n, FALSE, lo, hi) = AllCounts(n)
<1>1. Shows(r, n, FALSE, lo, hi) =
        [add |-> [e \in Events |-> IF e <= n THEN 1 ELSE 0], upd |-> IF n > 0 THEN n ELSE 0]
  BY DEF Shows
<1>2. (IF n > 0 THEN n ELSE 0) = n
  OBVIOUS
<1>3. QED
  BY <1>1, <1>2 DEF AllCounts

ShowsSpills(r, n, lo, hi) == Shows(r, n, TRUE, lo, hi)

LEMMA ShowsApart ==
  ASSUME NEW r \in SpillRuns, NEW n \in Nat, n <= Len(r), NEW h, NEW m, Apart(r, n, m, h),
         NEW lo, NEW hi
  PROVE  MergedHist(m, h, lo, hi) = ShowsSpills(r, n, lo, hi)
<1>1. CASE ~Second(r, n)
  <2>1. DOMAIN m = {}
    BY <1>1 DEF Apart
  <2>2. MergedHist(m, h, lo, hi) = Empty
    BY <2>1, MergedNone
  <2>3. ShowsSpills(r, n, lo, hi) = [add |-> [e \in Events |-> 0], upd |-> 0]
    BY <1>1 DEF Shows, ShowsSpills
  <2>4. QED
    BY <2>2, <2>3 DEF Empty
<1>2. CASE Second(r, n)
  <2>1. n > 0 /\ n \in 1..Len(r)
    BY <1>2, RunData DEF Second
  <2>2. DOMAIN m = SpillsOf(r, n) /\ m[r[n]] = LIVE /\ h.add = CountsOf(r, n, r[n]) /\ h.upd = n
    BY <1>2 DEF Apart
  <2>3. \A s \in DOMAIN m : s # r[n] => m[s] # LIVE /\ m[s].add = CountsOf(r, n, s)
    BY <1>2, NotCounts DEF Apart
  <2>4. Complete(r, n, m, h)
    BY <2>2, <2>3 DEF Complete, Deref
  <2>5. MergedHist(m, h, lo, hi) =
          [add |-> [e \in Events |-> IF e <= n /\ InRange(r[e], lo, hi) THEN 1 ELSE 0],
           upd |-> IF InRange(r[n], lo, hi) THEN Deref(m, r[n], h).upd ELSE 0]
    BY <2>1, <2>4, MergedCounts
  <2>6. Deref(m, r[n], h).upd = n
    BY <2>2 DEF Deref
  <2>7. ShowsSpills(r, n, lo, hi) =
          [add |-> [e \in Events |-> IF e <= n /\ InRange(r[e], lo, hi) THEN 1 ELSE 0],
           upd |-> IF InRange(r[n], lo, hi) THEN n ELSE 0]
    BY <1>2, <2>1 DEF Shows, ShowsSpills
  <2>8. MergedHist(m, h, lo, hi) =
          [add |-> [e \in Events |-> IF e <= n /\ InRange(r[e], lo, hi) THEN 1 ELSE 0],
           upd |-> IF InRange(r[n], lo, hi) THEN n ELSE 0]
    BY <2>5, <2>6
  <2>9. QED
    BY <2>7, <2>8
<1>3. QED
  BY <1>1, <1>2

LEMMA MergedShows ==
  ASSUME NEW r \in SpillRuns, NEW n \in Nat, n <= Len(r),
         NEW h, NEW m, NEW pre, NEW make \in BOOLEAN, Holds(r, n, h, m, pre, make), h # NULL,
         NEW lo, NEW hi
  PROVE  (IF make THEN MergedHist(m, h, lo, hi) ELSE h) = Shows(r, n, make, lo, hi)
<1>1. CASE make = TRUE
  <2>1. Apart(r, n, m, h)
    BY <1>1 DEF Holds
  <2>2. MergedHist(m, h, lo, hi) = ShowsSpills(r, n, lo, hi)
    BY <2>1, ShowsApart
  <2>3. (IF make THEN MergedHist(m, h, lo, hi) ELSE h) = MergedHist(m, h, lo, hi)
    BY <1>1
  <2>4. Shows(r, n, make, lo, hi) = ShowsSpills(r, n, lo, hi)
    BY <1>1 DEF ShowsSpills
  <2>5. QED
    BY <2>2, <2>3, <2>4
<1>2. CASE make = FALSE
  <2>1. h = AllCounts(n)
    BY <1>2 DEF Holds
  <2>2. QED
    BY <1>2, <2>1, ShowsAll
<1>3. QED
  BY <1>1, <1>2

-----------------------------------------------------------------------------
(* Sequences.                                                              *)

LEMMA SeqOfMore ==
  ASSUME NEW S, NEW T, S \subseteq T, NEW s \in Seq(S)
  PROVE  s \in Seq(T)
<1>1. Len(s) \in Nat /\ s \in [1..Len(s) -> S]
  OBVIOUS
<1>2. s \in [1..Len(s) -> T]
  BY <1>1
<1>3. QED
  BY <1>1, <1>2

LEMMA HeadIn ==
  ASSUME NEW S, NEW s \in Seq(S), s # <<>>
  PROVE  Head(s) \in S
OBVIOUS

LEMMA NamesOfAppend ==
  ASSUME NEW S, NEW s \in Seq(S), NEW x
  PROVE  NamesOf(Append(s, x)) = NamesOf(s) \cup {x.name}
<1> DEFINE t == Append(s, x)
<1>1. Len(s) \in Nat /\ DOMAIN s = 1..Len(s) /\ DOMAIN t = 1..(Len(s) + 1)
  OBVIOUS
<1>2. t[Len(s) + 1] = x /\ \A i \in 1..Len(s) : t[i] = s[i]
  OBVIOUS
<1>3. \A i : i \in DOMAIN t <=> i \in DOMAIN s \/ i = Len(s) + 1
  BY <1>1
<1> HIDE DEF t
<1>4. NamesOf(t) = NamesOf(s) \cup {x.name}
  BY <1>1, <1>2, <1>3 DEF NamesOf
<1>5. QED
  BY <1>4 DEF t

LEMMA NamesOfTail ==
  ASSUME NEW S, NEW s \in Seq(S), s # <<>>
  PROVE  NamesOf(s) = {Head(s).name} \cup NamesOf(Tail(s))
<1> DEFINE t == Tail(s)
<1>1. Len(s) \in Nat /\ Len(s) >= 1 /\ DOMAIN s = 1..Len(s) /\ DOMAIN t = 1..(Len(s) - 1)
  OBVIOUS
<1>2. Head(s) = s[1] /\ \A i \in 1..(Len(s) - 1) : t[i] = s[i + 1]
  OBVIOUS
<1> HIDE DEF t
<1>3. ASSUME NEW i \in DOMAIN s PROVE s[i].name \in {s[1].name} \cup NamesOf(t)
  <2>1. CASE i = 1
    BY <2>1
  <2>2. CASE i # 1
    <3>1. i - 1 \in DOMAIN t /\ t[i - 1] = s[i]
      BY <1>1, <1>2, <2>2
    <3>2. QED
      BY <3>1 DEF NamesOf
  <2>3. QED
    BY <2>1, <2>2
<1>4. ASSUME NEW i \in DOMAIN t PROVE t[i].name \in NamesOf(s)
  <2>1. i + 1 \in DOMAIN s /\ t[i] = s[i + 1]
    BY <1>1, <1>2
  <2>2. QED
    BY <2>1 DEF NamesOf
<1>5. 1 \in DOMAIN s
  BY <1>1
<1>6. NamesOf(s) = {s[1].name} \cup NamesOf(t)
  BY <1>3, <1>4, <1>5 DEF NamesOf
<1>7. QED
  BY <1>2, <1>6 DEF t

-----------------------------------------------------------------------------
(* Conversations go on as they should: the steps of the main thread.       *)

LEMMA MainTalks ==
  ASSUME LInv, UNCHANGED <<svrVars, viewVars, cut, spill_id>>, go_end' \in BOOLEAN, go_end => go_end',
         mutex' \in {"none", "main", "server"}, pc' \in {"end", "endDisabled", "ended"} => go_end',
         \A c \in Clients : hm[c] # NULL => hm'[c] # NULL
  PROVE  LInv'
<1>1. UNCHANGED <<alive, svr, backlog, job, list_h1, v, inbox, broken, got>>
  BY DEF svrVars, viewVars
<1>2. Exact \subseteq Exact'
  BY DEF Exact, ExactFor
<1>3. Threads'
  BY <1>1 DEF LInv, Threads
<1>4. Sound'
  <2>1. Replies(Exact) \subseteq Replies(Exact')
    BY <1>2 DEF Replies
  <2>2. got \in Seq(Exact') /\ list_h1 \in Seq(Exact') /\ inbox["gui"] \in Seq(Replies(Exact'))
    BY <1>2, <2>1, SeqOfMore DEF LInv, Sound
  <2>3. QED
    BY <1>1, <2>2 DEF Sound
<1>5. AbortOnlyWhenCutOff'
  BY <1>1 DEF LInv, AbortOnlyWhenCutOff
<1>6. ASSUME Serving' PROVE Conversation'
  <2>1. Conversation
    BY <1>1, <1>6 DEF LInv, Serving
  <2>2. /\ Asking' = Asking /\ Copying' = Copying /\ Refused' = Refused /\ Sending' = Sending
        /\ Confirmed' = Confirmed /\ Announced' = Announced /\ Answered' = Answered
    BY <1>1 DEF Asking, Copying, Refused, Sending, Confirmed, Announced, Answered, AllOf, Current
  <2>3. Arriving => Arriving'
    BY <1>1, <1>2 DEF Arriving, AllOf, Current
  <2>4. QED
    BY <1>1, <2>1, <2>2, <2>3 DEF Conversation, Current
<1>7. QED
  BY <1>3, <1>4, <1>5, <1>6 DEF LInv

LEMMA LMain ==
  ASSUME IInv, MInv, LInv, MainNext \/ GoEnd, UNCHANGED <<svrVars, viewVars, cut>>
  PROVE  LInv'
<1>1. cli \in Clients /\ make_sp_hist \in [Clients -> BOOLEAN] /\ Progress
  BY DEF IInv, Switches, MInv
<1>2. hm = [c \in Clients |-> hm[c]]
  BY <1>1 DEF Progress
<1>3. /\ go_end \in BOOLEAN /\ mutex \in {"none", "main", "server"}
      /\ pc \in {"end", "endDisabled", "ended"} => go_end
  BY DEF LInv, Threads
<1>4. CASE InitRun
  <2>1. \A c \in Clients : hm[c] # NULL => hm'[c] # NULL
    BY <1>1, <1>2, <1>4, CountsAre, NotCounts DEF InitRun
  <2>2. QED
    BY <1>3, <1>4, <2>1, MainTalks DEF InitRun
<1>5. CASE RegisterHist
  BY <1>3, <1>5, MainTalks DEF RegisterHist
<1>6. CASE LockForEvent
  BY <1>3, <1>6, MainTalks DEF LockForEvent
<1>7. CASE ProcessEvent
  <2>1. Progress' /\ pc' = "lock" /\ mutex' = "none" /\ UNCHANGED <<spill_id, go_end>>
    BY <1>1, <1>7, MProcessEvent DEF MInv, ProcessEvent
  <2>2. \A c \in Clients : hm'[c] # NULL
    BY <2>1 DEF Progress
  <2>3. QED
    BY <1>3, <2>1, <2>2, MainTalks
<1>8. CASE DisableSpillHist
  <2>1. \A c \in Clients : hm[c] # NULL => hm'[c] # NULL
    BY <1>1, <1>8, MDisableSpillHist
  <2>2. /\ pc' = "endDisabled" => pc = "end"
        /\ pc' \in {"disabled", "endDisabled"} /\ UNCHANGED <<spill_id, go_end, mutex>>
    BY <1>8 DEF DisableSpillHist
  <2>3. QED
    BY <1>3, <2>1, <2>2, MainTalks
<1>9. CASE SetSpillSelectability
  BY <1>3, <1>9, MainTalks DEF SetSpillSelectability
<1>10. CASE EndClient
  BY <1>3, <1>10, MainTalks DEF EndClient
<1>11. CASE GoEnd
  BY <1>3, <1>11, MainTalks DEF GoEnd
<1>12. QED
  BY <1>4, <1>5, <1>6, <1>7, <1>8, <1>9, <1>10, <1>11 DEF MainNext

-----------------------------------------------------------------------------
(* Steps that do not concern the thread of the buttons, and the steps of   *)
(* the other thread of the viewer.                                         *)

LEMMA ConnIs ==
  ASSUME NEW x \in Conns
  PROVE  /\ x.who \in {"gui", "range", ANOTHER} /\ x.open \in BOOLEAN
         /\ x = [who |-> x.who, msgs |-> x.msgs, open |-> x.open]
         /\ x.who = "gui" => x.msgs \in Seq([type : {"Ping", "NEXT"}] \cup Asked)
         /\ x.who = "gui" /\ ~x.open => x.msgs \in Seq([type : {"Ping"}])
         /\ x.who = "range" => x.msgs \in Seq([type : {"Ping", "Spill"}])
         /\ x.who = ANOTHER => x.msgs \in Seq([type : {"Suicide"}]) /\ ~x.open
<1>1. CASE x \in [who : {"gui"}, msgs : Seq([type : {"Ping"}]), open : {FALSE}]
  <2>1. x.msgs \in Seq([type : {"Ping"}]) /\ [type : {"Ping"}] \subseteq [type : {"Ping", "NEXT"}] \cup Asked
    BY <1>1
  <2>2. x.msgs \in Seq([type : {"Ping", "NEXT"}] \cup Asked)
    BY <2>1, SeqOfMore
  <2>3. QED
    BY <1>1, <2>2 DEF ANOTHER
<1>2. CASE x \notin [who : {"gui"}, msgs : Seq([type : {"Ping"}]), open : {FALSE}]
  BY <1>2 DEF Conns, ANOTHER
<1>3. QED
  BY <1>1, <1>2

LEMMA OtherTalks ==
  ASSUME LInv, UNCHANGED <<mainVars, alive, job, list_h1, got, cut, broken>>,
         v' \in [Viewers -> {"idle", "ping", "recv", "abort"}], v'["gui"] = v["gui"],
         DOMAIN inbox' = Viewers, inbox'["gui"] = inbox["gui"],
         \/ svr' = svr
         \/ /\ svr \in {"recv", "range"} /\ ~IsMine(Current, "gui")
            /\ svr' = "recv" \/ (svr' = "range" /\ Current.who = "range"),
         Serving =>
           /\ backlog' \in Seq(Conns) /\ Len(backlog') = Len(backlog)
           /\ \A i \in 1..Len(backlog) :
                /\ backlog'[i].who = backlog[i].who
                /\ IsMine(backlog'[i], "gui") <=> IsMine(backlog[i], "gui")
                /\ IsMine(backlog[i], "gui") => backlog'[i] = backlog[i]
  PROVE  LInv'
<1>1. UNCHANGED <<pc, hm, mutex, spill_id, go_end>>
  BY DEF mainVars
<1>2. Exact' = Exact
  BY <1>1 DEF Exact
<1>3. Threads'
  BY <1>1 DEF LInv, Threads
<1>4. Sound'
  BY <1>2 DEF LInv, Sound
<1>5. AbortOnlyWhenCutOff'
  BY <1>1 DEF LInv, AbortOnlyWhenCutOff
<1>6. ASSUME Serving' PROVE Conversation'
  <2>1. Conversation /\ Serving
    BY <1>6 DEF LInv, Serving
  <2>2. /\ backlog' \in Seq(Conns) /\ backlog \in Seq(Conns) /\ Len(backlog') = Len(backlog)
        /\ DOMAIN backlog = 1..Len(backlog) /\ DOMAIN backlog' = 1..Len(backlog)
        /\ Len(backlog) \in Nat
    BY <2>1 DEF Conversation
  <2>3. \A i \in 1..Len(backlog) : backlog'[i].who = backlog[i].who
    BY <2>1
  <2>4. \A i \in 1..Len(backlog) :
          /\ IsMine(backlog'[i], "gui") <=> IsMine(backlog[i], "gui")
          /\ IsMine(backlog[i], "gui") => backlog'[i] = backlog[i]
    BY <2>1
  <2>5. (backlog' # <<>> <=> backlog # <<>>) /\ (backlog # <<>> => 1 \in 1..Len(backlog))
    BY <2>2
  <2>6. backlog # <<>> =>
          /\ Current = backlog[1] /\ Current' = backlog'[1]
          /\ Current'.who = Current.who
          /\ IsMine(Current, "gui") => Current' = Current
    BY <2>2, <2>3, <2>4, <2>5 DEF Current
  <2>7. backlog # <<>> /\ IsMine(Current, "gui") =>
          /\ backlog' # <<>> /\ IsMine(Current, "gui")' /\ Current'.msgs = Current.msgs
    BY <2>5, <2>6 DEF IsMine
  <2>8. v["gui"] = "recv" =>
          /\ backlog' # <<>> /\ IsMine(Current, "gui")'
          /\ (Asking \/ Copying \/ Refused \/ Sending \/ Arriving \/ Confirmed \/ Announced)'
    <3> SUFFICES ASSUME v["gui"] = "recv"
                 PROVE  /\ backlog' # <<>> /\ IsMine(Current, "gui")'
                        /\ (Asking \/ Copying \/ Refused \/ Sending \/ Arriving \/ Confirmed \/ Announced)'
      OBVIOUS
    <3>1. /\ backlog # <<>> /\ IsMine(Current, "gui")
          /\ Asking \/ Copying \/ Refused \/ Sending \/ Arriving \/ Confirmed \/ Announced
      BY <2>1 DEF Conversation
    <3>2. Current'.msgs = Current.msgs /\ svr' = svr
      BY <2>7, <3>1
    <3>3. AllOf({})' = AllOf({})
      BY DEF AllOf
    <3>4. (Asking => Asking') /\ (Copying => Copying') /\ (Refused => Refused') /\ (Sending => Sending')
      BY <3>2, <3>3 DEF Asking, Copying, Refused, Sending
    <3>5. (Confirmed => Confirmed') /\ (Announced => Announced')
      BY <3>2, <3>3 DEF Confirmed, Announced
    <3>6. Arriving => Arriving'
      BY <1>2, <3>2 DEF Arriving, AllOf
    <3>7. QED
      BY <2>7, <3>1, <3>4, <3>5, <3>6
  <2>9. Answered => Answered'
    <3>1. Answered => svr' = svr
      BY DEF Answered
    <3>2. QED
      BY <2>7, <3>1 DEF Answered
  <2>10. v["gui"] = "ping" =>
           \/ Answered'
           \/ /\ inbox'["gui"] = <<>>
              /\ \A i \in DOMAIN backlog' :
                   IsMine(backlog'[i], "gui") => backlog'[i].msgs = <<[type |-> "Ping"]>>
    BY <2>1, <2>2, <2>4, <2>9 DEF Conversation
  <2>11. \A i, j \in DOMAIN backlog' : IsMine(backlog'[i], "gui") /\ IsMine(backlog'[j], "gui") => i = j
    BY <2>1, <2>2, <2>4 DEF Conversation
  <2>12. v["gui"] \in {"idle", "abort"} => \A i \in DOMAIN backlog' : ~IsMine(backlog'[i], "gui")
    BY <2>1, <2>2, <2>4 DEF Conversation
  <2>13. svr' \in {"recv", "range"} => backlog' # <<>>
    BY <2>1, <2>5 DEF Conversation
  <2>14. svr' = "range" => Current'.who = "range"
    BY <2>1, <2>5, <2>6 DEF Conversation
  <2>15. (\A k \in Viewers : ~broken'[k]) /\ (svr' \in {"lock", "merge", "send", "next"} => v["gui"] = "recv")
    BY <2>1 DEF Conversation
  <2>16. QED
    BY <2>2, <2>8, <2>10, <2>11, <2>12, <2>13, <2>14, <2>15 DEF Conversation
<1>7. QED
  BY <1>3, <1>4, <1>5, <1>6 DEF LInv

LEMMA ConnWith ==
  ASSUME NEW x, NEW a, NEW b, NEW c, x = [who |-> a, msgs |-> b, open |-> c], NEW y
  PROVE  /\ [x EXCEPT !.msgs = y] = [who |-> a, msgs |-> y, open |-> c]
         /\ [x EXCEPT !.open = FALSE] = [who |-> a, msgs |-> b, open |-> FALSE]
<1>1. [x EXCEPT !.msgs = y] = [who |-> a, msgs |-> y, open |-> c]
  OBVIOUS
<1>2. \A z : [x EXCEPT !.open = z] = [who |-> a, msgs |-> b, open |-> z]
  OBVIOUS
<1>3. [x EXCEPT !.open = FALSE] = [who |-> a, msgs |-> b, open |-> FALSE]
  BY <1>2, Zenon
<1>4. QED
  BY <1>1, <1>3, Zenon

LEMMA HangsUp ==
  ASSUME Conversation, NEW K, K \subseteq Viewers, Hangup(K),
         "gui" \in K => \A i \in 1..Len(backlog) :
                          IsMine(backlog[i], "gui") => backlog[i].msgs \in Seq([type : {"Ping"}])
  PROVE  /\ backlog' \in Seq(Conns) /\ Len(backlog') = Len(backlog)
         /\ \A i \in 1..Len(backlog) :
              /\ backlog'[i].who = backlog[i].who
              /\ backlog[i].who \notin K => backlog'[i] = backlog[i]
              /\ backlog[i].who \in K => ~backlog'[i].open
<1>1. backlog \in Seq(Conns) /\ Len(backlog) \in Nat /\ DOMAIN backlog = 1..Len(backlog)
      /\ \A i \in 1..Len(backlog) : backlog[i] \in Conns
  BY DEF Conversation
<1>2. backlog' = [i \in 1..Len(backlog) |->
                    IF backlog[i].who \in K THEN [backlog[i] EXCEPT !.open = FALSE] ELSE backlog[i]]
  BY <1>1 DEF Hangup
<1>3. ASSUME NEW i \in 1..Len(backlog)
      PROVE  /\ backlog'[i] \in Conns /\ backlog'[i].who = backlog[i].who
             /\ backlog[i].who \notin K => backlog'[i] = backlog[i]
             /\ backlog[i].who \in K => ~backlog'[i].open
  <2>1. CASE backlog[i].who \notin K
    BY <1>1, <1>2, <2>1
  <2>2. CASE backlog[i].who \in K
    <3> DEFINE x == backlog[i]
    <3>1. x \in Conns /\ x = [who |-> x.who, msgs |-> x.msgs, open |-> x.open]
      BY <1>1, ConnIs
    <3>2. backlog'[i] = [x EXCEPT !.open = FALSE]
      BY <1>2, <2>2
    <3>3. x.who = "gui" => x.msgs \in Seq([type : {"Ping"}])
      <4>1. CASE x.open
        BY <1>3, <2>2, <4>1 DEF IsMine
      <4>2. CASE ~x.open
        BY <3>1, <4>2, ConnIs
      <4>3. QED
        BY <4>1, <4>2
    <3>4. x.who = "range" => x.msgs \in Seq([type : {"Ping", "Spill"}])
      BY <3>1, ConnIs
    <3>5. x.who \in {"gui", "range"}
      BY <2>2 DEF Viewers
    <3> HIDE DEF x
    <3>6. [x EXCEPT !.open = FALSE] = [who |-> x.who, msgs |-> x.msgs, open |-> FALSE]
      BY <3>1, ConnWith
    <3>7. [who |-> x.who, msgs |-> x.msgs, open |-> FALSE] \in Conns
      BY <3>3, <3>4, <3>5 DEF Conns
    <3>8. QED
      BY <2>2, <3>2, <3>6, <3>7 DEF x
  <2>3. QED
    BY <2>1, <2>2
<1>4. backlog' \in Seq(Conns) /\ Len(backlog') = Len(backlog)
  BY <1>1, <1>2, <1>3
<1>5. QED
  BY <1>3, <1>4

LEMMA Puts ==
  ASSUME Conversation, NEW k \in Viewers, NEW msg, Put(k, msg),
         k = "gui" => msg \in [type : {"NEXT"}] \cup Asked,
         k = "range" => msg \in [type : {"Spill"}]
  PROVE  /\ backlog' \in Seq(Conns) /\ Len(backlog') = Len(backlog)
         /\ \A i \in 1..Len(backlog) :
              /\ backlog'[i].who = backlog[i].who
              /\ backlog'[i].open = backlog[i].open
              /\ ~IsMine(backlog[i], k) => backlog'[i] = backlog[i]
              /\ IsMine(backlog[i], k) => backlog'[i].msgs = Append(backlog[i].msgs, msg)
<1>1. backlog \in Seq(Conns) /\ Len(backlog) \in Nat /\ DOMAIN backlog = 1..Len(backlog)
      /\ \A i \in 1..Len(backlog) : backlog[i] \in Conns
  BY DEF Conversation
<1>2. backlog' = [i \in 1..Len(backlog) |->
                    IF IsMine(backlog[i], k)
                    THEN [backlog[i] EXCEPT !.msgs = Append(backlog[i].msgs, msg)] ELSE backlog[i]]
  BY <1>1 DEF Put
<1>3. ASSUME NEW i \in 1..Len(backlog)
      PROVE  /\ backlog'[i] \in Conns /\ backlog'[i].who = backlog[i].who
             /\ backlog'[i].open = backlog[i].open
             /\ ~IsMine(backlog[i], k) => backlog'[i] = backlog[i]
             /\ IsMine(backlog[i], k) => backlog'[i].msgs = Append(backlog[i].msgs, msg)
  <2>1. CASE ~IsMine(backlog[i], k)
    BY <1>1, <1>2, <2>1
  <2>2. CASE IsMine(backlog[i], k)
    <3> DEFINE x == backlog[i]
               q == Append(x.msgs, msg)
    <3>1. x \in Conns /\ x = [who |-> x.who, msgs |-> x.msgs, open |-> x.open]
      BY <1>1, ConnIs
    <3>2. backlog'[i] = [x EXCEPT !.msgs = q]
      BY <1>2, <2>2
    <3>3. x.who = k /\ x.open = TRUE /\ k \in {"gui", "range"}
      BY <2>2, <3>1, ConnIs DEF IsMine, Viewers
    <3>4. k = "gui" => q \in Seq([type : {"Ping", "NEXT"}] \cup Asked)
      <4>1. k = "gui" => x.msgs \in Seq([type : {"Ping", "NEXT"}] \cup Asked)
        BY <3>1, <3>3, ConnIs
      <4>2. k = "gui" => msg \in [type : {"Ping", "NEXT"}] \cup Asked
        OBVIOUS
      <4>3. QED
        BY <4>1, <4>2
    <3>5. k = "range" => q \in Seq([type : {"Ping", "Spill"}])
      <4>1. k = "range" => x.msgs \in Seq([type : {"Ping", "Spill"}])
        BY <3>1, <3>3, ConnIs
      <4>2. k = "range" => msg \in [type : {"Ping", "Spill"}]
        OBVIOUS
      <4>3. QED
        BY <4>1, <4>2
    <3> HIDE DEF x, q
    <3>6. [x EXCEPT !.msgs = q] = [who |-> k, msgs |-> q, open |-> TRUE]
      <4>1. [x EXCEPT !.msgs = q] = [who |-> x.who, msgs |-> q, open |-> x.open]
        BY <3>1, ConnWith
      <4>2. QED
        BY <3>3, <4>1
    <3>7. [who |-> k, msgs |-> q, open |-> TRUE] \in Conns
      BY <3>3, <3>4, <3>5 DEF Conns
    <3>8. QED
      BY <2>2, <3>2, <3>3, <3>6, <3>7 DEF x, q
  <2>3. QED
    BY <2>1, <2>2
<1>4. backlog' \in Seq(Conns) /\ Len(backlog') = Len(backlog)
  BY <1>1, <1>2, <1>3
<1>5. QED
  BY <1>3, <1>4

LEMMA LRange ==
  ASSUME LInv, ViewerThread("range")
  PROVE  LInv'
<1>1. UNCHANGED <<mainVars, alive, svr, job, list_h1, cut>>
  BY DEF ViewerThread
<1>2. v \in [Viewers -> {"idle", "ping", "recv", "abort"}] /\ DOMAIN inbox = Viewers
      /\ "range" \in Viewers /\ "gui" \in Viewers
  BY DEF LInv, Threads, Viewers
<1>3. \/ NoPong("range") \/ Ask("range") \/ Broken("range") \/ ReceiveRange
  BY DEF ViewerThread
<1>4. /\ \/ v' = v \/ v' = [v EXCEPT !["range"] = "idle"] \/ v' = [v EXCEPT !["range"] = "recv"]
      /\ inbox' = inbox \/ inbox' = [inbox EXCEPT !["range"] = Tail(inbox["range"])]
      /\ got' = got /\ broken' = broken
      /\ Hangup({"range"}) \/ Put("range", [type |-> "Spill"])
  BY <1>3 DEF NoPong, Ask, Broken, ReceiveRange, Answer
<1>5. v' \in [Viewers -> {"idle", "ping", "recv", "abort"}] /\ v'["gui"] = v["gui"]
  BY <1>2, <1>4
<1>6. DOMAIN inbox' = Viewers /\ inbox'["gui"] = inbox["gui"]
  BY <1>2, <1>4
<1>7. ASSUME Serving
      PROVE  /\ backlog' \in Seq(Conns) /\ Len(backlog') = Len(backlog)
             /\ \A i \in 1..Len(backlog) :
                  /\ backlog'[i].who = backlog[i].who
                  /\ IsMine(backlog'[i], "gui") <=> IsMine(backlog[i], "gui")
                  /\ IsMine(backlog[i], "gui") => backlog'[i] = backlog[i]
  <2>1. Conversation
    BY <1>7 DEF LInv
  <2>2. CASE Hangup({"range"})
    <3>1. {"range"} \subseteq Viewers /\ "gui" \notin {"range"}
      BY DEF Viewers
    <3>2. /\ backlog' \in Seq(Conns) /\ Len(backlog') = Len(backlog)
          /\ \A i \in 1..Len(backlog) :
               /\ backlog'[i].who = backlog[i].who
               /\ backlog[i].who \notin {"range"} => backlog'[i] = backlog[i]
      BY <2>1, <2>2, <3>1, HangsUp
    <3>3. QED
      BY <3>2 DEF IsMine
  <2>3. CASE Put("range", [type |-> "Spill"])
    <3>1. [type |-> "Spill"] \in [type : {"Spill"}]
      OBVIOUS
    <3>2. /\ backlog' \in Seq(Conns) /\ Len(backlog') = Len(backlog)
          /\ \A i \in 1..Len(backlog) :
               /\ backlog'[i].who = backlog[i].who
               /\ ~IsMine(backlog[i], "range") => backlog'[i] = backlog[i]
      BY <1>2, <2>1, <2>3, <3>1, Puts
    <3>3. QED
      BY <3>2 DEF IsMine
  <2>4. QED
    BY <1>4, <2>2, <2>3
<1>8. QED
  BY <1>1, <1>4, <1>5, <1>6, <1>7, OtherTalks

-----------------------------------------------------------------------------
(* The steps of the thread of the buttons.                                 *)

LEMMA Replied ==
  ASSUME LInv, inbox["gui"] # <<>>
  PROVE  /\ Head(inbox["gui"]) \in Replies(Exact)
         /\ Tail(inbox["gui"]) \in Seq(Replies(Exact))
BY DEF LInv, Sound

LEMMA GuiLeaves ==
  ASSUME LInv, NEW K, "gui" \in K, K \subseteq Viewers, Hangup(K),
         UNCHANGED <<mainVars, alive, svr, job, list_h1, cut, got, broken>>,
         v' \in [Viewers -> {"idle", "ping", "recv", "abort"}], v'["gui"] \in {"idle", "abort"},
         DOMAIN inbox' = Viewers, inbox'["gui"] \in Seq(Replies(Exact)),
         AbortOnlyWhenCutOff',
         Serving => /\ svr \notin {"lock", "merge", "send", "next"}
                    /\ \A i \in 1..Len(backlog) :
                         IsMine(backlog[i], "gui") => backlog[i].msgs \in Seq([type : {"Ping"}])
  PROVE  LInv'
<1>1. UNCHANGED <<pc, hm, mutex, spill_id, go_end>>
  BY DEF mainVars
<1>2. Exact' = Exact
  BY <1>1 DEF Exact
<1>3. Threads'
  BY <1>1 DEF LInv, Threads
<1>4. Sound'
  BY <1>2 DEF LInv, Sound
<1>5. ASSUME Serving' PROVE Conversation'
  <2>1. Conversation /\ Serving
    BY <1>5 DEF LInv, Serving
  <2>2. /\ backlog' \in Seq(Conns) /\ Len(backlog') = Len(backlog)
        /\ \A i \in 1..Len(backlog) :
             /\ backlog'[i].who = backlog[i].who
             /\ backlog[i].who \in K => ~backlog'[i].open
    BY <2>1, HangsUp
  <2>3. /\ backlog \in Seq(Conns) /\ Len(backlog) \in Nat
        /\ DOMAIN backlog' = 1..Len(backlog)
        /\ backlog # <<>> => backlog' # <<>> /\ 1 \in 1..Len(backlog)
    BY <2>1, <2>2 DEF Conversation
  <2>4. \A i \in 1..Len(backlog) : ~IsMine(backlog'[i], "gui")
    BY <2>2 DEF IsMine
  <2>5. svr = "range" => Current'.who = "range"
    <3>1. backlog # <<>> => Current = backlog[1] /\ Current' = backlog'[1]
      BY <2>1, <2>2, <2>3 DEF Current, Conversation
    <3>2. QED
      BY <2>1, <2>2, <2>3, <3>1 DEF Conversation
  <2>6. \A k \in Viewers : ~broken'[k]
    BY <2>1 DEF Conversation
  <2>7. svr \in {"recv", "range"} => backlog' # <<>>
    BY <2>1, <2>3 DEF Conversation
  <2>8. svr \notin {"lock", "merge", "send", "next"}
    BY <2>1
  <2>9. QED
    BY <2>2, <2>3, <2>4, <2>5, <2>6, <2>7, <2>8 DEF Conversation
<1>6. QED
  BY <1>3, <1>4, <1>5 DEF LInv

LEMMA LGuiLeaves ==
  ASSUME LInv, UNCHANGED <<mainVars, alive, svr, job, list_h1, cut>>,
         NoPong("gui") \/ Broken("gui") \/ Finished \/ NotReady
  PROVE  LInv'
<1>1. /\ v \in [Viewers -> {"idle", "ping", "recv", "abort"}] /\ DOMAIN inbox = Viewers
      /\ "range" \in Viewers /\ "gui" \in Viewers
      /\ {"gui"} \subseteq Viewers /\ "gui" \in {"gui"}
      /\ inbox["gui"] \in Seq(Replies(Exact))
  BY DEF LInv, Threads, Sound, Viewers
<1>2. Serving => Conversation
  BY DEF LInv
<1>3. Serving => \A i \in 1..Len(backlog) : i \in DOMAIN backlog
  BY <1>2 DEF Conversation
<1>4. UNCHANGED go_end
  BY DEF mainVars
<1>5. CASE NoPong("gui")
  <2>1. /\ v["gui"] = "ping" /\ inbox["gui"] = <<>> /\ Hangup({"gui"})
        /\ v' = [v EXCEPT !["gui"] = "idle"] /\ UNCHANGED <<inbox, broken, got>>
    BY <1>5 DEF NoPong
  <2>2. v' \in [Viewers -> {"idle", "ping", "recv", "abort"}] /\ v'["gui"] = "idle"
    BY <1>1, <2>1
  <2>3. AbortOnlyWhenCutOff'
    BY <2>2 DEF AbortOnlyWhenCutOff
  <2>4. Serving => /\ svr \notin {"lock", "merge", "send", "next"}
                   /\ \A i \in 1..Len(backlog) :
                        IsMine(backlog[i], "gui") => backlog[i].msgs \in Seq([type : {"Ping"}])
    <3> SUFFICES ASSUME Serving
                 PROVE  /\ svr \notin {"lock", "merge", "send", "next"}
                        /\ \A i \in 1..Len(backlog) :
                             IsMine(backlog[i], "gui") => backlog[i].msgs \in Seq([type : {"Ping"}])
      OBVIOUS
    <3>1. ~Answered
      BY <2>1 DEF Answered
    <3>2. \A i \in DOMAIN backlog :
            IsMine(backlog[i], "gui") => backlog[i].msgs = <<[type |-> "Ping"]>>
      BY <1>2, <2>1, <3>1 DEF Conversation
    <3>3. <<[type |-> "Ping"]>> \in Seq([type : {"Ping"}])
      OBVIOUS
    <3>4. QED
      BY <1>2, <1>3, <2>1, <3>2, <3>3 DEF Conversation
  <2>5. QED
    BY <1>1, <2>1, <2>2, <2>3, <2>4, GuiLeaves
<1>6. ASSUME Draw, inbox'["gui"] \in Seq(Replies(Exact)), DOMAIN inbox' = Viewers, UNCHANGED <<got, broken>>,
             Received = Names \/ ~alive \/ go_end \/ cut.names # Names,
             Serving => /\ svr \notin {"lock", "merge", "send", "next"}
                        /\ \A i \in 1..Len(backlog) :
                             IsMine(backlog[i], "gui") => backlog[i].msgs \in Seq([type : {"Ping"}])
      PROVE  LInv'
  <2>1. CASE Received = Names
    <3>1. Hangup({"gui"}) /\ v' = [v EXCEPT !["gui"] = "idle"]
      BY <1>6, <2>1 DEF Draw
    <3>2. v' \in [Viewers -> {"idle", "ping", "recv", "abort"}] /\ v'["gui"] = "idle"
      BY <1>1, <3>1
    <3>3. AbortOnlyWhenCutOff'
      BY <3>2 DEF AbortOnlyWhenCutOff
    <3>4. QED
      BY <1>1, <1>6, <3>1, <3>2, <3>3, GuiLeaves
  <2>2. CASE Received # Names
    <3>1. Hangup(Viewers) /\ v' = [k \in Viewers |-> "abort"]
      BY <1>6, <2>2 DEF Draw
    <3>2. v' \in [Viewers -> {"idle", "ping", "recv", "abort"}] /\ v'["gui"] = "abort"
      BY <1>1, <3>1
    <3>3. AbortOnlyWhenCutOff'
      BY <1>4, <1>6, <2>2 DEF AbortOnlyWhenCutOff
    <3>4. QED
      BY <1>1, <1>6, <3>1, <3>2, <3>3, GuiLeaves
  <2>3. QED
    BY <2>1, <2>2
<1>7. CASE Broken("gui")
  <2>1. broken["gui"] /\ UNCHANGED <<inbox, broken, got>>
    BY <1>7 DEF Broken
  <2>2. ~Serving
    BY <1>1, <1>2, <2>1 DEF Conversation
  <2>3. ~alive \/ go_end
    BY <2>2 DEF Serving, LInv, Threads
  <2>4. CASE Draw
    BY <1>1, <1>6, <2>1, <2>2, <2>3, <2>4
  <2>5. CASE v' = [v EXCEPT !["gui"] = "idle"] /\ Hangup({"gui"})
    <3>1. v' \in [Viewers -> {"idle", "ping", "recv", "abort"}] /\ v'["gui"] = "idle"
      BY <1>1, <2>5
    <3>2. AbortOnlyWhenCutOff'
      BY <3>1 DEF AbortOnlyWhenCutOff
    <3>3. QED
      BY <1>1, <2>1, <2>2, <2>5, <3>1, <3>2, GuiLeaves
  <2>6. QED
    BY <1>7, <2>4, <2>5 DEF Broken
<1>8. ASSUME v["gui"] = "recv", Serving, svr = "recv", Current.msgs = <<>>
      PROVE  /\ svr \notin {"lock", "merge", "send", "next"}
             /\ \A i \in 1..Len(backlog) :
                  IsMine(backlog[i], "gui") => backlog[i].msgs \in Seq([type : {"Ping"}])
  <2>1. backlog # <<>> /\ IsMine(Current, "gui") /\ backlog \in Seq(Conns)
    BY <1>2, <1>8 DEF Conversation
  <2>2. Current = backlog[1] /\ 1 \in DOMAIN backlog
    BY <2>1 DEF Current
  <2>3. \A i \in DOMAIN backlog : IsMine(backlog[i], "gui") => i = 1
    BY <1>2, <1>8, <2>1, <2>2 DEF Conversation
  <2>4. <<>> \in Seq([type : {"Ping"}])
    OBVIOUS
  <2>5. QED
    BY <1>3, <1>8, <2>2, <2>3, <2>4
<1>9. CASE Finished
  <2>1. /\ v["gui"] = "recv" /\ inbox["gui"] # <<>> /\ Head(inbox["gui"]).type = "Finished"
        /\ inbox' = [inbox EXCEPT !["gui"] = Tail(inbox["gui"])] /\ UNCHANGED <<broken, got>> /\ Draw
    BY <1>9 DEF Finished, Answer
  <2>2. inbox'["gui"] \in Seq(Replies(Exact)) /\ DOMAIN inbox' = Viewers
    BY <1>1, <2>1, Replied
  <2>3. Serving => Announced
    <3>1. <<>> # inbox["gui"]
      BY <2>1
    <3>2. \A h : Head(<<[type |-> "Hist", hist |-> h]>>).type # "Finished"
      OBVIOUS
    <3>3. Head(<<[type |-> "NotReady"]>>).type # "Finished"
      OBVIOUS
    <3>4. QED
      BY <1>2, <2>1, <3>2, <3>3
         DEF Conversation, Asking, Copying, Refused, Sending, Arriving, Confirmed
  <2>4. Serving => svr = "recv" /\ Current.msgs = <<>> /\ Received = cut.names
    <3>1. NamesOf(<<>>) = {}
      BY DEF NamesOf
    <3>2. Received = NamesOf(got)
      BY DEF Received, NamesOf
    <3>3. QED
      BY <2>3, <3>1, <3>2 DEF Announced, AllOf
  <2>5. Received = Names \/ ~alive \/ go_end \/ cut.names # Names
    BY <2>4 DEF Serving, LInv, Threads
  <2>6. QED
    BY <1>6, <1>8, <2>1, <2>2, <2>4, <2>5
<1>10. CASE NotReady
  <2>1. /\ v["gui"] = "recv" /\ inbox["gui"] # <<>> /\ Head(inbox["gui"]).type = "NotReady"
        /\ inbox' = [inbox EXCEPT !["gui"] = Tail(inbox["gui"])] /\ UNCHANGED <<broken, got>>
        /\ v' = [v EXCEPT !["gui"] = "idle"] /\ Hangup({"gui"})
    BY <1>10 DEF NotReady, Answer
  <2>2. inbox'["gui"] \in Seq(Replies(Exact)) /\ DOMAIN inbox' = Viewers
    BY <1>1, <2>1, Replied
  <2>3. Serving => Refused
    <3>1. \A h : Head(<<[type |-> "Hist", hist |-> h]>>).type # "NotReady"
      OBVIOUS
    <3>2. Head(<<[type |-> "Finished"]>>).type # "NotReady"
      OBVIOUS
    <3>3. QED
      BY <1>2, <2>1, <3>1, <3>2
         DEF Conversation, Asking, Copying, Announced, Sending, Arriving, Confirmed
  <2>4. v' \in [Viewers -> {"idle", "ping", "recv", "abort"}] /\ v'["gui"] = "idle"
    BY <1>1, <2>1
  <2>5. AbortOnlyWhenCutOff'
    BY <2>4 DEF AbortOnlyWhenCutOff
  <2>6. Serving => svr = "recv" /\ Current.msgs = <<>>
    BY <2>3 DEF Refused
  <2>7. QED
    BY <1>1, <1>8, <2>1, <2>2, <2>4, <2>5, <2>6, GuiLeaves
<1>11. QED
  BY <1>5, <1>7, <1>9, <1>10

LEMMA GuiPuts ==
  ASSUME Conversation, backlog # <<>>, IsMine(Current, "gui"), Current.msgs = <<>>,
         NEW msg \in [type : {"NEXT"}] \cup Asked, Put("gui", msg)
  PROVE  /\ backlog' \in Seq(Conns) /\ backlog' # <<>>
         /\ IsMine(Current, "gui")' /\ Current'.msgs = <<msg>>
         /\ \A i, j \in DOMAIN backlog' : IsMine(backlog'[i], "gui") /\ IsMine(backlog'[j], "gui") => i = j
<1>1. /\ backlog \in Seq(Conns) /\ Len(backlog) \in Nat /\ DOMAIN backlog = 1..Len(backlog)
      /\ 1 \in 1..Len(backlog) /\ Current = backlog[1]
  BY DEF Conversation, Current
<1>2. /\ backlog' \in Seq(Conns) /\ Len(backlog') = Len(backlog)
      /\ \A i \in 1..Len(backlog) :
           /\ backlog'[i].who = backlog[i].who
           /\ backlog'[i].open = backlog[i].open
           /\ IsMine(backlog[i], "gui") => backlog'[i].msgs = Append(backlog[i].msgs, msg)
  <2>1. "gui" \in Viewers /\ "gui" # "range"
    BY DEF Viewers
  <2>2. QED
    BY <2>1, Puts
<1>3. backlog' # <<>> /\ Current' = backlog'[1] /\ DOMAIN backlog' = 1..Len(backlog)
  BY <1>1, <1>2 DEF Current
<1>4. \A i \in 1..Len(backlog) : IsMine(backlog'[i], "gui") <=> IsMine(backlog[i], "gui")
  BY <1>2 DEF IsMine
<1>5. IsMine(Current', "gui")
  BY <1>1, <1>3, <1>4
<1>6. Current'.msgs = <<msg>>
  <2>1. Append(<<>>, msg) = <<msg>>
    OBVIOUS
  <2>2. backlog'[1].msgs = Append(backlog[1].msgs, msg)
    BY <1>1, <1>2
  <2>3. QED
    BY <1>1, <1>3, <2>1, <2>2
<1>7. QED
  BY <1>1, <1>2, <1>3, <1>4, <1>5, <1>6 DEF Conversation

LEMMA LAsk ==
  ASSUME LInv, UNCHANGED <<mainVars, alive, svr, job, list_h1, cut>>, Ask("gui")
  PROVE  LInv'
<1>1. /\ v \in [Viewers -> {"idle", "ping", "recv", "abort"}] /\ DOMAIN inbox = Viewers
      /\ "range" \in Viewers /\ "gui" \in Viewers /\ "gui" # "range"
  BY DEF LInv, Threads, Viewers
<1>2. /\ v["gui"] = "ping" /\ inbox["gui"] # <<>>
      /\ inbox' = [inbox EXCEPT !["gui"] = Tail(inbox["gui"])]
      /\ \E c \in Clients, r \in Requests :
           Put("gui", [type |-> "SUBSYS", of |-> c, lo |-> r[1], hi |-> r[2]])
      /\ v' = [v EXCEPT !["gui"] = "recv"] /\ got' = <<>> /\ broken' = broken
  BY <1>1 DEF Ask
<1>3. \E q \in Asked : Put("gui", q)
  <2>1. \A c \in Clients, r \in Requests :
          [type |-> "SUBSYS", of |-> c, lo |-> r[1], hi |-> r[2]] \in Asked
    BY DEF Asked
  <2>2. QED
    BY <1>2, <2>1
<1>4. UNCHANGED <<pc, hm, mutex, spill_id, go_end>>
  BY DEF mainVars
<1>5. Exact' = Exact
  BY <1>4 DEF Exact
<1>6. v' \in [Viewers -> {"idle", "ping", "recv", "abort"}] /\ v'["gui"] = "recv"
      /\ DOMAIN inbox' = Viewers /\ inbox'["gui"] = Tail(inbox["gui"])
  BY <1>1, <1>2
<1>7. Threads'
  BY <1>2, <1>4, <1>6 DEF LInv, Threads
<1>8. Sound'
  <2>1. inbox'["gui"] \in Seq(Replies(Exact))
    BY <1>2, <1>6, Replied
  <2>2. got' \in Seq(Exact) /\ list_h1' \in Seq(Exact)
    BY <1>2 DEF LInv, Sound
  <2>3. QED
    BY <1>5, <2>1, <2>2 DEF Sound
<1>9. AbortOnlyWhenCutOff'
  BY <1>6 DEF AbortOnlyWhenCutOff
<1>10. ASSUME Serving' PROVE Conversation'
  <2>1. Conversation
    BY <1>10 DEF LInv, Serving
  <2>2. Answered
    BY <1>2, <2>1 DEF Conversation
  <2>3. PICK q \in Asked : Put("gui", q)
    BY <1>3
  <2>4. /\ backlog' \in Seq(Conns) /\ backlog' # <<>>
        /\ IsMine(Current, "gui")' /\ Current'.msgs = <<q>>
        /\ \A i, j \in DOMAIN backlog' : IsMine(backlog'[i], "gui") /\ IsMine(backlog'[j], "gui") => i = j
    BY <2>1, <2>2, <2>3, GuiPuts DEF Answered
  <2>5. inbox'["gui"] = <<>>
    BY <1>6, <2>2 DEF Answered
  <2>6. Asking'
    BY <1>2, <2>2, <2>4, <2>5 DEF Asking, Answered
  <2>7. (\A k \in Viewers : ~broken'[k]) /\ svr' = "recv"
    BY <1>2, <2>1, <2>2 DEF Conversation, Answered
  <2>8. QED
    BY <1>6, <2>4, <2>6, <2>7 DEF Conversation
<1>11. QED
  BY <1>7, <1>8, <1>9, <1>10 DEF LInv

LEMMA LReceiveHist ==
  ASSUME LInv, UNCHANGED <<mainVars, alive, svr, job, list_h1, cut>>, ReceiveHist
  PROVE  LInv'
<1>1. /\ v \in [Viewers -> {"idle", "ping", "recv", "abort"}] /\ DOMAIN inbox = Viewers
      /\ "range" \in Viewers /\ "gui" \in Viewers /\ "gui" # "range"
  BY DEF LInv, Threads, Viewers
<1>2. /\ v["gui"] = "recv" /\ inbox["gui"] # <<>> /\ Head(inbox["gui"]).type = "Hist"
      /\ inbox' = [inbox EXCEPT !["gui"] = Tail(inbox["gui"])]
      /\ got' = Append(got, Head(inbox["gui"]).hist)
      /\ Put("gui", [type |-> "NEXT"]) /\ v' = v /\ broken' = broken
  BY DEF ReceiveHist, Answer
<1>3. UNCHANGED <<pc, hm, mutex, spill_id, go_end>>
  BY DEF mainVars
<1>4. Exact' = Exact
  BY <1>3 DEF Exact
<1>5. DOMAIN inbox' = Viewers /\ inbox'["gui"] = Tail(inbox["gui"])
  BY <1>1, <1>2
<1>6. Threads'
  BY <1>2, <1>3, <1>5 DEF LInv, Threads
<1>7. Sound'
  <2>1. inbox'["gui"] \in Seq(Replies(Exact))
    BY <1>2, <1>5, Replied
  <2>2. Head(inbox["gui"]).hist \in Exact
    <3>1. Head(inbox["gui"]) \in Replies(Exact)
      BY <1>2, Replied
    <3>2. QED
      BY <1>2, <3>1 DEF Replies
  <2>3. got \in Seq(Exact) /\ list_h1 \in Seq(Exact)
    BY DEF LInv, Sound
  <2>4. got' \in Seq(Exact)
    BY <1>2, <2>2, <2>3
  <2>5. QED
    BY <1>4, <2>1, <2>3, <2>4 DEF Sound
<1>8. AbortOnlyWhenCutOff'
  BY <1>2 DEF AbortOnlyWhenCutOff
<1>9. ASSUME Serving' PROVE Conversation'
  <2>1. Conversation
    BY <1>9 DEF LInv, Serving
  <2>2. Arriving
    <3>1. Head(<<[type |-> "NotReady"]>>).type # "Hist" /\ Head(<<[type |-> "Finished"]>>).type # "Hist"
      OBVIOUS
    <3>2. QED
      BY <1>2, <2>1, <3>1 DEF Conversation, Asking, Copying, Refused, Sending, Confirmed, Announced
  <2>3. PICK h \in Exact : inbox["gui"] = <<[type |-> "Hist", hist |-> h]>> /\ AllOf({h.name})
    BY <2>2 DEF Arriving
  <2>4. inbox'["gui"] = <<>> /\ got' = Append(got, h)
    BY <1>2, <1>5, <2>3
  <2>5. AllOf({})'
    <3>1. got \in Seq(Exact)
      BY DEF LInv, Sound
    <3>2. NamesOf(Append(got, h)) = NamesOf(got) \cup {h.name}
      BY <3>1, NamesOfAppend
    <3>3. NamesOf(got)' = NamesOf(got) \cup {h.name}
      BY <2>4, <3>2
    <3>4. QED
      BY <2>3, <3>3 DEF AllOf
  <2>6. backlog # <<>> /\ IsMine(Current, "gui") /\ Current.msgs = <<>> /\ svr = "next"
    BY <1>2, <2>1, <2>2 DEF Conversation, Arriving
  <2>7. /\ backlog' \in Seq(Conns) /\ backlog' # <<>>
        /\ IsMine(Current, "gui")' /\ Current'.msgs = <<[type |-> "NEXT"]>>
        /\ \A i, j \in DOMAIN backlog' : IsMine(backlog'[i], "gui") /\ IsMine(backlog'[j], "gui") => i = j
    <3>1. [type |-> "NEXT"] \in [type : {"NEXT"}] \cup Asked
      OBVIOUS
    <3>2. QED
      BY <1>2, <2>1, <2>6, <3>1, GuiPuts
  <2>8. Confirmed'
    BY <2>4, <2>5, <2>6, <2>7 DEF Confirmed
  <2>9. (\A k \in Viewers : ~broken'[k]) /\ svr' = "next" /\ v'["gui"] = "recv"
    BY <1>2, <2>1, <2>6 DEF Conversation
  <2>10. QED
    BY <2>7, <2>8, <2>9 DEF Conversation
<1>10. QED
  BY <1>6, <1>7, <1>8, <1>9 DEF LInv

-----------------------------------------------------------------------------
(* New connections, and the end of the decoder.                            *)

LEMMA Appends ==
  ASSUME Conversation, NEW x \in Conns, backlog' = Append(backlog, x)
  PROVE  /\ backlog' \in Seq(Conns) /\ backlog' # <<>>
         /\ Len(backlog) \in Nat /\ DOMAIN backlog = 1..Len(backlog)
         /\ DOMAIN backlog' = 1..(Len(backlog) + 1) /\ backlog'[Len(backlog) + 1] = x
         /\ \A i \in 1..Len(backlog) : backlog'[i] = backlog[i]
         /\ backlog # <<>> => Current' = Current
<1>1. backlog \in Seq(Conns)
  BY DEF Conversation
<1>2. Append(backlog, x) \in Seq(Conns) /\ Append(backlog, x) # <<>>
  BY <1>1
<1>3. backlog # <<>> => Head(Append(backlog, x)) = Head(backlog)
  BY <1>1
<1>4. QED
  BY <1>1, <1>2, <1>3 DEF Current

LEMMA OtherConnects ==
  ASSUME LInv, UNCHANGED <<mainVars, alive, svr, job, list_h1, got, cut>>,
         v' \in [Viewers -> {"idle", "ping", "recv", "abort"}], v'["gui"] = v["gui"],
         DOMAIN inbox' = Viewers, inbox'["gui"] = inbox["gui"],
         broken' \in [Viewers -> BOOLEAN], \A k \in Viewers : broken'[k] => broken[k],
         NEW x \in Conns, ~IsMine(x, "gui"), backlog' = Append(backlog, x)
  PROVE  LInv'
<1>1. UNCHANGED <<pc, hm, mutex, spill_id, go_end>>
  BY DEF mainVars
<1>2. Exact' = Exact
  BY <1>1 DEF Exact
<1>3. Threads'
  BY <1>1 DEF LInv, Threads
<1>4. Sound'
  BY <1>2 DEF LInv, Sound
<1>5. AbortOnlyWhenCutOff'
  BY <1>1 DEF LInv, AbortOnlyWhenCutOff
<1>6. ASSUME Serving' PROVE Conversation'
  <2>1. Conversation
    BY <1>6 DEF LInv, Serving
  <2> DEFINE n == Len(backlog)
  <2>2. /\ backlog' \in Seq(Conns) /\ backlog' # <<>> /\ n \in Nat /\ DOMAIN backlog = 1..n
        /\ DOMAIN backlog' = 1..(n + 1) /\ backlog'[n + 1] = x
        /\ \A i \in 1..n : backlog'[i] = backlog[i]
        /\ backlog # <<>> => Current' = Current
    BY <2>1, Appends
  <2> HIDE DEF n
  <2>3. \A i \in DOMAIN backlog' :
          IsMine(backlog'[i], "gui") => i \in DOMAIN backlog /\ backlog'[i] = backlog[i]
    <3>1. \A i \in 1..(n + 1) : i \in 1..n \/ i = n + 1
      BY <2>2
    <3>2. QED
      BY <2>2, <3>1
  <2>4. backlog # <<>> /\ IsMine(Current, "gui") => IsMine(Current', "gui")
    BY <2>2
  <2>5. v["gui"] = "recv" =>
          /\ IsMine(Current, "gui")'
          /\ (Asking \/ Copying \/ Refused \/ Sending \/ Arriving \/ Confirmed \/ Announced)'
    <3> SUFFICES ASSUME v["gui"] = "recv"
                 PROVE  /\ IsMine(Current, "gui")'
                        /\ (Asking \/ Copying \/ Refused \/ Sending \/ Arriving \/ Confirmed \/ Announced)'
      OBVIOUS
    <3>1. /\ backlog # <<>> /\ IsMine(Current, "gui")
          /\ Asking \/ Copying \/ Refused \/ Sending \/ Arriving \/ Confirmed \/ Announced
      BY <2>1 DEF Conversation
    <3>2. Current' = Current
      BY <2>2, <3>1
    <3>3. AllOf({})' = AllOf({})
      BY DEF AllOf
    <3>4. (Asking => Asking') /\ (Copying => Copying') /\ (Refused => Refused') /\ (Sending => Sending')
      BY <3>2, <3>3 DEF Asking, Copying, Refused, Sending
    <3>5. (Confirmed => Confirmed') /\ (Announced => Announced')
      BY <3>2, <3>3 DEF Confirmed, Announced
    <3>6. Arriving => Arriving'
      BY <1>2, <3>2 DEF Arriving, AllOf
    <3>7. QED
      BY <2>4, <3>1, <3>4, <3>5, <3>6
  <2>6. Answered => Answered'
    BY <2>2, <2>4 DEF Answered
  <2>7. v["gui"] = "ping" =>
          \/ Answered'
          \/ /\ inbox'["gui"] = <<>>
             /\ \A i \in DOMAIN backlog' :
                  IsMine(backlog'[i], "gui") => backlog'[i].msgs = <<[type |-> "Ping"]>>
    BY <2>1, <2>3, <2>6 DEF Conversation
  <2>8. \A i, j \in DOMAIN backlog' : IsMine(backlog'[i], "gui") /\ IsMine(backlog'[j], "gui") => i = j
    BY <2>1, <2>3 DEF Conversation
  <2>9. v["gui"] \in {"idle", "abort"} => \A i \in DOMAIN backlog' : ~IsMine(backlog'[i], "gui")
    BY <2>1, <2>3 DEF Conversation
  <2>10. svr = "range" => Current'.who = "range"
    BY <2>1, <2>2 DEF Conversation
  <2>11. (\A k \in Viewers : ~broken'[k]) /\ (svr \in {"lock", "merge", "send", "next"} => v["gui"] = "recv")
    BY <2>1 DEF Conversation
  <2>12. QED
    BY <2>2, <2>5, <2>7, <2>8, <2>9, <2>10, <2>11 DEF Conversation
<1>7. QED
  BY <1>3, <1>4, <1>5, <1>6 DEF LInv

LEMMA LConnect ==
  ASSUME LInv, NEW k \in Viewers, ViewerConnects(k)
  PROVE  LInv'
<1> DEFINE x == [who |-> k, msgs |-> <<[type |-> "Ping"]>>, open |-> TRUE]
<1>1. /\ v[k] = "idle" /\ backlog' = Append(backlog, x)
      /\ v' = [v EXCEPT ![k] = "ping"] /\ inbox' = [inbox EXCEPT ![k] = <<>>]
      /\ broken' = [broken EXCEPT ![k] = FALSE] /\ got' = got
      /\ UNCHANGED <<mainVars, alive, svr, job, list_h1, cut>>
  BY DEF ViewerConnects, Connect, Connection
<1>2. /\ v \in [Viewers -> {"idle", "ping", "recv", "abort"}] /\ DOMAIN inbox = Viewers
      /\ broken \in [Viewers -> BOOLEAN]
      /\ k \in {"gui", "range"} /\ "gui" \in Viewers /\ "gui" # "range"
  BY DEF LInv, Threads, Viewers
<1>3. x \in Conns
  <2>1. /\ <<[type |-> "Ping"]>> \in Seq([type : {"Ping", "NEXT"}] \cup Asked)
        /\ <<[type |-> "Ping"]>> \in Seq([type : {"Ping", "Spill"}])
    OBVIOUS
  <2>2. QED
    BY <1>2, <2>1 DEF Conns
<1>4. /\ v' \in [Viewers -> {"idle", "ping", "recv", "abort"}] /\ DOMAIN inbox' = Viewers
      /\ broken' \in [Viewers -> BOOLEAN] /\ \A j \in Viewers : broken'[j] => broken[j]
  BY <1>1, <1>2
<1>5. CASE k = "range"
  <2>1. v'["gui"] = v["gui"] /\ inbox'["gui"] = inbox["gui"]
    BY <1>1, <1>2, <1>5
  <2>2. ~IsMine(x, "gui")
    BY <1>2, <1>5 DEF IsMine
  <2> HIDE DEF x
  <2>3. QED
    BY <1>1, <1>3, <1>4, <2>1, <2>2, OtherConnects
<1>6. CASE k = "gui"
  <2>1. v["gui"] = "idle" /\ v'["gui"] = "ping" /\ inbox'["gui"] = <<>>
    BY <1>1, <1>2, <1>6
  <2>2. UNCHANGED <<pc, hm, mutex, spill_id, go_end>>
    BY <1>1 DEF mainVars
  <2>3. Exact' = Exact
    BY <1>1, <2>2 DEF Exact
  <2>4. Threads'
    BY <1>1, <1>4, <2>2 DEF LInv, Threads
  <2>5. Sound'
    BY <1>1, <2>1, <2>3 DEF LInv, Sound
  <2>6. AbortOnlyWhenCutOff'
    BY <2>1 DEF AbortOnlyWhenCutOff
  <2>7. ASSUME Serving' PROVE Conversation'
    <3>1. Conversation
      BY <1>1, <2>7 DEF LInv, Serving
    <3> DEFINE n == Len(backlog)
    <3> HIDE DEF x
    <3>2. /\ backlog' \in Seq(Conns) /\ backlog' # <<>> /\ n \in Nat /\ DOMAIN backlog = 1..n
          /\ DOMAIN backlog' = 1..(n + 1) /\ backlog'[n + 1] = x
          /\ \A i \in 1..n : backlog'[i] = backlog[i]
          /\ backlog # <<>> => Current' = Current
      BY <1>1, <1>3, <3>1, Appends
    <3> HIDE DEF n
    <3>3. \A i \in DOMAIN backlog' : IsMine(backlog'[i], "gui") => i = n + 1
      <4>1. \A i \in 1..n : ~IsMine(backlog[i], "gui")
        BY <2>1, <3>1, <3>2 DEF Conversation
      <4>2. \A i \in 1..(n + 1) : i \in 1..n \/ i = n + 1
        BY <3>2
      <4>3. QED
        BY <3>2, <4>1, <4>2
    <3>4. \A i, j \in DOMAIN backlog' : IsMine(backlog'[i], "gui") /\ IsMine(backlog'[j], "gui") => i = j
      BY <3>3
    <3>5. \A i \in DOMAIN backlog' :
            IsMine(backlog'[i], "gui") => backlog'[i].msgs = <<[type |-> "Ping"]>>
      <4>1. x.msgs = <<[type |-> "Ping"]>>
        BY DEF x
      <4>2. QED
        BY <3>2, <3>3, <4>1
    <3>6. (\A j \in Viewers : ~broken'[j]) /\ svr' = svr /\ svr \notin {"lock", "merge", "send", "next"}
      BY <1>1, <1>4, <2>1, <3>1 DEF Conversation
    <3>7. svr = "range" => Current'.who = "range"
      BY <3>1, <3>2 DEF Conversation
    <3>8. QED
      BY <2>1, <3>2, <3>4, <3>5, <3>6, <3>7 DEF Conversation
  <2>8. QED
    BY <2>4, <2>5, <2>6, <2>7 DEF LInv
<1>7. QED
  BY <1>2, <1>5, <1>6

LEMMA LAnother ==
  ASSUME LInv, AnotherDecoder
  PROVE  LInv'
<1> DEFINE x == [who |-> ANOTHER, msgs |-> <<[type |-> "Suicide"]>>, open |-> FALSE]
<1>1. backlog' = Append(backlog, x) /\ UNCHANGED <<mainVars, viewVars, alive, svr, ready, job, list_h1, cut>>
  BY DEF AnotherDecoder, Connection
<1>2. x \in Conns
  <2>1. <<[type |-> "Suicide"]>> \in Seq([type : {"Suicide"}])
    OBVIOUS
  <2>2. QED
    BY <2>1 DEF Conns
<1>3. ~IsMine(x, "gui")
  BY DEF IsMine
<1>4. UNCHANGED <<v, inbox, broken, got>>
  BY <1>1 DEF viewVars
<1>5. /\ v \in [Viewers -> {"idle", "ping", "recv", "abort"}] /\ DOMAIN inbox = Viewers
      /\ broken \in [Viewers -> BOOLEAN]
  BY DEF LInv, Threads
<1> HIDE DEF x
<1>6. QED
  BY <1>1, <1>2, <1>3, <1>4, <1>5, OtherConnects

LEMMA LGone ==
  ASSUME LInv, Gone
  PROVE  LInv'
<1>1. /\ ~alive' /\ broken' = [k \in Viewers |-> TRUE]
      /\ UNCHANGED <<pc, hm, mutex, spill_id, go_end, svr, job, list_h1, v, inbox, got, cut>>
  BY DEF Gone, mainVars
<1>2. Exact' = Exact
  BY <1>1 DEF Exact
<1>3. broken' \in [Viewers -> BOOLEAN]
  BY <1>1
<1>4. Threads'
  BY <1>1, <1>3 DEF LInv, Threads
<1>5. Sound'
  BY <1>1, <1>2 DEF LInv, Sound
<1>6. AbortOnlyWhenCutOff'
  BY <1>1 DEF AbortOnlyWhenCutOff
<1>7. ~Serving'
  BY <1>1 DEF Serving
<1>8. QED
  BY <1>4, <1>5, <1>6, <1>7 DEF LInv

-----------------------------------------------------------------------------
(* The steps of the server thread.                                         *)

LEMMA Consumes ==
  ASSUME Conversation, backlog # <<>>, Current.msgs # <<>>, Consume
  PROVE  /\ backlog' \in Seq(Conns) /\ backlog' # <<>> /\ Len(backlog') = Len(backlog)
         /\ Current'.msgs = Tail(Current.msgs)
         /\ IsMine(Current, "gui")' = IsMine(Current, "gui") /\ Current'.who = Current.who
         /\ \A i \in 1..Len(backlog) :
              /\ backlog'[i].who = backlog[i].who
              /\ IsMine(backlog'[i], "gui") <=> IsMine(backlog[i], "gui")
              /\ i # 1 => backlog'[i] = backlog[i]
         /\ \A i, j \in DOMAIN backlog' : IsMine(backlog'[i], "gui") /\ IsMine(backlog'[j], "gui") => i = j
<1> DEFINE x == Current
           q == Tail(x.msgs)
           y == [x EXCEPT !.msgs = q]
<1>1. /\ backlog \in Seq(Conns) /\ Len(backlog) \in Nat /\ DOMAIN backlog = 1..Len(backlog)
      /\ 1 \in 1..Len(backlog) /\ x = backlog[1] /\ x \in Conns
  BY DEF Conversation, Current
<1>2. x = [who |-> x.who, msgs |-> x.msgs, open |-> x.open] /\ x.who \in {"gui", "range", ANOTHER}
  BY <1>1, ConnIs
<1>3. y = [who |-> x.who, msgs |-> q, open |-> x.open]
  <2> HIDE DEF x, q
  <2>1. QED
    BY <1>2, ConnWith
<1>4. y \in Conns
  <2>1. x.msgs # <<>>
    OBVIOUS
  <2>2. x.who = "gui" => q \in Seq([type : {"Ping", "NEXT"}] \cup Asked)
    <3> HIDE DEF x
    <3>1. x.who = "gui" => x.msgs \in Seq([type : {"Ping", "NEXT"}] \cup Asked)
      BY <1>1, ConnIs
    <3>2. QED
      BY <2>1, <3>1
  <2>3. x.who = "gui" /\ ~x.open => q \in Seq([type : {"Ping"}])
    <3> HIDE DEF x
    <3>1. x.who = "gui" /\ ~x.open => x.msgs \in Seq([type : {"Ping"}])
      BY <1>1, ConnIs
    <3>2. QED
      BY <2>1, <3>1
  <2>4. x.who = "range" => q \in Seq([type : {"Ping", "Spill"}])
    <3> HIDE DEF x
    <3>1. x.who = "range" => x.msgs \in Seq([type : {"Ping", "Spill"}])
      BY <1>1, ConnIs
    <3>2. QED
      BY <2>1, <3>1
  <2>5. x.who = ANOTHER => q \in Seq([type : {"Suicide"}]) /\ x.open = FALSE
    <3> HIDE DEF x
    <3>1. x.who = ANOTHER => x.msgs \in Seq([type : {"Suicide"}]) /\ ~x.open /\ x.open \in BOOLEAN
      BY <1>1, ConnIs
    <3>2. QED
      BY <2>1, <3>1
  <2>6. x.open \in BOOLEAN
    BY <1>1, ConnIs
  <2> HIDE DEF x, q, y
  <2>7. QED
    BY <1>2, <1>3, <2>2, <2>3, <2>4, <2>5, <2>6 DEF Conns
<1>5. y.who = x.who /\ y.open = x.open /\ y.msgs = q
  BY <1>3
<1>6. backlog' = <<y>> \o Tail(backlog)
  BY DEF Consume
<1> HIDE DEF y, x, q
<1>7. /\ backlog' \in Seq(Conns) /\ Len(backlog') = Len(backlog) /\ backlog'[1] = y
      /\ \A i \in 1..Len(backlog) : i # 1 => backlog'[i] = backlog[i]
  BY <1>1, <1>4, <1>6
<1>8. backlog' # <<>> /\ Current' = y /\ DOMAIN backlog' = 1..Len(backlog)
  BY <1>1, <1>7 DEF Current
<1>9. \A i \in 1..Len(backlog) :
        /\ backlog'[i].who = backlog[i].who
        /\ IsMine(backlog'[i], "gui") <=> IsMine(backlog[i], "gui")
  BY <1>1, <1>5, <1>7 DEF IsMine
<1>10. \A i, j \in DOMAIN backlog' : IsMine(backlog'[i], "gui") /\ IsMine(backlog'[j], "gui") => i = j
  BY <1>1, <1>8, <1>9 DEF Conversation
<1>11. Current'.msgs = Tail(Current.msgs) /\ Current'.who = Current.who
  BY <1>5, <1>8 DEF x, q
<1>12. IsMine(Current, "gui")' = IsMine(Current, "gui")
  BY <1>5, <1>8 DEF x, IsMine
<1>13. QED
  BY <1>7, <1>8, <1>9, <1>10, <1>11, <1>12

LEMMA LStarts ==
  ASSUME LInv, UNCHANGED <<mainVars, alive>>, Boot \/ Accept
  PROVE  LInv'
<1>1. /\ UNCHANGED <<job, list_h1, v, inbox, broken, got, cut, backlog>>
      /\ svr \in {"boot", "bound", "accept"} /\ svr' \in {"bound", "accept", "recv"}
      /\ svr' = "recv" => backlog # <<>>
  BY DEF Boot, Accept, viewVars
<1>2. UNCHANGED <<pc, hm, mutex, spill_id, go_end>>
  BY DEF mainVars
<1>3. Exact' = Exact
  BY <1>1, <1>2 DEF Exact
<1>4. Threads' /\ Sound' /\ AbortOnlyWhenCutOff'
  BY <1>1, <1>2, <1>3 DEF LInv, Threads, Sound, AbortOnlyWhenCutOff
<1>5. ASSUME Serving' PROVE Conversation'
  <2>1. Conversation
    BY <1>1, <1>5 DEF LInv, Serving
  <2>2. v["gui"] # "recv" /\ ~Answered
    BY <1>1, <2>1
       DEF Conversation, Answered, Asking, Copying, Refused, Sending, Arriving, Confirmed, Announced
  <2>3. QED
    BY <1>1, <2>1, <2>2 DEF Conversation
<1>6. QED
  BY <1>4, <1>5 DEF LInv

(* The connection being handled, and the others behind it.                 *)
LEMMA CurrentIs ==
  ASSUME Conversation, backlog # <<>>
  PROVE  /\ backlog \in Seq(Conns) /\ Len(backlog) \in Nat /\ DOMAIN backlog = 1..Len(backlog)
         /\ 1 \in 1..Len(backlog) /\ Current = backlog[1] /\ Current \in Conns
         /\ \A i \in 1..Len(backlog) : IsMine(backlog[i], "gui") /\ IsMine(Current, "gui") => i = 1
BY DEF Conversation, Current

LEMMA LEndConnection ==
  ASSUME LInv, EndConnection,
         UNCHANGED <<spill_id, pc, mutex, hm, alive>>
  PROVE  LInv'
<1>1. /\ svr = "recv" /\ UNCHANGED <<job, list_h1, v, inbox, got, cut>>
      /\ Current.msgs # <<>> \/ ~Current.open
      /\ backlog' = Tail(backlog)
      /\ broken' = [k \in Viewers |-> broken[k] \/ IsMine(Current, k)]
  BY DEF EndConnection, CanRead, CloseConnection
<1>2. \/ svr' = "ended" /\ go_end' = TRUE
      \/ svr' = "accept" /\ go_end' = FALSE /\ go_end = FALSE /\ Current.msgs = <<>>
  <2> DEFINE s == Current.msgs # <<>> /\ Head(Current.msgs) = [type |-> "Suicide"]
  <2>1. /\ Current.msgs = <<>> \/ go_end \/ s
        /\ svr' = (IF go_end \/ s THEN "ended" ELSE "accept") /\ go_end' = (go_end \/ s)
    BY Zenon DEF EndConnection, CloseConnection
  <2>2. go_end \in BOOLEAN
    BY DEF LInv, Threads
  <2> HIDE DEF s
  <2>3. QED
    BY <2>1, <2>2
<1>3. Exact \subseteq Exact'
  BY <1>1, <1>2 DEF Exact, ExactFor
<1>4. Threads'
  <2>1. broken' \in [Viewers -> BOOLEAN]
    <3>1. broken \in [Viewers -> BOOLEAN]
      BY DEF LInv, Threads
    <3>2. \A k \in Viewers : IsMine(Current, k) \in BOOLEAN
      BY DEF IsMine
    <3>3. QED
      BY <1>1, <3>1, <3>2
  <2>2. QED
    BY <1>1, <1>2, <2>1 DEF LInv, Threads
<1>5. Sound'
  <2>1. Replies(Exact) \subseteq Replies(Exact')
    BY <1>3 DEF Replies
  <2>2. got \in Seq(Exact') /\ list_h1 \in Seq(Exact') /\ inbox["gui"] \in Seq(Replies(Exact'))
    BY <1>3, <2>1, SeqOfMore DEF LInv, Sound
  <2>3. QED
    BY <1>1, <2>2 DEF Sound
<1>6. AbortOnlyWhenCutOff'
  BY <1>1, <1>2 DEF LInv, AbortOnlyWhenCutOff
<1>7. ASSUME Serving' PROVE Conversation'
  <2>1. Conversation
    BY <1>1, <1>7 DEF LInv, Serving
  <2>2. svr' = "accept" /\ Current.msgs = <<>> /\ ~Current.open
    BY <1>1, <1>2, <1>7 DEF Serving
  <2>3. backlog # <<>>
    BY <1>1, <2>1 DEF Conversation
  <2>4. ~IsMine(Current, "gui") /\ ~IsMine(Current, "range")
    BY <2>2 DEF IsMine
  <2>5. \A k \in Viewers : ~broken'[k]
    BY <1>1, <2>1, <2>4 DEF Conversation, Viewers
  <2>6. v["gui"] # "recv" /\ ~Answered
    BY <2>1, <2>4 DEF Conversation, Answered
  <2>7. /\ backlog' \in Seq(Conns)
        /\ \A i \in DOMAIN backlog' : i + 1 \in DOMAIN backlog /\ backlog'[i] = backlog[i + 1]
        /\ \A i \in DOMAIN backlog' : i \in Int
    BY <1>1, <2>1, <2>3 DEF Conversation
  <2>8. \A i, j \in DOMAIN backlog' : IsMine(backlog'[i], "gui") /\ IsMine(backlog'[j], "gui") => i = j
    <3>1. SUFFICES ASSUME NEW i \in DOMAIN backlog', NEW j \in DOMAIN backlog',
                          IsMine(backlog'[i], "gui"), IsMine(backlog'[j], "gui")
                   PROVE  i = j
      OBVIOUS
    <3>2. i + 1 = j + 1
      BY <2>1, <2>7, <3>1 DEF Conversation
    <3>3. QED
      BY <2>7, <3>2
  <2>9. v["gui"] \in {"idle", "abort"} => \A i \in DOMAIN backlog' : ~IsMine(backlog'[i], "gui")
    BY <2>1, <2>7 DEF Conversation
  <2>10. v["gui"] = "ping" =>
           /\ inbox["gui"] = <<>>
           /\ \A i \in DOMAIN backlog' :
                IsMine(backlog'[i], "gui") => backlog'[i].msgs = <<[type |-> "Ping"]>>
    BY <2>1, <2>6, <2>7 DEF Conversation
  <2>11. QED
    BY <1>1, <2>2, <2>5, <2>6, <2>7, <2>8, <2>9, <2>10 DEF Conversation
<1>8. QED
  BY <1>4, <1>5, <1>6, <1>7 DEF LInv

LEMMA OtherReplied ==
  ASSUME LInv, ~IsMine(Current, "gui"), NEW msg, Reply(msg)
  PROVE  DOMAIN inbox' = Viewers /\ inbox'["gui"] = inbox["gui"]
<1>1. DOMAIN inbox = Viewers /\ "gui" \in Viewers
  BY DEF LInv, Threads, Viewers
<1>2. CASE Current.open /\ Current.who \in Viewers
  <2>1. inbox' = [inbox EXCEPT ![Current.who] = Append(inbox[Current.who], msg)] /\ Current.who # "gui"
    BY <1>2 DEF Reply, IsMine
  <2>2. QED
    BY <1>1, <2>1
<1>3. CASE ~(Current.open /\ Current.who \in Viewers)
  BY <1>1, <1>3 DEF Reply
<1>4. QED
  BY <1>2, <1>3

LEMMA GuiReplied ==
  ASSUME LInv, IsMine(Current, "gui"), inbox["gui"] = <<>>, NEW msg, Reply(msg)
  PROVE  DOMAIN inbox' = Viewers /\ inbox'["gui"] = <<msg>>
<1>1. DOMAIN inbox = Viewers /\ "gui" \in Viewers
  BY DEF LInv, Threads, Viewers
<1>2. inbox' = [inbox EXCEPT !["gui"] = Append(inbox["gui"], msg)]
  BY <1>1 DEF Reply, IsMine
<1>3. Append(<<>>, msg) = <<msg>>
  OBVIOUS
<1>4. QED
  BY <1>1, <1>2, <1>3

(* A message of somebody else.                                             *)
LEMMA OtherServed ==
  ASSUME LInv, Serving, UNCHANGED <<mainVars, alive, job, list_h1, v, got, cut, broken>>,
         svr = "recv", Current.msgs # <<>>, Consume, ~IsMine(Current, "gui"),
         svr' = "recv" \/ (svr' = "range" /\ Current.who = "range"),
         DOMAIN inbox' = Viewers, inbox'["gui"] = inbox["gui"]
  PROVE  LInv'
<1>1. Conversation /\ v \in [Viewers -> {"idle", "ping", "recv", "abort"}]
  BY DEF LInv, Threads
<1>2. backlog # <<>>
  BY <1>1 DEF Conversation
<1>3. Current = backlog[1]
  BY <1>1, <1>2, CurrentIs
<1>4. /\ backlog' \in Seq(Conns) /\ Len(backlog') = Len(backlog)
      /\ \A i \in 1..Len(backlog) :
           /\ backlog'[i].who = backlog[i].who
           /\ IsMine(backlog'[i], "gui") <=> IsMine(backlog[i], "gui")
           /\ i # 1 => backlog'[i] = backlog[i]
  BY <1>1, <1>2, Consumes
<1>5. \A i \in 1..Len(backlog) : IsMine(backlog[i], "gui") => backlog'[i] = backlog[i]
  BY <1>3, <1>4
<1>6. QED
  BY <1>1, <1>4, <1>5, OtherTalks

(* What the connection being handled may hold.                             *)
LEMMA Waiting ==
  ASSUME LInv, Serving, svr = "recv", Current.msgs # <<>>, IsMine(Current, "gui")
  PROVE  \/ v["gui"] = "ping" /\ inbox["gui"] = <<>> /\ Current.msgs = <<[type |-> "Ping"]>>
         \/ v["gui"] = "recv" /\ inbox["gui"] = <<>> /\ got = <<>> /\ \E q \in Asked : Current.msgs = <<q>>
<1>1. Conversation /\ v["gui"] \in {"idle", "ping", "recv", "abort"}
  BY DEF LInv, Threads, Viewers
<1>2. backlog # <<>>
  BY <1>1 DEF Conversation
<1>3. Current = backlog[1] /\ 1 \in DOMAIN backlog
  BY <1>1, <1>2, CurrentIs
<1>4. v["gui"] \notin {"idle", "abort"} /\ ~Answered
  BY <1>1, <1>3 DEF Conversation, Answered
<1>5. CASE v["gui"] = "ping"
  BY <1>1, <1>3, <1>4, <1>5 DEF Conversation
<1>6. CASE v["gui"] = "recv"
  BY <1>1, <1>6
     DEF Conversation, Asking, Copying, Refused, Sending, Arriving, Confirmed, Announced
<1>7. QED
  BY <1>1, <1>4, <1>5, <1>6

LEMMA LPing ==
  ASSUME LInv, alive, UNCHANGED mainVars, Ping
  PROVE  LInv'
<1>1. /\ svr = "recv" /\ Current.msgs # <<>> /\ Head(Current.msgs).type = "Ping" /\ Consume
      /\ Reply([type |-> "Pong"])
      /\ UNCHANGED <<alive, svr, ready, job, list_h1, v, broken, got, cut>>
  BY DEF Ping, Message
<1>2. Serving /\ Conversation
  BY <1>1 DEF LInv, Serving
<1>3. CASE ~IsMine(Current, "gui")
  <2>1. DOMAIN inbox' = Viewers /\ inbox'["gui"] = inbox["gui"]
    BY <1>1, <1>3, OtherReplied
  <2>2. QED
    BY <1>1, <1>2, <1>3, <2>1, OtherServed
<1>4. CASE IsMine(Current, "gui")
  <2>1. v["gui"] = "ping" /\ inbox["gui"] = <<>> /\ Current.msgs = <<[type |-> "Ping"]>>
    <3>1. \A q \in Asked : Head(<<q>>).type # "Ping"
      BY DEF Asked
    <3>2. QED
      BY <1>1, <1>2, <1>4, <3>1, Waiting
  <2>2. DOMAIN inbox' = Viewers /\ inbox'["gui"] = <<[type |-> "Pong"]>>
    BY <1>1, <1>4, <2>1, GuiReplied
  <2>3. UNCHANGED <<pc, hm, mutex, spill_id, go_end>>
    BY DEF mainVars
  <2>4. Exact' = Exact
    BY <1>1, <2>3 DEF Exact
  <2>5. Threads'
    BY <1>1, <2>2, <2>3 DEF LInv, Threads
  <2>6. Sound'
    <3>1. <<[type |-> "Pong"]>> \in Seq(Replies(Exact))
      BY DEF Replies
    <3>2. QED
      BY <1>1, <2>2, <2>4, <3>1 DEF LInv, Sound
  <2>7. AbortOnlyWhenCutOff'
    BY <1>1, <2>1 DEF AbortOnlyWhenCutOff
  <2>8. Conversation'
    <3>1. backlog # <<>>
      BY <1>1, <1>2 DEF Conversation
    <3>2. /\ backlog' \in Seq(Conns) /\ backlog' # <<>>
          /\ Current'.msgs = Tail(Current.msgs)
          /\ IsMine(Current, "gui")' = IsMine(Current, "gui")
          /\ \A i, j \in DOMAIN backlog' : IsMine(backlog'[i], "gui") /\ IsMine(backlog'[j], "gui") => i = j
      BY <1>1, <1>2, <3>1, Consumes
    <3>3. Tail(<<[type |-> "Ping"]>>) = <<>>
      OBVIOUS
    <3>4. Answered'
      BY <1>1, <1>4, <2>1, <2>2, <3>2, <3>3 DEF Answered
    <3>5. v'["gui"] = "ping" /\ svr' = "recv" /\ \A k \in Viewers : ~broken'[k]
      BY <1>1, <1>2, <2>1 DEF Conversation
    <3>6. QED
      BY <3>2, <3>4, <3>5 DEF Conversation
  <2>9. QED
    BY <2>5, <2>6, <2>7, <2>8 DEF LInv
<1>5. QED
  BY <1>3, <1>4

LEMMA LSpill ==
  ASSUME LInv, alive, UNCHANGED mainVars, Spill
  PROVE  LInv'
<1>1. /\ svr = "recv" /\ Current.msgs # <<>> /\ Head(Current.msgs).type = "Spill" /\ Consume
      /\ svr' = "range"
      /\ UNCHANGED <<alive, ready, job, list_h1, v, inbox, broken, got, cut>>
  BY DEF Spill, Message, viewVars
<1>2. Serving /\ Conversation /\ DOMAIN inbox = Viewers
  BY <1>1 DEF LInv, Serving, Threads
<1>3. Current.who = "range"
  <2>1. backlog # <<>>
    BY <1>1, <1>2 DEF Conversation
  <2>2. Current \in Conns
    BY <1>2, <2>1, CurrentIs
  <2>3. /\ Current.who \in {"gui", "range", ANOTHER}
        /\ Current.who = "gui" => Current.msgs \in Seq([type : {"Ping", "NEXT"}] \cup Asked)
        /\ Current.who = ANOTHER => Current.msgs \in Seq([type : {"Suicide"}])
    BY <2>2, ConnIs
  <2>4. Current.who # "gui"
    <3>1. \A m \in [type : {"Ping", "NEXT"}] \cup Asked : m.type # "Spill"
      BY DEF Asked
    <3>2. Current.who = "gui" => Head(Current.msgs) \in [type : {"Ping", "NEXT"}] \cup Asked
      BY <1>1, <2>3
    <3>3. QED
      BY <1>1, <3>1, <3>2
  <2>5. Current.who # ANOTHER
    <3>1. ASSUME NEW s \in Seq([type : {"Suicide"}]), s # <<>> PROVE Head(s).type = "Suicide"
      <4>1. Head(s) \in [type : {"Suicide"}]
        BY <3>1, HeadIn
      <4>2. QED
        BY <4>1
    <3>2. QED
      BY <1>1, <2>3, <3>1
  <2>6. QED
    BY <2>3, <2>4, <2>5
<1>4. ~IsMine(Current, "gui")
  BY <1>3 DEF IsMine
<1>5. QED
  BY <1>1, <1>2, <1>3, <1>4, OtherServed

LEMMA LSendRange ==
  ASSUME LInv, alive, UNCHANGED mainVars, SendRange
  PROVE  LInv'
<1> DEFINE msg == [type |-> "Range", min |-> SpillMin, max |-> SpillMax, sel |-> sp_sel]
<1>1. /\ svr = "range" /\ Reply(msg) /\ svr' = "recv"
      /\ UNCHANGED <<alive, ready, backlog, job, list_h1, v, broken, got, cut>>
  BY DEF SendRange
<1>2. Serving /\ Conversation /\ v \in [Viewers -> {"idle", "ping", "recv", "abort"}]
  BY <1>1 DEF LInv, Serving, Threads
<1>3. ~IsMine(Current, "gui")
  BY <1>1, <1>2 DEF Conversation, IsMine
<1> HIDE DEF msg
<1>4. DOMAIN inbox' = Viewers /\ inbox'["gui"] = inbox["gui"]
  BY <1>1, <1>3, OtherReplied
<1>5. /\ backlog' \in Seq(Conns) /\ Len(backlog') = Len(backlog)
      /\ \A i \in 1..Len(backlog) : backlog'[i] = backlog[i]
  BY <1>1, <1>2 DEF Conversation
<1>6. QED
  BY <1>1, <1>2, <1>3, <1>4, <1>5, OtherTalks

(* The steps of the server that serve the thread of the buttons.           *)
Heard ==
  /\ backlog \in Seq(Conns) /\ backlog # <<>> /\ IsMine(Current, "gui")
  /\ \A i, j \in DOMAIN backlog : IsMine(backlog[i], "gui") /\ IsMine(backlog[j], "gui") => i = j

Talking == Asking \/ Copying \/ Refused \/ Sending \/ Arriving \/ Confirmed \/ Announced

LEMMA GuiServed ==
  ASSUME LInv, Serving, UNCHANGED <<alive, v, broken>>, v["gui"] = "recv",
         Threads', Sound', Heard', Talking', svr' # "range"
  PROVE  LInv'
<1>1. AbortOnlyWhenCutOff'
  BY DEF AbortOnlyWhenCutOff
<1>2. Conversation'
  <2>1. Conversation
    BY DEF LInv
  <2>2. (\A k \in Viewers : ~broken'[k]) /\ v'["gui"] = "recv"
    BY <2>1 DEF Conversation
  <2>3. QED
    BY <2>2 DEF Conversation, Heard, Talking
<1>3. QED
  BY <1>1, <1>2 DEF LInv

LEMMA GuiHeard ==
  ASSUME LInv, Serving, v["gui"] = "recv"
  PROVE  /\ Conversation /\ Heard /\ Talking
         /\ Consume /\ Current.msgs # <<>> => Heard' /\ Current'.msgs = Tail(Current.msgs)
         /\ backlog' = backlog => Heard' /\ Current' = Current
<1>1. Conversation /\ Heard /\ Talking
  BY DEF LInv, Conversation, Heard, Talking
<1>2. ASSUME Consume, Current.msgs # <<>> PROVE Heard' /\ Current'.msgs = Tail(Current.msgs)
  <2>1. backlog # <<>>
    BY <1>1 DEF Heard
  <2>2. /\ backlog' \in Seq(Conns) /\ backlog' # <<>>
        /\ Current'.msgs = Tail(Current.msgs)
        /\ IsMine(Current, "gui")' = IsMine(Current, "gui")
        /\ \A i, j \in DOMAIN backlog' : IsMine(backlog'[i], "gui") /\ IsMine(backlog'[j], "gui") => i = j
    BY <1>1, <1>2, <2>1, Consumes
  <2>3. QED
    BY <1>1, <2>2 DEF Heard
<1>3. ASSUME backlog' = backlog PROVE Heard' /\ Current' = Current
  BY <1>1, <1>3 DEF Heard, Current
<1>4. QED
  BY <1>1, <1>2, <1>3

LEMMA LSubsys ==
  ASSUME LInv, alive, UNCHANGED mainVars, Subsys
  PROVE  LInv'
<1> DEFINE m == Head(Current.msgs)
<1>1. /\ svr = "recv" /\ Current.msgs # <<>> /\ m.type = "SUBSYS" /\ Consume
      /\ UNCHANGED <<alive, ready, list_h1, v, broken, got, cut>>
      /\ \/ Reply([type |-> "NotReady"]) /\ svr' = svr /\ job' = job
         \/ hm[m.of] # NULL /\ job' = m /\ svr' = "lock" /\ inbox' = inbox
  BY DEF Subsys, Message
<1>2. Serving /\ Conversation /\ DOMAIN inbox = Viewers
  BY <1>1 DEF LInv, Serving, Threads
<1>3. IsMine(Current, "gui")
  <2>1. backlog # <<>>
    BY <1>1, <1>2 DEF Conversation
  <2>2. Current \in Conns
    BY <1>2, <2>1, CurrentIs
  <2>3. /\ Current.who \in {"gui", "range", ANOTHER}
        /\ Current.who = "gui" /\ ~Current.open => Current.msgs \in Seq([type : {"Ping"}])
        /\ Current.who = "range" => Current.msgs \in Seq([type : {"Ping", "Spill"}])
        /\ Current.who = ANOTHER => Current.msgs \in Seq([type : {"Suicide"}])
    BY <2>2, ConnIs
  <2>4. \A t : t \in [type : {"Ping"}] \cup [type : {"Ping", "Spill"}] \cup [type : {"Suicide"}]
                 => t.type # "SUBSYS"
    OBVIOUS
  <2>5. /\ Current.msgs \in Seq([type : {"Ping"}]) => m \in [type : {"Ping"}]
        /\ Current.msgs \in Seq([type : {"Ping", "Spill"}]) => m \in [type : {"Ping", "Spill"}]
        /\ Current.msgs \in Seq([type : {"Suicide"}]) => m \in [type : {"Suicide"}]
    BY <1>1, HeadIn
  <2> HIDE DEF m
  <2>6. QED
    BY <1>1, <2>3, <2>4, <2>5 DEF IsMine
<1>4. PICK q \in Asked : v["gui"] = "recv" /\ inbox["gui"] = <<>> /\ got = <<>> /\ Current.msgs = <<q>>
  <2>1. Head(<<[type |-> "Ping"]>>).type # "SUBSYS"
    OBVIOUS
  <2>2. QED
    BY <1>1, <1>2, <1>3, <2>1, Waiting
<1>5. m = q /\ q.of \in Clients /\ Heard' /\ Current'.msgs = <<>>
  <2>1. Head(<<q>>) = q /\ Tail(<<q>>) = <<>>
    OBVIOUS
  <2>2. q.of \in Clients
    BY DEF Asked
  <2>3. Heard' /\ Current'.msgs = Tail(Current.msgs)
    BY <1>1, <1>2, <1>4, GuiHeard
  <2>4. QED
    BY <1>4, <2>1, <2>2, <2>3
<1> HIDE DEF m
<1>6. UNCHANGED <<pc, hm, mutex, spill_id, go_end>>
  BY DEF mainVars
<1>7. Exact' = Exact
  BY <1>1, <1>6 DEF Exact
<1>8. CASE Reply([type |-> "NotReady"]) /\ svr' = svr /\ job' = job
  <2>1. DOMAIN inbox' = Viewers /\ inbox'["gui"] = <<[type |-> "NotReady"]>>
    BY <1>3, <1>4, <1>8, GuiReplied
  <2>2. Threads'
    BY <1>1, <1>6, <1>8, <2>1 DEF LInv, Threads
  <2>3. Sound'
    <3>1. <<[type |-> "NotReady"]>> \in Seq(Replies(Exact))
      BY DEF Replies
    <3>2. QED
      BY <1>1, <1>7, <2>1, <3>1 DEF LInv, Sound
  <2>4. Talking'
    BY <1>1, <1>5, <1>8, <2>1 DEF Talking, Refused
  <2>5. QED
    BY <1>1, <1>2, <1>4, <1>5, <1>8, <2>2, <2>3, <2>4, GuiServed
<1>9. CASE hm[m.of] # NULL /\ job' = m /\ svr' = "lock" /\ inbox' = inbox
  <2>1. Threads'
    BY <1>1, <1>2, <1>5, <1>6, <1>9 DEF LInv, Threads
  <2>2. Sound'
    BY <1>1, <1>7, <1>9 DEF LInv, Sound
  <2>3. Talking'
    BY <1>1, <1>4, <1>5, <1>9 DEF Talking, Copying
  <2>4. QED
    BY <1>1, <1>2, <1>4, <1>5, <1>9, <2>1, <2>2, <2>3, GuiServed
<1>10. QED
  BY <1>1, <1>8, <1>9

LEMMA LLockForSend ==
  ASSUME LInv, alive, LockForSend, UNCHANGED <<spill_id, pc, hm, go_end>>
  PROVE  LInv'
<1>1. /\ svr = "lock" /\ svr' = "merge" /\ mutex' = "server"
      /\ UNCHANGED <<alive, backlog, job, list_h1, v, inbox, broken, got, cut>>
  BY DEF LockForSend, viewVars
<1>2. Serving
  BY <1>1 DEF Serving
<1>3. v["gui"] = "recv"
  BY <1>1, <1>2 DEF LInv, Conversation
<1>4. Talking /\ Heard' /\ Current' = Current
  BY <1>1, <1>2, <1>3, GuiHeard
<1>5. Exact' = Exact
  BY <1>1 DEF Exact
<1>6. Threads' /\ Sound'
  BY <1>1, <1>5 DEF LInv, Threads, Sound
<1>7. Talking'
  BY <1>1, <1>4 DEF Talking, Copying, Asking, Refused, Sending, Arriving, Confirmed, Announced
<1>8. QED
  BY <1>1, <1>2, <1>3, <1>4, <1>6, <1>7, GuiServed

(* One copy of each histogram registered.                                  *)
LEMMA OneOfEach ==
  ASSUME NEW N \in {{}, {"add"}, Names}, NEW E, NEW s, s = [i \in 1..Cardinality(N) |-> s[i]],
         \A i \in 1..Cardinality(N) : s[i].name = <<"add", "upd">>[i]
                                      /\ (<<"add", "upd">>[i] \in N => s[i] \in E)
  PROVE  s \in Seq(E) /\ NamesOf(s) = N
<1> DEFINE n == Cardinality(N)
<1>1. /\ Cardinality({}) = 0 /\ Cardinality({"add"}) = 1 /\ Cardinality(Names) = 2
  <2>1. IsFiniteSet({"add"}) /\ Cardinality({"add"}) = 1
    BY FS_Singleton
  <2>2. Cardinality({"add"} \cup {"upd"}) = 2
    <3>1. Cardinality({"add"} \cup {"upd"}) = 1 + 1
      BY <2>1, FS_AddElement, "upd" \notin {"add"}
    <3>2. QED
      BY <3>1
  <2>3. {"add"} \cup {"upd"} = Names
    BY DEF Names
  <2>4. QED
    BY <2>1, <2>2, <2>3, FS_EmptySet
<1>2. \/ N = {} /\ n = 0
      \/ N = {"add"} /\ n = 1
      \/ N = Names /\ n = 2
  BY <1>1
<1> HIDE DEF n
<1>3. n \in Nat /\ s = [i \in 1..n |-> s[i]]
  BY <1>2 DEF n
<1>4. <<"add", "upd">>[1] = "add" /\ <<"add", "upd">>[2] = "upd"
  OBVIOUS
<1>5. \A i \in 1..n : <<"add", "upd">>[i] \in N
  BY <1>2, <1>4 DEF Names
<1>6. \A i \in 1..n : s[i].name = <<"add", "upd">>[i] /\ s[i] \in E
  BY <1>5 DEF n
<1>7. s \in Seq(E)
  <2>1. s \in [1..n -> E]
    BY <1>3, <1>6
  <2>2. n \in Nat
    BY <1>3
  <2>3. \A m \in Nat : \A t \in [1..m -> E] : t \in Seq(E)
    OBVIOUS
  <2>4. QED
    BY <2>1, <2>2, <2>3
<1>8. NamesOf(s) = N
  <2>1. DOMAIN s = 1..n
    BY <1>3
  <2>2. CASE N = {} /\ n = 0
    BY <2>1, <2>2 DEF NamesOf
  <2>3. CASE N = {"add"} /\ n = 1
    BY <1>4, <1>6, <2>1, <2>3 DEF NamesOf
  <2>4. CASE N = Names /\ n = 2
    <3>1. DOMAIN s = {1, 2} /\ s[1].name = "add" /\ s[2].name = "upd"
      BY <1>4, <1>6, <2>1, <2>4
    <3>2. QED
      BY <2>4, <3>1 DEF NamesOf, Names
  <2>5. QED
    BY <1>2, <2>2, <2>3, <2>4
<1>9. QED
  BY <1>7, <1>8

(* While the mutex is held, the main thread is among the histograms only   *)
(* before they are all registered, and at the end.                         *)
LEMMA TornOnly ==
  ASSUME IInv, MInv, LInv, HistRace
  PROVE  go_end = TRUE \/ registered[job.of] # Names
<1>1. /\ svr = "merge" /\ pc \in {"event", "disabled", "initRun", "end", "endDisabled"}
      /\ cli = job.of
  BY DEF HistRace, MainThreadIn
<1>2. pc \notin {"event", "disabled"}
  BY <1>1 DEF IInv, LockHeld
<1>3. pc = "initRun" => registered[cli] = registered[cli] \ {"upd"}
  BY DEF IInv, Switches, MInv, Progress
<1>4. "upd" \in Names
  BY DEF Names
<1>5. pc \in {"end", "endDisabled"} => go_end = TRUE
  BY DEF LInv, Threads
<1>6. QED
  BY <1>1, <1>2, <1>3, <1>4, <1>5

LEMMA LMerge ==
  ASSUME IInv, MInv, LInv, alive, Merge, UNCHANGED <<spill_id, pc, hm, go_end>>
  PROVE  LInv'
<1> DEFINE c == job.of
           last == job.lo > 0 /\ job.hi = 0
           lo == IF last THEN SpillMax - job.lo + 1 ELSE job.lo
           hi == IF last THEN SpillMax ELSE job.hi
           merged == IF make_sp_hist[c] THEN MergedHist(sp_hist[c], hm[c], lo, hi) ELSE hm[c]
           names == <<"add", "upd">>
           shows == Shows(spill_id, Fills[c], make_sp_hist[c], lo, hi)
<1>1. /\ svr = "merge" /\ svr' = "send" /\ mutex' = "none"
      /\ UNCHANGED <<alive, backlog, job, v, inbox, broken, got>>
  BY DEF Merge, viewVars
<1>2. list_h1' = [i \in 1..Cardinality(registered[c]) |->
                    [name |-> names[i], hist |-> IF HistRace THEN TORN ELSE merged[names[i]]]]
  BY DEF Merge
<1>3. cut' = [of |-> c, lo |-> lo, hi |-> hi, n |-> FilledBy(c),
              apart |-> make_sp_hist[c], names |-> registered[c]]
  BY DEF Merge
<1>4. c \in Clients /\ hm[c] # NULL
  BY <1>1 DEF LInv, Threads
<1>5. Serving
  BY <1>1 DEF Serving
<1>6. v["gui"] = "recv"
  BY <1>1, <1>5 DEF LInv, Conversation
<1>7. Talking /\ Heard' /\ Current' = Current
  BY <1>1, <1>5, <1>6, GuiHeard
<1>8. Copying
  BY <1>1, <1>7 DEF Talking, Asking, Refused, Sending, Arriving, Confirmed, Announced
<1>9. registered[c] \in {{}, {"add"}, Names}
  BY <1>4 DEF IInv, Registering
<1>10. merged = shows /\ Fills[c] \in Nat /\ FilledBy(c) = Fills[c]
  <2>1. Fills[c] \in 0..Len(spill_id) /\ FilledBy(c) = Fills[c] /\ Len(spill_id) \in Nat
    BY <1>4, FillsAre, Numbers DEF IInv, Switches, MInv, Fills
  <2>2. Fills[c] \in Nat /\ Fills[c] <= Len(spill_id)
    BY <2>1
  <2>3. /\ Holds(spill_id, Fills[c], hm[c], sp_hist[c], spill_id_pre[c], make_sp_hist[c])
        /\ spill_id \in SpillRuns /\ make_sp_hist[c] \in BOOLEAN
    BY <1>4 DEF MInv, Counted, Progress, IInv, Switches
  <2> HIDE DEF c, lo, hi
  <2>4. QED
    BY <1>4, <2>1, <2>2, <2>3, MergedShows
<1>11. shows.add \in [Events -> Nat] /\ shows.upd \in Nat
  BY <1>10, ShowsCounts
<1> HIDE DEF merged
<1>12. Shows(spill_id, cut'.n, cut'.apart, cut'.lo, cut'.hi) = shows /\ cut'.names = registered[c]
  BY <1>3, <1>10
<1> HIDE DEF c, lo, hi, shows
<1>13. ASSUME NEW i \in 1..Cardinality(registered[c]), names[i] \in registered[c]
       PROVE  list_h1'[i] \in Exact'
  <2> DEFINE h == [name |-> names[i], hist |-> IF HistRace THEN TORN ELSE merged[names[i]]]
  <2>1. list_h1'[i] = h
    BY <1>2
  <2>2. names[i] \in Names
    BY <1>9, <1>13 DEF Names
  <2> HIDE DEF names
  <2>3. CASE HistRace
    <3>1. h = [name |-> names[i], hist |-> TORN]
      BY <2>3
    <3>2. h \in Copies
      BY <2>2, <3>1 DEF Copies
    <3>3. go_end' = TRUE \/ cut'.names # Names
      BY <1>12, <2>3, TornOnly DEF c
    <3> HIDE DEF h
    <3>4. h.hist = TORN
      BY <3>1
    <3>5. QED
      BY <2>1, <3>2, <3>3, <3>4 DEF Exact, ExactFor
  <2>4. CASE ~HistRace
    <3>1. h = [name |-> names[i], hist |-> shows[names[i]]]
      BY <1>10, <2>4
    <3>2. shows[names[i]] \in Nat \cup [Events -> Nat]
      BY <1>11, <2>2 DEF Names
    <3>3. shows[names[i]] # TORN
      BY <3>2, TornAssumption
    <3>4. h \in Copies
      BY <2>2, <3>1, <3>2 DEF Copies
    <3> HIDE DEF h
    <3>5. h.hist = shows[h.name] /\ h.hist # TORN
      BY <3>1, <3>3
    <3>6. QED
      BY <1>12, <2>1, <3>4, <3>5 DEF Exact, ExactFor
  <2>5. QED
    BY <2>3, <2>4
<1>14. list_h1' \in Seq(Exact') /\ NamesOf(list_h1') = registered[c]
  <2>1. list_h1' = [i \in 1..Cardinality(registered[c]) |-> list_h1'[i]]
    BY <1>2
  <2>2. \A i \in 1..Cardinality(registered[c]) : list_h1'[i].name = names[i]
    BY <1>2
  <2>3. QED
    BY <1>9, <1>13, <2>1, <2>2, OneOfEach
<1>15. Threads'
  BY <1>1 DEF LInv, Threads
<1>16. Sound'
  <2>1. inbox'["gui"] = <<>> /\ got' = <<>>
    BY <1>1, <1>8 DEF Copying
  <2>2. QED
    BY <1>14, <2>1 DEF Sound
<1>17. Talking'
  <2>1. NamesOf(got') = {}
    BY <1>1, <1>8 DEF Copying, NamesOf
  <2>2. AllOf({})'
    BY <1>12, <1>14, <2>1 DEF AllOf
  <2>3. QED
    BY <1>1, <1>7, <1>8, <2>2 DEF Talking, Sending, Copying
<1>18. QED
  BY <1>1, <1>5, <1>6, <1>7, <1>15, <1>16, <1>17, GuiServed

LEMMA LSendHist ==
  ASSUME LInv, alive, UNCHANGED mainVars, SendHist
  PROVE  LInv'
<1> DEFINE h == Head(list_h1)
           msg == [type |-> "Hist", hist |-> h]
<1>1. /\ svr = "send" /\ UNCHANGED <<alive, backlog, job, v, broken, got, cut>>
      /\ \/ list_h1 # <<>> /\ Reply(msg) /\ list_h1' = Tail(list_h1) /\ svr' = "next"
         \/ list_h1 = <<>> /\ Reply([type |-> "Finished"]) /\ svr' = "recv" /\ list_h1' = list_h1
  BY DEF SendHist
<1>2. Serving
  BY <1>1 DEF Serving
<1>3. v["gui"] = "recv"
  BY <1>1, <1>2 DEF LInv, Conversation
<1>4. Talking /\ Heard /\ Heard' /\ Current' = Current
  BY <1>1, <1>2, <1>3, GuiHeard
<1>5. Sending
  BY <1>1, <1>4 DEF Talking, Asking, Copying, Refused, Arriving, Confirmed, Announced
<1>6. IsMine(Current, "gui") /\ inbox["gui"] = <<>> /\ Current.msgs = <<>> /\ AllOf({})
  BY <1>4, <1>5 DEF Heard, Sending
<1>7. UNCHANGED <<pc, hm, mutex, spill_id, go_end>>
  BY DEF mainVars
<1>8. Exact' = Exact
  BY <1>1, <1>7 DEF Exact
<1>9. CASE list_h1 # <<>> /\ Reply(msg) /\ list_h1' = Tail(list_h1) /\ svr' = "next"
  <2>1. h \in Exact /\ list_h1 \in Seq(Exact) /\ list_h1' \in Seq(Exact)
    BY <1>9 DEF LInv, Sound
  <2> HIDE DEF h
  <2>2. DOMAIN inbox' = Viewers /\ inbox'["gui"] = <<msg>>
    <3> HIDE DEF msg
    <3>1. QED
      BY <1>6, <1>9, GuiReplied
  <2>3. Threads'
    BY <1>1, <1>7, <1>9, <2>2 DEF LInv, Threads
  <2>4. Sound'
    <3>1. <<msg>> \in Seq(Replies(Exact))
      BY <2>1 DEF Replies
    <3>2. QED
      BY <1>1, <1>8, <2>1, <2>2, <3>1 DEF LInv, Sound
  <2>5. NamesOf(got') \cup {h.name} \cup NamesOf(list_h1') = cut'.names
    <3>1. NamesOf(list_h1) = {h.name} \cup NamesOf(list_h1')
      BY <1>9, <2>1, NamesOfTail DEF h
    <3>2. QED
      BY <1>1, <1>6, <3>1 DEF AllOf
  <2>6. Talking'
    <3>1. \E x \in Exact' : /\ inbox'["gui"] = <<[type |-> "Hist", hist |-> x]>>
                            /\ NamesOf(got') \cup {x.name} \cup NamesOf(list_h1') = cut'.names
      BY <1>8, <2>1, <2>2, <2>5
    <3>2. QED
      BY <1>4, <1>6, <1>9, <3>1 DEF Talking, Arriving, AllOf
  <2>7. QED
    BY <1>1, <1>2, <1>3, <1>4, <1>9, <2>3, <2>4, <2>6, GuiServed
<1>10. CASE list_h1 = <<>> /\ Reply([type |-> "Finished"]) /\ svr' = "recv" /\ list_h1' = list_h1
  <2>1. DOMAIN inbox' = Viewers /\ inbox'["gui"] = <<[type |-> "Finished"]>>
    BY <1>6, <1>10, GuiReplied
  <2>2. Threads'
    BY <1>1, <1>7, <1>10, <2>1 DEF LInv, Threads
  <2>3. Sound'
    <3>1. <<[type |-> "Finished"]>> \in Seq(Replies(Exact))
      BY DEF Replies
    <3>2. QED
      BY <1>1, <1>8, <1>10, <2>1, <3>1 DEF LInv, Sound
  <2>4. Talking'
    <3>1. AllOf({})'
      BY <1>1, <1>6, <1>10 DEF AllOf
    <3>2. QED
      BY <1>4, <1>6, <1>10, <2>1, <3>1 DEF Talking, Announced
  <2>5. QED
    BY <1>1, <1>2, <1>3, <1>4, <1>10, <2>2, <2>3, <2>4, GuiServed
<1>11. QED
  BY <1>1, <1>9, <1>10

LEMMA LRecvNext ==
  ASSUME LInv, alive, UNCHANGED mainVars, RecvNext
  PROVE  LInv'
<1>1. /\ svr = "next" /\ svr' = "send" /\ (Current.msgs # <<>> \/ ~Current.open)
      /\ Current.msgs # <<>> => Consume
      /\ UNCHANGED <<alive, job, list_h1, v, inbox, broken, got, cut>>
  BY DEF RecvNext, CanRead, viewVars
<1>2. Serving
  BY <1>1 DEF Serving
<1>3. v["gui"] = "recv"
  BY <1>1, <1>2 DEF LInv, Conversation
<1>4. Talking /\ Heard
  BY <1>2, <1>3, GuiHeard
<1>5. Current.msgs # <<>> /\ Consume
  BY <1>1, <1>4 DEF Heard, IsMine
<1>6. Confirmed
  BY <1>1, <1>4, <1>5 DEF Talking, Asking, Copying, Refused, Sending, Arriving, Announced
<1>7. Heard' /\ Current'.msgs = Tail(Current.msgs)
  BY <1>2, <1>3, <1>5, GuiHeard
<1>8. UNCHANGED <<pc, hm, mutex, spill_id, go_end>>
  BY DEF mainVars
<1>9. Exact' = Exact
  BY <1>1, <1>8 DEF Exact
<1>10. Threads' /\ Sound'
  BY <1>1, <1>8, <1>9 DEF LInv, Threads, Sound
<1>11. Talking'
  <2>1. Tail(<<[type |-> "NEXT"]>>) = <<>>
    OBVIOUS
  <2>2. Current'.msgs = <<>>
    BY <1>6, <1>7, <2>1 DEF Confirmed
  <2>3. AllOf({})'
    BY <1>1, <1>6 DEF Confirmed, AllOf
  <2>4. QED
    BY <1>1, <1>6, <2>2, <2>3 DEF Talking, Sending, Confirmed
<1>12. QED
  BY <1>1, <1>2, <1>3, <1>7, <1>10, <1>11, GuiServed

-----------------------------------------------------------------------------
(* Every step.                                                             *)

LEMMA LInit == Init => LInv
<1> SUFFICES ASSUME Init PROVE LInv
  OBVIOUS
<1>1. /\ svr \in {"boot", "none"} /\ mutex = "none" /\ pc = "first" /\ go_end = FALSE
      /\ v = [k \in Viewers |-> "idle"] /\ inbox = [k \in Viewers |-> <<>>]
      /\ broken = [k \in Viewers |-> FALSE]
      /\ backlog = <<>> /\ list_h1 = <<>> /\ got = <<>>
  BY DEF Init, MainInit
<1>2. v["gui"] = "idle" /\ inbox["gui"] = <<>>
  BY <1>1 DEF Viewers
<1>3. Threads
  BY <1>1 DEF Threads
<1>4. Sound
  <2>1. \A S : <<>> \in Seq(S)
    OBVIOUS
  <2>2. QED
    BY <1>1, <1>2, <2>1 DEF Sound
<1>5. AbortOnlyWhenCutOff
  BY <1>2 DEF AbortOnlyWhenCutOff
<1>6. Conversation
  BY <1>1, <1>2 DEF Conversation
<1>7. QED
  BY <1>3, <1>4, <1>5, <1>6 DEF LInv

LEMMA LSame ==
  ASSUME LInv, UNCHANGED vars
  PROVE  LInv'
<1>1. UNCHANGED <<pc, hm, mutex, spill_id, go_end, alive, svr, backlog, job, list_h1,
                  v, inbox, broken, got, cut>>
  BY DEF vars, mainVars, svrVars, viewVars
<1>2. Exact' = Exact
  BY <1>1 DEF Exact
<1>3. Threads' /\ Sound' /\ AbortOnlyWhenCutOff'
  BY <1>1, <1>2 DEF LInv, Threads, Sound, AbortOnlyWhenCutOff
<1>4. AllOf({})' = AllOf({}) /\ Current' = Current
  BY <1>1 DEF AllOf, Current
<1>5. Arriving' = Arriving
  BY <1>1, <1>2, <1>4 DEF Arriving, AllOf
<1>6. /\ Asking' = Asking /\ Copying' = Copying /\ Refused' = Refused /\ Sending' = Sending
      /\ Confirmed' = Confirmed /\ Announced' = Announced /\ Answered' = Answered
  BY <1>1, <1>4 DEF Asking, Copying, Refused, Sending, Confirmed, Announced, Answered
<1>7. Conversation' = Conversation /\ Serving' = Serving
  BY <1>1, <1>4, <1>5, <1>6 DEF Conversation, Serving
<1>8. QED
  BY <1>3, <1>7 DEF LInv

LEMMA LServer ==
  ASSUME IInv, MInv, LInv, ServerThread
  PROVE  LInv'
<1>1. alive
  BY DEF ServerThread
<1>2. CASE UNCHANGED mainVars /\ (Boot \/ Accept)
  <2>1. alive' = alive
    BY <1>2 DEF Boot, Accept
  <2>2. QED
    BY <1>2, <2>1, LStarts
<1>3. CASE UNCHANGED mainVars /\ (Ping \/ Spill \/ SendRange \/ Subsys \/ SendHist \/ RecvNext)
  BY <1>1, <1>3, LPing, LSpill, LSendRange, LSubsys, LSendHist, LRecvNext
<1>4. CASE EndConnection /\ UNCHANGED <<spill_id, pc, mutex, hm>>
  <2>1. alive' = alive
    BY <1>4 DEF EndConnection
  <2>2. QED
    BY <1>4, <2>1, LEndConnection
<1>5. CASE (LockForSend \/ Merge) /\ UNCHANGED <<spill_id, pc, hm, go_end>>
  BY <1>1, <1>5, LLockForSend, LMerge
<1>6. QED
  BY <1>2, <1>3, <1>4, <1>5 DEF ServerThread

LEMMA LViewer ==
  ASSUME LInv, NEW k \in Viewers, ViewerThread(k)
  PROVE  LInv'
<1>1. UNCHANGED <<mainVars, alive, svr, job, list_h1, cut>>
  BY DEF ViewerThread
<1>2. CASE k = "range"
  BY <1>2, LRange
<1>3. CASE k = "gui"
  <2>1. NoPong("gui") \/ Ask("gui") \/ Broken("gui") \/ ReceiveHist \/ Finished \/ NotReady
    BY <1>3 DEF ViewerThread
  <2>2. QED
    BY <1>1, <2>1, LGuiLeaves, LAsk, LReceiveHist
<1>4. QED
  BY <1>2, <1>3 DEF Viewers

LEMMA LNext == IInv /\ MInv /\ LInv /\ [Next]_vars => LInv'
<1> SUFFICES ASSUME IInv, MInv, LInv, [Next]_vars
             PROVE  LInv'
  OBVIOUS
<1>1. CASE MainThread
  BY <1>1, LMain DEF MainThread
<1>2. CASE EndOfData
  BY <1>2, LMain DEF EndOfData
<1>3. CASE ServerThread
  BY <1>3, LServer
<1>4. CASE \E k \in Viewers : ViewerThread(k) \/ ViewerConnects(k)
  BY <1>4, LViewer, LConnect
<1>5. CASE AnotherDecoder
  BY <1>5, LAnother
<1>6. CASE Exit \/ Crash
  BY <1>6, LGone DEF Exit, Crash
<1>7. CASE UNCHANGED vars
  BY <1>7, LSame
<1>8. QED
  BY <1>1, <1>2, <1>3, <1>4, <1>5, <1>6, <1>7 DEF Next, Terminated

(* In every reachable state the counts are right, and the server and the   *)
(* thread of the buttons agree where their conversation is.                *)
THEOREM Invariance == Spec => [](IInv /\ MInv /\ LInv)
<1>1. Init => IInv /\ MInv /\ LInv
  BY InitInv, MInit, LInit
<1>2. IInv /\ MInv /\ LInv /\ [Next]_vars => (IInv /\ MInv /\ LInv)'
  BY NextInv, MNext, LNext
<1>3. QED
  BY <1>1, <1>2, PTL DEF Spec

(* What is sent and drawn is exact.                                        *)
THEOREM SnapshotExactCorrect == Spec => []SnapshotExact
<1>1. LInv => SnapshotExact
  <2> SUFFICES ASSUME LInv, NEW i \in DOMAIN (got \o list_h1)
               PROVE  LET h == (got \o list_h1)[i]
                      IN  IF h.hist = TORN THEN go_end \/ cut.names # Names
                          ELSE h.hist = Expected(cut.n, cut.apart, cut.lo, cut.hi)[h.name]
    BY DEF SnapshotExact
  <2> DEFINE h == (got \o list_h1)[i]
  <2>1. got \o list_h1 \in Seq(Exact)
    BY DEF LInv, Sound
  <2>2. h \in Exact
    BY <2>1
  <2> HIDE DEF h
  <2>3. IF h.hist = TORN THEN go_end \/ cut.names # Names
        ELSE h.hist = Shows(spill_id, cut.n, cut.apart, cut.lo, cut.hi)[h.name]
    BY <2>2 DEF Exact, ExactFor
  <2>4. IF h.hist = TORN THEN go_end \/ cut.names # Names
        ELSE h.hist = Expected(cut.n, cut.apart, cut.lo, cut.hi)[h.name]
    BY <2>3, ExpectedIs
  <2>5. QED
    BY <2>4 DEF h
<1>2. QED
  BY <1>1, Invariance, PTL

(* A viewer gets histograms of the whole run for those of some spills only *)
(* if the server has stopped saying that spills can be selected, however   *)
(* many clients share what it says and whenever each gives up: the mutex   *)
(* covers the moment between the two assignments of DisableSpillHist(),    *)
(* except in End().                                                        *)
THEOREM WholeRunCorrect == Spec => []WholeRunOnlyIfUnselectable
<1>1. Init => WholeRunOnlyIfUnselectable
  BY DEF Init, NoCut, WholeRunOnlyIfUnselectable
<1>2. ASSUME IInv, MInv, LInv, WholeRunOnlyIfUnselectable, [Next]_vars
      PROVE  WholeRunOnlyIfUnselectable'
  <2>1. CASE MainThread \/ EndOfData
    <3>1. UNCHANGED cut
      BY <2>1 DEF MainThread, EndOfData
    <3>2. \/ sp_sel' = FALSE
          \/ sp_sel' = sp_sel /\ pc # "endDisabled"
      <4>1. CASE InitRun \/ RegisterHist \/ LockForEvent \/ EndClient \/ GoEnd
        BY <4>1 DEF InitRun, RegisterHist, LockForEvent, EndClient, GoEnd
      <4>2. CASE ProcessEvent
        BY <4>2 DEF ProcessEvent
      <4>3. CASE DisableSpillHist \/ SetSpillSelectability
        BY <4>3 DEF DisableSpillHist, SetSpillSelectability
      <4>4. QED
        BY <2>1, <4>1, <4>2, <4>3 DEF MainThread, EndOfData, MainNext
    <3>3. QED
      BY <1>2, <3>1, <3>2 DEF WholeRunOnlyIfUnselectable
  <2>2. CASE Merge /\ UNCHANGED <<pc, cli, sp_sel>>
    <3>1. /\ svr = "merge" /\ cut'.of = job.of /\ cut'.apart = make_sp_hist[job.of]
      BY <2>2 DEF Merge
    <3>2. job.of \in Clients
      BY <1>2, <3>1 DEF LInv, Threads
    <3>3. pc # "disabled"
      BY <1>2, <3>1 DEF IInv, LockHeld
    <3>4. sp_sel => make_sp_hist[job.of] \/ (job.of = cli /\ pc = "endDisabled")
      BY <1>2, <3>2, <3>3 DEF IInv, Told
    <3>5. QED
      BY <2>2, <3>1, <3>4 DEF WholeRunOnlyIfUnselectable
  <2>3. CASE UNCHANGED <<pc, cli, sp_sel, cut>>
    BY <1>2, <2>3 DEF WholeRunOnlyIfUnselectable
  <2>4. CASE ServerThread
    <3>1. CASE Merge
      BY <2>2, <2>4, <3>1 DEF ServerThread, mainVars
    <3>2. CASE ~Merge
      <4>1. UNCHANGED <<pc, cli, sp_sel>>
        BY <2>4 DEF ServerThread, mainVars
      <4>2. UNCHANGED cut
        BY <2>4, <3>2 DEF ServerThread, Boot, Accept, Ping, Spill, SendRange, Subsys, SendHist,
                          RecvNext, EndConnection, LockForSend
      <4>3. QED
        BY <2>3, <4>1, <4>2
    <3>3. QED
      BY <3>1, <3>2
  <2>5. CASE (\E k \in Viewers : ViewerThread(k) \/ ViewerConnects(k)) \/ AnotherDecoder
    BY <2>3, <2>5 DEF ViewerThread, ViewerConnects, AnotherDecoder, mainVars
  <2>6. CASE Exit \/ Crash \/ UNCHANGED vars
    BY <2>3, <2>6 DEF Exit, Crash, Gone, vars, mainVars
  <2>7. QED
    BY <1>2, <2>1, <2>4, <2>5, <2>6 DEF Next, Terminated
<1>3. QED
  BY <1>1, <1>2, Invariance, PTL DEF Spec

(* The viewer aborts for a missing histogram only if the decoder ends, or  *)
(* had not registered all of them when it made the copies.                 *)
THEOREM AbortOnlyWhenCutOffCorrect == Spec => []AbortOnlyWhenCutOff
<1>1. LInv => AbortOnlyWhenCutOff
  BY DEF LInv
<1>2. QED
  BY <1>1, Invariance, PTL

LEMMA HeldCounts ==
  ASSUME NEW r \in SpillRuns, NEW n \in 0..Len(r), NEW h, NEW m, NEW pre, NEW make \in BOOLEAN,
         Holds(r, n, h, m, pre, make)
  PROVE  /\ h = NULL \/ h \in Counts
         /\ DOMAIN m \subseteq Spills
         /\ \A s \in DOMAIN m : m[s] = LIVE \/ m[s] \in Counts
         /\ pre \in Spills \cup {-1}
<1>1. n \in 0..MaxEvents /\ n \in Nat /\ AllCounts(n) \in Counts
  <2>1. n \in 0..MaxEvents /\ n \in Nat
    BY RunData, LongestRun
  <2>2. QED
    BY <2>1, CountsAre
<1>2. DOMAIN NoHist = {}
  BY DEF NoHist
<1>3. \A e \in 1..Len(r) : r[e] \in Spills
  BY RunData
<1>4. CASE h = NULL
  BY <1>2, <1>4 DEF Holds
<1>5. CASE h # NULL
  <2>1. pre = IF n = 0 THEN -1 ELSE r[n]
    BY <1>5 DEF Holds
  <2>2. pre \in Spills \cup {-1}
    <3>1. n # 0 => n \in 1..Len(r)
      BY RunData
    <3>2. QED
      BY <1>3, <2>1, <3>1
  <2>3. CASE make = FALSE
    BY <1>1, <1>5, <2>2, <2>3 DEF Holds
  <2>4. CASE make = TRUE
    <3>1. Apart(r, n, m, h)
      BY <1>5, <2>4 DEF Holds
    <3>2. CASE Second(r, n)
      <4>1. n \in 1..Len(r)
        BY <3>2, RunData DEF Second
      <4>2. SpillsOf(r, n) \subseteq Spills
        BY <4>1, SpillsSoFar
      <4>3. QED
        BY <2>2, <3>1, <3>2, <4>2 DEF Apart
    <3>3. CASE ~Second(r, n)
      BY <1>1, <2>2, <3>1, <3>3 DEF Apart
    <3>4. QED
      BY <3>2, <3>3
  <2>5. QED
    BY <2>3, <2>4
<1>6. QED
  BY <1>4, <1>5

(* The values of the variables.                                            *)
THEOREM TypeCorrect == Spec => []TypeOK
<1>1. IInv /\ MInv /\ LInv => TypeOK
  <2> SUFFICES ASSUME IInv, MInv, LInv PROVE TypeOK
    OBVIOUS
  <2>1. Progress /\ cli \in Clients /\ make_sp_hist \in [Clients -> BOOLEAN]
    BY DEF IInv, Switches, MInv
  <2>2. /\ pc \in {"first", "initRun", "lock", "event", "disabled", "end", "endDisabled", "ended"}
        /\ svr \in {"none", "boot", "bound", "accept", "recv", "range", "lock", "merge",
                    "send", "next", "ended"}
        /\ mutex \in {"none", "main", "server"}
        /\ v \in [Viewers -> {"idle", "ping", "recv", "abort"}]
    BY <2>1 DEF Progress, LInv, Threads
  <2>3. evt \in 1..(MaxEvents + 1)
    <3>1. spill_id \in SpillRuns /\ evt \in 1..(Len(spill_id) + 1)
      BY <2>1 DEF Progress
    <3>2. Len(spill_id) \in Nat /\ MaxEvents \in Nat /\ Len(spill_id) <= MaxEvents
      BY <3>1, RunData, LongestRun
    <3>3. QED
      BY <3>1, <3>2
  <2>4. ASSUME NEW c \in Clients
        PROVE  /\ hm[c] = NULL \/ hm[c] \in Counts
               /\ DOMAIN sp_hist[c] \subseteq Spills
               /\ \A s \in DOMAIN sp_hist[c] : sp_hist[c][s] = LIVE \/ sp_hist[c][s] \in Counts
               /\ spill_id_pre[c] \in Spills \cup {-1}
    <3>1. spill_id \in SpillRuns /\ make_sp_hist[c] \in BOOLEAN /\ Fills[c] \in 0..Len(spill_id)
      BY <2>1, FillsAre DEF Progress
    <3>2. Holds(spill_id, Fills[c], hm[c], sp_hist[c], spill_id_pre[c], make_sp_hist[c])
      BY DEF MInv, Counted
    <3>3. QED
      BY <3>1, <3>2, HeldCounts
  <2>5. \A c \in Clients : dump[c] = NULL \/ dump[c] \in Counts
    <3>1. \A c \in Clients : dump[c] = NULL \/ dump[c] = hm[c]
      BY DEF MInv, Counted
    <3>2. QED
      BY <2>4, <3>1
  <2>6. spill_id_pre \in [Clients -> Spills \cup {-1}]
    BY <2>1, <2>4 DEF Progress
  <2>7. \A i \in DOMAIN list_h1 : list_h1[i].name \in Names
    BY DEF LInv, Sound, Exact, ExactFor, Copies
  <2>8. Handling => backlog # <<>>
    BY DEF LInv, Serving, Handling, Conversation
  <2>9. QED
    BY <2>1, <2>2, <2>3, <2>4, <2>5, <2>6, <2>7, <2>8 DEF TypeOK
<1>2. QED
  BY <1>1, Invariance, PTL
=============================================================================
