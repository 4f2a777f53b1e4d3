------------------------- MODULE Fun4AllServer_proofs -------------------------
(***************************************************************************)
(* Proofs about the event loop, for any inputs, file lists, modules,       *)
(* output managers and calls of run().                                     *)
(***************************************************************************)
EXTENDS Fun4AllServer, SetLemmas

-----------------------------------------------------------------------------
(* The inductive invariant.                                                *)

InputState ==
  {m \in [filelist : Seq(Files), isopen : BOOLEAN, eventNumber : Nat] :
     IF m.isopen
     THEN m.filelist # <<>> /\ m.eventNumber <= FileEvents[m.filelist[1]]
     ELSE m.eventNumber = 0}

\* The files before position k of a list have no events.
NoneBefore(files, k) == \A j \in 1..(k - 1) : FileEvents[files[j]] = 0

(* An input stands behind event `s`, after which `files` are listed: it is *)
(* the last one read of the open file, or the last of its file and of the  *)
(* next one that has events, or that the macro has opened, nothing is read.*)
Behind(s, files) ==
  {m \in InputState :
     \/ s # NONE /\ m.isopen /\ m.filelist = <<s.file>> \o files /\ m.eventNumber = s.no
     \/ /\ s # NONE => s.no = FileEvents[s.file]
        /\ m.eventNumber = 0
        /\ \/ \E k \in 1..(Len(files) + 1) :
                NoneBefore(files, k) /\ m.filelist = SubSeq(files, k, Len(files))
           \/ NoneBefore(files, Len(files) + 1) /\ Len(m.filelist) <= 1}

(* It has read one event more.                                             *)
OneBeyond(s, files) ==
  {m \in InputState :
     m.isopen /\ m.eventNumber > 0 /\ PushBackEvents(m, 1) \in Behind(s, files)}

Listed(i) == IF served[i] = NONE THEN filelist_copy[i] ELSE served[i].rest

(* Where the inputs are, and what they have put into the node tree.        *)
InputsInStep ==
  /\ filelist_copy \in [Inputs -> Seq(Files)]
  /\ in \in [Inputs -> InputState]
  /\ node \in [Inputs -> Entries \cup {NONE}] /\ served \in [Inputs -> Entries \cup {NONE}]
  /\ pc \in {"macro", "sync", "module", "abort"} =>
       \A i \in Inputs : in[i] \in Behind(served[i], Listed(i))
  /\ pc \in {"reset", "begin", "event"} =>
       \A i \in Inputs : in[i] \in OneBeyond(served[i], Listed(i))
  /\ pc \in {"begin", "event"} =>
       \A i \in Inputs : node[i] = InMemory(in[i])

(* The run numbers of the inputs: each is that of the file that is open,   *)
(* if this has one, and what is in the node RUN is the number of one that  *)
(* reads the run tree.                                                     *)
RunsRead ==
  /\ myrunnumber \in [Inputs -> Nat] /\ runheader \in Nat
  /\ pc # "exit" => \A i \in Inputs \ noruntree :
       in[i].isopen => FileRun[in[i].filelist[1]] \in {0, myrunnumber[i]}
  /\ \A i \in Inputs \cap noruntree : myrunnumber[i] = 0
  /\ runheader = 0 => \A i \in Inputs : myrunnumber[i] = 0
  /\ runheader # 0 => \E i \in Inputs : myrunnumber[i] = runheader

(* The tables of the modules: what unregisterSubsystemsNow() has to keep   *)
(* consistent.                                                             *)
Registered ==
  /\ Subsystems \in Seq(ToSet(Modules)) /\ IsInjective(Subsystems)
  /\ RetCodes \in [DOMAIN Subsystems -> Int]
  /\ EventSelector = [o \in OutputManagers |-> EventSelectors[o] \cap ToSet(Subsystems)]
  /\ RecoModuleIndex = [o \in OutputManagers |->
                          {k \in DOMAIN Subsystems : Subsystems[k] \in EventSelectors[o]}]

(* The return codes of the modules that have been called for this event.   *)
Called == 1..(IF pc = "abort" THEN imod ELSE imod - 1)

CodesAreOfThisEvent ==
  pc \in {"module", "abort"} =>
    /\ imod \in 1..(Len(Subsystems) + 1)
    /\ pc = "abort" => imod <= Len(Subsystems) /\ RetCodes[imod] = ABORTEVENT
    /\ \A k \in 1..(imod - 1) : RetCodes[k] \in {EVENT_OK, DISCARDEVENT}
    /\ DOMAIN said = {Subsystems[k] : k \in Called}
    /\ \A k \in Called : said[Subsystems[k]] = RetCodes[k]

(* run() and the event counts.                                             *)
Looping == {"sync", "reset", "begin", "event", "module", "abort"}

Counts ==
  /\ icnt \in Nat /\ icnt_good \in Nat /\ good \in Nat /\ calls \in Nat
  /\ pc \in Looping => calls > 0
  /\ pc \in Looping \cup {"macro"} /\ calls > 0 =>
       /\ request \in Requests
       /\ request.require_nevents => icnt_good = good

(* Inputs that read the run tree deliver events of the run `r`.            *)
OfRun(r) ==
  /\ runheader = r
  /\ \A i \in Inputs \ noruntree : FileRun[node[i].file] \in {0, r}

(* Runs: of the server, the modules and the files.                         *)
RunsMatch ==
  /\ forced \in Nat /\ ifirst \in BOOLEAN
  /\ pc \in {"event", "module", "abort"} => ~ifirst
  /\ pc \notin {"ended", "exit"} /\ ~ifirst =>
       \A m \in ToSet(Subsystems) : inRun[m] = runnumber
  /\ pc = "begin" => OfRun(currentrun)
  /\ pc \in {"event", "module", "abort"} /\ forced = 0 => OfRun(runnumber)

Rest ==
  /\ pc \in Looping \cup {"macro", "ended", "exit"}
  /\ repeat \in Nat /\ resetnodetree \in BOOLEAN /\ iret \in Int /\ iret <= 0

IInv ==
  /\ Rest
  /\ InputsInStep
  /\ RunsRead
  /\ Registered
  /\ CodesAreOfThisEvent
  /\ Counts
  /\ RunsMatch
  /\ WrittenIffSelected

-----------------------------------------------------------------------------
(* Lists of files.                                                         *)

LEMMA Suffix ==
  ASSUME NEW L \in Seq(Files), NEW k \in 1..(Len(L) + 1)
  PROVE  /\ SubSeq(L, k, Len(L)) \in Seq(Files)
         /\ Len(SubSeq(L, k, Len(L))) = Len(L) - k + 1
         /\ \A j \in 1..(Len(L) - k + 1) : SubSeq(L, k, Len(L))[j] = L[k + j - 1]
<1>1. Len(L) \in Nat /\ k \in Nat /\ k >= 1
  OBVIOUS
<1>2. SubSeq(L, k, Len(L)) \in Seq(Files) /\ Len(SubSeq(L, k, Len(L))) = Len(L) - k + 1
  BY <1>1
<1>3. \A j \in 1..(Len(L) - k + 1) : SubSeq(L, k, Len(L))[j] = L[k + j - 1]
  BY <1>1
<1>4. QED
  BY <1>2, <1>3

LEMMA SameFiles ==
  ASSUME NEW a \in Seq(Files), NEW b \in Seq(Files), Len(a) = Len(b),
         \A j \in 1..Len(a) : a[j] = b[j]
  PROVE  a = b
<1>1. a = [j \in 1..Len(a) |-> a[j]] /\ b = [j \in 1..Len(b) |-> b[j]]
  OBVIOUS
<1>2. QED
  BY <1>1

\* The list behind a file that is done with ...
LEMMA BehindFirst ==
  ASSUME NEW f \in Files, NEW L \in Seq(Files), NEW n \in 2..(Len(L) + 1)
  PROVE  SubSeq(<<f>> \o L, n, Len(L) + 1) = SubSeq(L, n - 1, Len(L))
<1> DEFINE g == <<f>> \o L
<1>1. /\ g \in Seq(Files) /\ Len(g) = Len(L) + 1 /\ Len(L) \in Nat
      /\ \A j \in 2..(Len(L) + 1) : g[j] = L[j - 1]
  OBVIOUS
<1> HIDE DEF g
<1>2. n \in 1..(Len(g) + 1) /\ n - 1 \in 1..(Len(L) + 1)
  BY <1>1
<1> DEFINE x == SubSeq(g, n, Len(g))
           y == SubSeq(L, n - 1, Len(L))
<1>3. /\ x \in Seq(Files) /\ Len(x) = Len(g) - n + 1
      /\ \A j \in 1..(Len(g) - n + 1) : x[j] = g[n + j - 1]
  BY <1>1, <1>2, Suffix
<1>4. /\ y \in Seq(Files) /\ Len(y) = Len(L) - (n - 1) + 1
      /\ \A j \in 1..(Len(L) - (n - 1) + 1) : y[j] = L[(n - 1) + j - 1]
  BY <1>2, Suffix
<1> HIDE DEF x, y
<1>5. Len(x) = Len(y)
  BY <1>1, <1>2, <1>3, <1>4
<1>6. ASSUME NEW j \in 1..Len(x)
      PROVE  x[j] = y[j]
  <2>1. j \in 1..(Len(g) - n + 1) /\ j \in 1..(Len(L) - (n - 1) + 1)
    BY <1>1, <1>2, <1>3
  <2>2. x[j] = g[n + j - 1] /\ y[j] = L[(n - 1) + j - 1]
    BY <1>3, <1>4, <2>1
  <2>3. n + j - 1 \in 2..(Len(L) + 1) /\ (n + j - 1) - 1 = (n - 1) + j - 1
    BY <1>1, <1>2, <2>1
  <2>4. g[n + j - 1] = L[(n + j - 1) - 1]
    BY <1>1, <2>3
  <2>5. QED
    BY <2>2, <2>3, <2>4
<1>7. x = y
  BY <1>3, <1>4, <1>5, <1>6, SameFiles
<1>8. QED
  BY <1>1, <1>7 DEF g, x, y

\* ... and behind several.
LEMMA BehindSome ==
  ASSUME NEW L \in Seq(Files), NEW k \in 1..Len(L), NEW n \in 1..(Len(L) - k + 1)
  PROVE  SubSeq(SubSeq(L, k, Len(L)), n, Len(L) - k + 1) = SubSeq(L, k + n - 1, Len(L))
<1> DEFINE g == SubSeq(L, k, Len(L))
<1>1. /\ Len(L) \in Nat /\ k \in 1..(Len(L) + 1)
      /\ g \in Seq(Files) /\ Len(g) = Len(L) - k + 1
      /\ \A j \in 1..(Len(L) - k + 1) : g[j] = L[k + j - 1]
  <2>1. Len(L) \in Nat /\ k \in 1..(Len(L) + 1)
    OBVIOUS
  <2>2. QED
    BY <2>1, Suffix
<1> HIDE DEF g
<1>2. n \in 1..(Len(g) + 1) /\ k + n - 1 \in 1..(Len(L) + 1)
  BY <1>1
<1> DEFINE x == SubSeq(g, n, Len(g))
           y == SubSeq(L, k + n - 1, Len(L))
<1>3. /\ x \in Seq(Files) /\ Len(x) = Len(g) - n + 1
      /\ \A j \in 1..(Len(g) - n + 1) : x[j] = g[n + j - 1]
  BY <1>1, <1>2, Suffix
<1>4. /\ y \in Seq(Files) /\ Len(y) = Len(L) - (k + n - 1) + 1
      /\ \A j \in 1..(Len(L) - (k + n - 1) + 1) : y[j] = L[(k + n - 1) + j - 1]
  BY <1>2, Suffix
<1> HIDE DEF x, y
<1>5. Len(x) = Len(y)
  BY <1>1, <1>2, <1>3, <1>4
<1>6. ASSUME NEW j \in 1..Len(x)
      PROVE  x[j] = y[j]
  <2>1. j \in 1..(Len(g) - n + 1) /\ j \in 1..(Len(L) - (k + n - 1) + 1)
    BY <1>1, <1>2, <1>3
  <2>2. x[j] = g[n + j - 1] /\ y[j] = L[(k + n - 1) + j - 1]
    BY <1>3, <1>4, <2>1
  <2>3. n + j - 1 \in 1..(Len(L) - k + 1) /\ k + (n + j - 1) - 1 = (k + n - 1) + j - 1
    BY <1>1, <1>2, <2>1
  <2>4. g[n + j - 1] = L[k + (n + j - 1) - 1]
    BY <1>1, <2>3
  <2>5. QED
    BY <2>2, <2>3, <2>4
<1>7. x = y
  BY <1>3, <1>4, <1>5, <1>6, SameFiles
<1>8. QED
  BY <1>1, <1>7 DEF g, x, y

LEMMA TailIs ==
  ASSUME NEW L \in Seq(Files), L # <<>>
  PROVE  /\ Len(L) \in Nat /\ Len(L) >= 1 /\ L[1] \in Files
         /\ Tail(L) \in Seq(Files) /\ Len(Tail(L)) = Len(L) - 1
         /\ Tail(L) = SubSeq(L, 2, Len(L))
         /\ L = <<L[1]>> \o Tail(L)
<1>1. Len(L) \in Nat /\ Len(L) >= 1 /\ L[1] \in Files
  OBVIOUS
<1>2. /\ Tail(L) \in Seq(Files) /\ Len(Tail(L)) = Len(L) - 1
      /\ \A j \in 1..(Len(L) - 1) : Tail(L)[j] = L[j + 1]
  OBVIOUS
<1>3. Tail(L) = SubSeq(L, 2, Len(L))
  <2> DEFINE y == SubSeq(L, 2, Len(L))
  <2>1. 2 \in 1..(Len(L) + 1)
    BY <1>1
  <2>2. /\ y \in Seq(Files) /\ Len(y) = Len(L) - 2 + 1
        /\ \A j \in 1..(Len(L) - 2 + 1) : y[j] = L[2 + j - 1]
    BY <2>1, Suffix
  <2> HIDE DEF y
  <2>3. Len(y) = Len(Tail(L)) /\ \A j \in 1..Len(Tail(L)) : Tail(L)[j] = y[j]
    BY <1>1, <1>2, <2>2
  <2>4. QED
    BY <1>2, <2>2, <2>3, SameFiles DEF y
<1>4. L = <<L[1]>> \o Tail(L)
  <2> DEFINE t == Tail(L)
             y == <<L[1]>> \o t
  <2>1. t \in Seq(Files) /\ Len(t) = Len(L) - 1 /\ \A j \in 1..(Len(L) - 1) : t[j] = L[j + 1]
    BY <1>2
  <2> HIDE DEF t
  <2>2. /\ y \in Seq(Files) /\ Len(y) = Len(t) + 1
        /\ y[1] = L[1] /\ \A j \in 2..(Len(t) + 1) : y[j] = t[j - 1]
    BY <1>1, <2>1
  <2> HIDE DEF y
  <2>3. ASSUME NEW j \in 1..Len(L)
        PROVE  L[j] = y[j]
    <3>1. CASE j = 1
      BY <2>2, <3>1
    <3>2. CASE j # 1
      <4>1. j \in 2..(Len(t) + 1) /\ j - 1 \in 1..(Len(L) - 1) /\ (j - 1) + 1 = j
        BY <1>1, <2>1, <3>2
      <4>2. QED
        BY <2>1, <2>2, <4>1
    <3>3. QED
      BY <3>1, <3>2
  <2>4. Len(y) = Len(L)
    BY <1>1, <2>1, <2>2
  <2>5. L = y
    BY <2>2, <2>3, <2>4, SameFiles
  <2>6. QED
    BY <2>5 DEF t, y
<1>5. QED
  BY <1>1, <1>2, <1>3, <1>4

LEMMA Whole ==
  ASSUME NEW L \in Seq(Files)
  PROVE  SubSeq(L, 1, Len(L)) = L
<1> DEFINE y == SubSeq(L, 1, Len(L))
<1>1. 1 \in 1..(Len(L) + 1) /\ Len(L) \in Nat
  OBVIOUS
<1>2. /\ y \in Seq(Files) /\ Len(y) = Len(L) - 1 + 1
      /\ \A j \in 1..(Len(L) - 1 + 1) : y[j] = L[1 + j - 1]
  BY <1>1, Suffix
<1> HIDE DEF y
<1>3. Len(y) = Len(L) /\ \A j \in 1..Len(y) : y[j] = L[j]
  BY <1>1, <1>2
<1>4. QED
  BY <1>2, <1>3, SameFiles DEF y

-----------------------------------------------------------------------------
(* What an input manager does with its files.                              *)

LEMMA Numbers ==
  /\ \A f \in Files : FileEvents[f] \in Nat /\ FileRun[f] \in Nat
  /\ \A s \in Entries : s # NONE /\ s.file \in Files /\ s.no \in Nat /\ s.rest \in Seq(Files)
BY InputAssumption DEF Entries

LEMMA StateTypes ==
  ASSUME NEW m \in InputState
  PROVE  /\ m.filelist \in Seq(Files) /\ m.isopen \in BOOLEAN
         /\ m.eventNumber \in Nat
         /\ Len(m.filelist) \in Nat /\ DOMAIN m.filelist = 1..Len(m.filelist)
         /\ \A j \in 1..Len(m.filelist) : m.filelist[j] \in Files
         /\ m.isopen => 1 \in 1..Len(m.filelist)
BY DEF InputState

LEMMA ReadTypes ==
  ASSUME NEW m \in InputState
  PROVE  \A j \in 1..Len(m.filelist) : EventsRead(m, j) \in Nat
BY StateTypes DEF EventsRead

\* StopsAt finds the first file with an event left.
LEMMA FirstLeft ==
  ASSUME NEW m \in InputState, Left(m) # {}
  PROVE  /\ StopsAt(m) \in 1..Len(m.filelist)
         /\ EventsRead(m, StopsAt(m)) < FileEvents[m.filelist[StopsAt(m)]]
         /\ \A j \in 1..(StopsAt(m) - 1) : EventsRead(m, j) >= FileEvents[m.filelist[j]]
<1>1. Left(m) \subseteq 1..Len(m.filelist) /\ Left(m) \subseteq Nat
  BY StateTypes DEF Left
<1>2. \E x \in Left(m) : \A y \in Left(m) : x <= y
  BY <1>1, SmallestIn
<1> DEFINE next == StopsAt(m)
<1>3. next \in Left(m) /\ \A y \in Left(m) : next <= y
  BY <1>2 DEF StopsAt, Min
<1> HIDE DEF next
<1>4. next \in 1..Len(m.filelist) /\ EventsRead(m, next) < FileEvents[m.filelist[next]]
  BY <1>3, StateTypes DEF Left
<1>5. ASSUME NEW j \in 1..(next - 1)
      PROVE  EventsRead(m, j) >= FileEvents[m.filelist[j]]
  <2>1. next \in Nat /\ Len(m.filelist) \in Nat /\ next <= Len(m.filelist)
    BY <1>4, StateTypes
  <2>2. j \in 1..Len(m.filelist) /\ j < next
    BY <2>1
  <2>3. j \notin Left(m)
    BY <1>3, <2>1, <2>2
  <2>4. ~(EventsRead(m, j) < FileEvents[m.filelist[j]])
    BY <2>2, <2>3, StateTypes DEF Left
  <2>5. EventsRead(m, j) \in Nat /\ FileEvents[m.filelist[j]] \in Nat
    BY <2>2, ReadTypes, StateTypes, Numbers
  <2>6. QED
    BY <2>4, <2>5
<1>6. QED
  BY <1>4, <1>5 DEF next

\* What run(1) of an input that has an event left leaves behind
LEMMA ReadIs ==
  ASSUME NEW m \in InputState, Left(m) # {}
  PROVE  LET next == StopsAt(m)
             r    == InputRun(m)
         IN  /\ next \in 1..Len(m.filelist) /\ r \in InputState
             /\ r.isopen /\ r.filelist = SubSeq(m.filelist, next, Len(m.filelist))
             /\ r.filelist[1] = m.filelist[next]
             /\ r.eventNumber = EventsRead(m, next) + 1
             /\ EventsRead(m, next) \in Nat
             /\ EventsRead(m, next) < FileEvents[m.filelist[next]]
<1> DEFINE next == StopsAt(m)
           files == SubSeq(m.filelist, next, Len(m.filelist))
           r == [filelist |-> files, isopen |-> TRUE, eventNumber |-> EventsRead(m, next) + 1]
<1>1. InputRun(m) = r
  BY DEF InputRun
<1>2. /\ next \in 1..Len(m.filelist)
      /\ EventsRead(m, next) < FileEvents[m.filelist[next]]
  BY FirstLeft
<1>3. /\ EventsRead(m, next) \in Nat
      /\ m.filelist[next] \in Files /\ FileEvents[m.filelist[next]] \in Nat
      /\ m.filelist \in Seq(Files) /\ Len(m.filelist) \in Nat
  BY <1>2, ReadTypes, StateTypes, Numbers
<1> HIDE DEF next
<1>4. files \in Seq(Files) /\ files # <<>> /\ files[1] = m.filelist[next]
  <2>1. next \in 1..(Len(m.filelist) + 1) /\ 1 \in 1..(Len(m.filelist) - next + 1)
    BY <1>2, <1>3
  <2>2. /\ files \in Seq(Files) /\ Len(files) = Len(m.filelist) - next + 1
        /\ files[1] = m.filelist[next + 1 - 1]
    BY <1>3, <2>1, Suffix
  <2> HIDE DEF files
  <2>3. Len(files) > 0 /\ next + 1 - 1 = next
    BY <1>2, <1>3, <2>2
  <2>4. QED
    BY <2>2, <2>3
<1> HIDE DEF files
<1>5. r \in [filelist : Seq(Files), isopen : BOOLEAN, eventNumber : Nat]
  BY <1>3, <1>4
<1>6. r.eventNumber <= FileEvents[r.filelist[1]]
  BY <1>2, <1>3, <1>4
<1>7. r \in InputState
  BY <1>4, <1>5, <1>6 DEF InputState
<1>8. /\ InputRun(m).isopen /\ InputRun(m).filelist = files
      /\ InputRun(m).eventNumber = EventsRead(m, next) + 1
  BY <1>1
<1>9. InputRun(m) \in InputState
  BY <1>1, <1>7
<1>10. QED
  BY <1>2, <1>3, <1>4, <1>8, <1>9 DEF next, files

\* An input that has an event left reads the one after that of the last event loop.
LEMMA ReadNext ==
  ASSUME NEW s \in Entries \cup {NONE}, NEW L \in Seq(Files), NEW m \in Behind(s, L), Left(m) # {}
  PROVE  InputRun(m) \in OneBeyond(s, L)
<1> DEFINE next == StopsAt(m)
           r    == InputRun(m)
           b    == PushBackEvents(r, 1)
<1>1. m \in InputState /\ m.filelist \in Seq(Files) /\ Len(m.filelist) \in Nat /\ Len(L) \in Nat
  BY StateTypes DEF Behind
<1>2. /\ next \in 1..Len(m.filelist) /\ r \in InputState
      /\ r.isopen /\ r.filelist = SubSeq(m.filelist, next, Len(m.filelist))
      /\ r.eventNumber = EventsRead(m, next) + 1
      /\ EventsRead(m, next) \in Nat
  BY <1>1, ReadIs
<1>3. \A j \in 1..(next - 1) : EventsRead(m, j) >= FileEvents[m.filelist[j]]
  BY <1>1, FirstLeft
<1> HIDE DEF next, r
<1>4. b = [r EXCEPT !.eventNumber = @ - 1]
  BY <1>2 DEF PushBackEvents
<1>5. /\ b.isopen /\ b.filelist = r.filelist
      /\ b.eventNumber = EventsRead(m, next)
  <2>1. r \in [filelist : Seq(Files), isopen : BOOLEAN, eventNumber : Nat]
    BY <1>2 DEF InputState
  <2>2. b.isopen = r.isopen /\ b.filelist = r.filelist /\ b.eventNumber = r.eventNumber - 1
    BY <1>4, <2>1
  <2>3. \A x \in Nat : (x + 1) - 1 = x
    OBVIOUS
  <2>4. b.eventNumber = (EventsRead(m, next) + 1) - 1 /\ EventsRead(m, next) \in Nat
    BY <1>2, <2>2
  <2>5. b.eventNumber = EventsRead(m, next)
    BY <2>3, <2>4
  <2>6. QED
    BY <1>2, <2>2, <2>5, Zenon
<1>6. b \in InputState
  <2>1. b.eventNumber <= FileEvents[b.filelist[1]]
    <3>1. r.eventNumber <= FileEvents[r.filelist[1]] /\ FileEvents[r.filelist[1]] \in Nat
      BY <1>2, StateTypes, Numbers DEF InputState
    <3>2. QED
      BY <1>2, <1>5, <3>1
  <2>2. b \in [filelist : Seq(Files), isopen : BOOLEAN, eventNumber : Nat]
    BY <1>2, <1>4, <1>5 DEF InputState
  <2>3. b.filelist # <<>>
    BY <1>2, <1>5 DEF InputState
  <2>4. QED
    BY <1>5, <2>1, <2>2, <2>3 DEF InputState
<1> HIDE DEF b
<1>7. ASSUME NEW j \in 1..(next - 1), EventsRead(m, j) = 0
      PROVE  FileEvents[m.filelist[j]] = 0
  <2>1. j \in 1..Len(m.filelist)
    BY <1>1, <1>2
  <2>2. FileEvents[m.filelist[j]] \in Nat
    BY <1>1, <2>1, StateTypes, Numbers
  <2>3. QED
    BY <1>3, <1>7, <2>2
<1>8. b \in Behind(s, L)
  <2>1. CASE s # NONE /\ m.isopen /\ m.filelist = <<s.file>> \o L /\ m.eventNumber = s.no
    <3>1. s.file \in Files /\ s.no \in Nat /\ FileEvents[s.file] \in Nat
      BY <2>1, Numbers
    <3>2. /\ Len(m.filelist) = Len(L) + 1 /\ m.filelist[1] = s.file
          /\ \A j \in 2..(Len(L) + 1) : m.filelist[j] = L[j - 1]
      BY <1>1, <2>1, <3>1
    <3>3. CASE next = 1
      <4>1. b.eventNumber = m.eventNumber
        BY <1>5, <2>1, <3>3 DEF EventsRead
      <4>2. b.filelist = m.filelist
        BY <1>1, <1>2, <1>5, <3>3, Whole
      <4>3. QED
        BY <1>5, <1>6, <2>1, <4>1, <4>2 DEF Behind
    <3>4. CASE next # 1
      <4>1. b.eventNumber = 0
        BY <1>5, <3>4 DEF EventsRead
      <4>2. next \in 2..(Len(L) + 1) /\ 1 \in 1..(next - 1)
        BY <1>2, <3>2, <3>4, <1>1
      <4>3. m.eventNumber >= FileEvents[s.file]
        BY <1>3, <4>2, <2>1, <3>2 DEF EventsRead
      <4>4. m.eventNumber <= FileEvents[s.file]
        BY <1>1, <2>1, <3>2 DEF InputState
      <4>5. s.no = FileEvents[s.file]
        BY <2>1, <3>1, <4>3, <4>4
      <4>6. next - 1 \in 1..(Len(L) + 1)
        BY <4>2, <1>1
      <4>7. NoneBefore(L, next - 1)
        <5>1. ASSUME NEW j \in 1..((next - 1) - 1)
              PROVE  FileEvents[L[j]] = 0
          <6>1. j + 1 \in 1..(next - 1) /\ j + 1 \in 2..(Len(L) + 1) /\ (j + 1) - 1 = j /\ j + 1 # 1
            BY <4>2, <1>1
          <6>2. EventsRead(m, j + 1) = 0
            BY <6>1 DEF EventsRead
          <6>3. FileEvents[m.filelist[j + 1]] = 0
            BY <1>7, <6>1, <6>2
          <6>4. QED
            BY <3>2, <6>1, <6>3
        <5>2. QED
          BY <5>1 DEF NoneBefore
      <4>8. b.filelist = SubSeq(L, next - 1, Len(L))
        <5>1. b.filelist = SubSeq(<<s.file>> \o L, next, Len(L) + 1)
          BY <1>2, <1>5, <2>1, <3>2
        <5>2. QED
          BY <3>1, <4>2, <5>1, BehindFirst
      <4>9. QED
        BY <1>6, <4>1, <4>5, <4>6, <4>7, <4>8 DEF Behind
    <3>5. QED
      BY <3>3, <3>4
  <2>2. ASSUME s # NONE => s.no = FileEvents[s.file], m.eventNumber = 0,
               NEW k \in 1..(Len(L) + 1),
               NoneBefore(L, k), m.filelist = SubSeq(L, k, Len(L))
        PROVE  b \in Behind(s, L)
    <3>1. b.eventNumber = 0 /\ \A j \in 1..(next - 1) : EventsRead(m, j) = 0
      BY <1>5, <2>2 DEF EventsRead
    <3>2. /\ Len(m.filelist) = Len(L) - k + 1
          /\ \A j \in 1..(Len(L) - k + 1) : m.filelist[j] = L[k + j - 1]
      BY <2>2, Suffix
    <3>3. /\ k \in 1..Len(L) /\ next \in 1..(Len(L) - k + 1)
          /\ k + next - 1 \in 1..(Len(L) + 1)
      BY <1>1, <1>2, <3>2
    <3>4. b.filelist = SubSeq(L, k + next - 1, Len(L))
      <4>1. b.filelist = SubSeq(SubSeq(L, k, Len(L)), next, Len(L) - k + 1)
        BY <1>2, <1>5, <2>2, <3>2
      <4>2. QED
        BY <3>3, <4>1, BehindSome
    <3>5. NoneBefore(L, k + next - 1)
      <4>1. ASSUME NEW j \in 1..((k + next - 1) - 1)
            PROVE  FileEvents[L[j]] = 0
        <5>1. CASE j \in 1..(k - 1)
          BY <2>2, <5>1 DEF NoneBefore
        <5>2. CASE j \notin 1..(k - 1)
          <6>1. /\ j - k + 1 \in 1..(next - 1) /\ j - k + 1 \in 1..(Len(L) - k + 1)
                /\ k + (j - k + 1) - 1 = j
            BY <1>1, <3>3, <5>2
          <6>2. FileEvents[m.filelist[j - k + 1]] = 0
            BY <1>7, <3>1, <6>1
          <6>3. m.filelist[j - k + 1] = L[k + (j - k + 1) - 1]
            BY <3>2, <6>1
          <6>4. QED
            BY <6>1, <6>2, <6>3
        <5>3. QED
          BY <5>1, <5>2
      <4>2. QED
        BY <4>1 DEF NoneBefore
    <3>6. QED
      BY <1>6, <2>2, <3>1, <3>3, <3>4, <3>5 DEF Behind
  <2>3. CASE /\ s # NONE => s.no = FileEvents[s.file]
             /\ m.eventNumber = 0
             /\ NoneBefore(L, Len(L) + 1) /\ Len(m.filelist) <= 1
    <3>1. next = 1
      BY <1>1, <1>2, <2>3
    <3>2. b.filelist = m.filelist /\ b.eventNumber = 0
      BY <1>1, <1>2, <1>5, <2>3, <3>1, Whole DEF EventsRead
    <3>3. QED
      BY <1>6, <2>3, <3>2 DEF Behind
  <2>4. QED
    BY <2>1, <2>2, <2>3 DEF Behind
<1>9. r.eventNumber > 0
  BY <1>2
<1>10. QED
  BY <1>2, <1>8, <1>9 DEF OneBeyond, b, r

\* After a rewind nothing is read.
LEMMA RewoundIsBehind ==
  ASSUME NEW files \in Seq(Files)
  PROVE  InputInit(files) \in Behind(NONE, files)
<1> DEFINE m == InputInit(files)
<1>1. m = [filelist |-> files, isopen |-> FALSE, eventNumber |-> 0]
  BY DEF InputInit
<1> HIDE DEF m
<1>2. m \in InputState /\ m.eventNumber = 0
  BY <1>1 DEF InputState
<1>3. NoneBefore(files, 1) /\ m.filelist = SubSeq(files, 1, Len(files)) /\ 1 \in 1..(Len(files) + 1)
  BY <1>1, Whole DEF NoneBefore
<1>4. QED
  BY <1>2, <1>3 DEF Behind, m

\* One that has none left is at its end, and that of the last event loop was the last.
LEMMA ReadLast ==
  ASSUME NEW s \in Entries \cup {NONE}, NEW L \in Seq(Files), NEW m \in Behind(s, L), Left(m) = {}
  PROVE  InputRun(m) \in Behind(s, L)
<1> DEFINE r == InputRun(m)
<1>1. m \in InputState /\ m.filelist \in Seq(Files) /\ Len(m.filelist) \in Nat /\ Len(L) \in Nat
  BY StateTypes DEF Behind
<1>2. r = [filelist |-> <<>>, isopen |-> FALSE, eventNumber |-> 0]
  BY DEF InputRun, InputInit
<1> HIDE DEF r
<1>3. /\ r \in InputState /\ r.eventNumber = 0 /\ Len(r.filelist) <= 1
  BY <1>2 DEF InputState
<1>4. ASSUME NEW j \in 1..Len(m.filelist)
      PROVE  ~(EventsRead(m, j) < FileEvents[m.filelist[j]]) /\ FileEvents[m.filelist[j]] \in Nat
  <2>1. j \in DOMAIN m.filelist /\ j \notin Left(m)
    BY <1>1, StateTypes
  <2>2. QED
    BY <1>1, <2>1, StateTypes, Numbers DEF Left
<1>5. CASE s # NONE /\ m.isopen /\ m.filelist = <<s.file>> \o L /\ m.eventNumber = s.no
  <2>1. s.file \in Files /\ s.no \in Nat /\ FileEvents[s.file] \in Nat
    BY <1>5, Numbers
  <2>2. /\ Len(m.filelist) = Len(L) + 1 /\ m.filelist[1] = s.file
        /\ \A j \in 1..Len(L) : m.filelist[j + 1] = L[j]
    BY <1>1, <1>5, <2>1
  <2>3. s.no = FileEvents[s.file]
    <3>1. 1 \in 1..Len(m.filelist) /\ EventsRead(m, 1) = m.eventNumber
      BY <1>1, <1>5, <2>2 DEF EventsRead
    <3>2. ~(m.eventNumber < FileEvents[s.file])
      BY <1>4, <2>2, <3>1
    <3>3. m.eventNumber <= FileEvents[s.file]
      BY <1>1, <1>5, <2>2 DEF InputState
    <3>4. QED
      BY <1>5, <2>1, <3>2, <3>3
  <2>4. NoneBefore(L, Len(L) + 1)
    <3>1. ASSUME NEW j \in 1..((Len(L) + 1) - 1)
          PROVE  FileEvents[L[j]] = 0
      <4>1. j + 1 \in 1..Len(m.filelist) /\ j \in 1..Len(L) /\ j + 1 # 1
        BY <1>1, <2>2
      <4>2. EventsRead(m, j + 1) = 0
        BY <4>1 DEF EventsRead
      <4>3. ~(0 < FileEvents[L[j]]) /\ FileEvents[L[j]] \in Nat
        BY <1>4, <2>2, <4>1, <4>2
      <4>4. QED
        BY <4>3
    <3>2. QED
      BY <3>1 DEF NoneBefore
  <2>5. QED
    BY <1>3, <2>3, <2>4 DEF Behind, r
<1>6. ASSUME s # NONE => s.no = FileEvents[s.file], m.eventNumber = 0,
             NEW k \in 1..(Len(L) + 1),
             NoneBefore(L, k), m.filelist = SubSeq(L, k, Len(L))
      PROVE  InputRun(m) \in Behind(s, L)
  <2>1. /\ Len(m.filelist) = Len(L) - k + 1
        /\ \A j \in 1..(Len(L) - k + 1) : m.filelist[j] = L[k + j - 1]
    BY <1>6, Suffix
  <2>2. ASSUME NEW j \in 1..((Len(L) + 1) - 1)
        PROVE  FileEvents[L[j]] = 0
    <3>1. CASE j \in 1..(k - 1)
      BY <1>6, <3>1 DEF NoneBefore
    <3>2. CASE j \notin 1..(k - 1)
      <4>1. j - k + 1 \in 1..Len(m.filelist) /\ j - k + 1 \in 1..(Len(L) - k + 1)
            /\ k + (j - k + 1) - 1 = j
        BY <1>1, <2>1, <3>2
      <4>2. EventsRead(m, j - k + 1) = 0
        BY <1>6 DEF EventsRead
      <4>3. m.filelist[j - k + 1] = L[j]
        BY <2>1, <4>1
      <4>4. ~(0 < FileEvents[L[j]]) /\ FileEvents[L[j]] \in Nat
        BY <1>4, <4>1, <4>2, <4>3
      <4>5. QED
        BY <4>4
    <3>3. QED
      BY <3>1, <3>2
  <2>3. NoneBefore(L, Len(L) + 1)
    BY <2>2 DEF NoneBefore
  <2>4. QED
    BY <1>3, <1>6, <2>3 DEF Behind, r
<1>7. CASE /\ s # NONE => s.no = FileEvents[s.file]
           /\ m.eventNumber = 0
           /\ NoneBefore(L, Len(L) + 1) /\ Len(m.filelist) <= 1
  BY <1>3, <1>7 DEF Behind, r
<1>8. QED
  BY <1>5, <1>6, <1>7 DEF Behind

\* PushBackEvents(1) takes back what run(1) has read.
LEMMA GiveBack ==
  ASSUME NEW s, NEW L, NEW m \in OneBeyond(s, L)
  PROVE  PushBackEvents(m, 1) \in Behind(s, L)
BY DEF OneBeyond

\* Once the event loop has taken the event over, the input stands behind it.
LEMMA TakeOver ==
  ASSUME NEW s, NEW L, NEW m \in OneBeyond(s, L)
  PROVE  InMemory(m) \in Entries /\ m \in Behind(InMemory(m), InMemory(m).rest)
<1>1. m \in InputState /\ m.isopen /\ m.filelist \in Seq(Files) /\ m.filelist # <<>>
  BY StateTypes DEF OneBeyond, InputState
<1>2. InMemory(m) = [file |-> m.filelist[1], no |-> m.eventNumber, rest |-> Tail(m.filelist)]
  BY DEF InMemory
<1>3. /\ m.filelist[1] \in Files /\ Tail(m.filelist) \in Seq(Files)
      /\ m.filelist = <<m.filelist[1]>> \o Tail(m.filelist)
  BY <1>1, TailIs
<1>4. InMemory(m) \in Entries
  BY <1>1, <1>2, <1>3, StateTypes DEF Entries
<1>5. InMemory(m) # NONE
  BY <1>4, Numbers
<1>6. QED
  BY <1>1, <1>2, <1>3, <1>4, <1>5 DEF Behind

\* What is in memory follows the event of the last event loop.
LEMMA InMemoryIsNext ==
  ASSUME NEW s \in Entries \cup {NONE}, NEW L \in Seq(Files), s # NONE => L = s.rest,
         NEW m \in OneBeyond(s, L)
  PROVE  \/ s # NONE /\ InMemory(m) = [s EXCEPT !.no = @ + 1]
         \/ /\ s # NONE => s.no = FileEvents[s.file]
            /\ \/ InMemory(m) \in FirstEvents(L)
               \/ FirstEvents(L) = {} /\ InMemory(m).no = 1 /\ InMemory(m).rest = <<>>
<1> DEFINE b == PushBackEvents(m, 1)
<1>1. /\ m \in InputState /\ m.isopen /\ b \in Behind(s, L) /\ m.eventNumber \in Nat
      /\ m.eventNumber > 0 /\ m.filelist # <<>> /\ m.filelist \in Seq(Files)
      /\ m.eventNumber <= FileEvents[m.filelist[1]] /\ Len(L) \in Nat
      /\ Len(m.filelist) \in Nat
  BY StateTypes DEF OneBeyond, InputState
<1>2. b = [m EXCEPT !.eventNumber = @ - 1]
  BY <1>1 DEF PushBackEvents
<1>3. b.filelist = m.filelist /\ b.eventNumber = m.eventNumber - 1
  BY <1>1, <1>2 DEF InputState
<1>4. InMemory(m) = [file |-> m.filelist[1], no |-> m.eventNumber, rest |-> Tail(m.filelist)]
  BY DEF InMemory
<1>5. /\ Len(m.filelist) >= 1 /\ Tail(m.filelist) = SubSeq(m.filelist, 2, Len(m.filelist))
      /\ Len(Tail(m.filelist)) = Len(m.filelist) - 1 /\ Tail(m.filelist) \in Seq(Files)
  BY <1>1, TailIs
<1> HIDE DEF b
<1>6. CASE s # NONE /\ b.isopen /\ b.filelist = <<s.file>> \o L /\ b.eventNumber = s.no
  <2>1. s \in Entries /\ s.file \in Files /\ s.no \in Nat /\ s.rest = L
    BY <1>6, Numbers
  <2>2. m.filelist[1] = s.file /\ Tail(m.filelist) = L
    <3> DEFINE g == <<s.file>> \o L
    <3>1. /\ g \in Seq(Files) /\ g[1] = s.file /\ Len(g) = Len(L) + 1
          /\ \A j \in 1..Len(L) : g[j + 1] = L[j]
      BY <2>1
    <3>2. m.filelist = g
      BY <1>3, <1>6
    <3> HIDE DEF g
    <3>3. Tail(g) \in Seq(Files) /\ Len(Tail(g)) = Len(L) /\ \A j \in 1..Len(L) : Tail(g)[j] = g[j + 1]
      BY <3>1, <1>1
    <3>4. Tail(g) = L
      BY <3>1, <3>3, SameFiles
    <3>5. QED
      BY <3>1, <3>2, <3>4
  <2>3. m.eventNumber = s.no + 1
    BY <1>1, <1>3, <1>6, <2>1
  <2>4. /\ s = [file |-> s.file, no |-> s.no, rest |-> s.rest]
        /\ [s EXCEPT !.no = @ + 1] = [file |-> s.file, no |-> s.no + 1, rest |-> s.rest]
    BY <2>1 DEF Entries
  <2>5. InMemory(m) = [s EXCEPT !.no = @ + 1]
    BY <1>4, <2>1, <2>2, <2>3, <2>4
  <2>6. QED
    BY <1>6, <2>5
<1>7. ASSUME s # NONE => s.no = FileEvents[s.file], b.eventNumber = 0,
             NEW k \in 1..(Len(L) + 1),
             NoneBefore(L, k), b.filelist = SubSeq(L, k, Len(L))
      PROVE  InMemory(m) \in FirstEvents(L)
  <2>1. m.eventNumber = 1
    BY <1>1, <1>3, <1>7
  <2>2. /\ Len(m.filelist) = Len(L) - k + 1
        /\ \A j \in 1..(Len(L) - k + 1) : m.filelist[j] = L[k + j - 1]
    BY <1>3, <1>7, Suffix
  <2>3. k \in 1..Len(L) /\ 1 \in 1..(Len(L) - k + 1) /\ k + 1 - 1 = k
    BY <1>1, <1>5, <2>2
  <2>4. m.filelist[1] = L[k]
    BY <2>2, <2>3
  <2>5. L[k] \in Files /\ FileEvents[L[k]] \in Nat /\ DOMAIN L = 1..Len(L)
    BY <2>3, Numbers
  <2>6. FileEvents[L[k]] > 0
    BY <1>1, <2>1, <2>4, <2>5
  <2>7. Tail(m.filelist) = SubSeq(L, k + 1, Len(L))
    <3>1. CASE Len(L) - k + 1 >= 2
      <4>1. 2 \in 1..(Len(L) - k + 1) /\ k + 2 - 1 = k + 1
        BY <1>1, <2>3, <3>1
      <4>2. SubSeq(SubSeq(L, k, Len(L)), 2, Len(L) - k + 1) = SubSeq(L, k + 2 - 1, Len(L))
        BY <2>3, <4>1, BehindSome
      <4>3. QED
        BY <1>3, <1>5, <1>7, <2>2, <4>1, <4>2
    <3>2. CASE ~(Len(L) - k + 1 >= 2)
      <4>1. k = Len(L) /\ Len(Tail(m.filelist)) = 0 /\ k + 1 \in 1..(Len(L) + 1)
        <5>1. \A x, y \in Nat : y >= 1 /\ y <= x /\ ~(x - y + 1 >= 2) => y = x /\ (x - y + 1) - 1 = 0
                                        /\ y + 1 \in 1..(x + 1)
          OBVIOUS
        <5>2. k = Len(L) /\ (Len(L) - k + 1) - 1 = 0 /\ k + 1 \in 1..(Len(L) + 1)
          BY <1>1, <2>3, <3>2, <5>1
        <5>3. Len(Tail(m.filelist)) = (Len(L) - k + 1) - 1
          BY <1>5, <2>2
        <5>4. QED
          BY <5>2, <5>3
      <4>2. SubSeq(L, k + 1, Len(L)) \in Seq(Files) /\ Len(SubSeq(L, k + 1, Len(L))) = 0
        <5>1. Len(SubSeq(L, k + 1, Len(L))) = Len(L) - (k + 1) + 1
          BY <4>1, Suffix
        <5>2. SubSeq(L, k + 1, Len(L)) \in Seq(Files)
          BY <4>1, Suffix
        <5>3. QED
          BY <1>1, <4>1, <5>1, <5>2
      <4>3. \A a \in Seq(Files) : Len(a) = 0 => a = <<>>
        OBVIOUS
      <4>4. QED
        BY <1>5, <4>1, <4>2, <4>3
    <3>3. QED
      BY <3>1, <3>2
  <2>8. \A j \in 1..(k - 1) : FileEvents[L[j]] = 0
    BY <1>7 DEF NoneBefore
  <2>9. InMemory(m) = [file |-> L[k], no |-> 1, rest |-> SubSeq(L, k + 1, Len(L))]
    BY <1>4, <2>1, <2>4, <2>7
  <2>10. QED
    BY <2>3, <2>5, <2>6, <2>8, <2>9 DEF FirstEvents
<1>8. CASE /\ s # NONE => s.no = FileEvents[s.file]
           /\ b.eventNumber = 0
           /\ NoneBefore(L, Len(L) + 1) /\ Len(b.filelist) <= 1
  <2>1. m.eventNumber = 1
    BY <1>1, <1>3, <1>8
  <2>2. Tail(m.filelist) = <<>>
    <3>1. Len(Tail(m.filelist)) = 0
      <4>1. \A x \in Nat : x >= 1 /\ x <= 1 => x - 1 = 0
        OBVIOUS
      <4>2. Len(m.filelist) <= 1
        BY <1>3, <1>8
      <4>3. QED
        BY <1>1, <1>5, <4>1, <4>2
    <3>2. QED
      BY <1>5, <3>1
  <2>3. FirstEvents(L) = {}
    <3>1. \A k \in DOMAIN L : ~(FileEvents[L[k]] > 0)
      BY <1>1, <1>8 DEF NoneBefore
    <3>2. QED
      BY <3>1 DEF FirstEvents
  <2>4. QED
    BY <1>4, <1>8, <2>1, <2>2, <2>3
<1>9. QED
  BY <1>1, <1>6, <1>7, <1>8 DEF Behind

\* fileopen() of another file
LEMMA OpenedIsBehind ==
  ASSUME NEW s \in Entries \cup {NONE}, NEW L \in Seq(Files), NEW m \in Behind(s, L),
         ~m.isopen, m.filelist = <<>>, NEW f \in Files
  PROVE  [filelist |-> <<f>>, isopen |-> TRUE, eventNumber |-> 0] \in Behind(s, L)
<1> DEFINE r == [filelist |-> <<f>>, isopen |-> TRUE, eventNumber |-> 0]
<1>1. m \in InputState /\ (s # NONE => s.no = FileEvents[s.file]) /\ Len(L) \in Nat
  BY DEF Behind
<1>2. NoneBefore(L, Len(L) + 1)
  <2>1. ASSUME NEW k \in 1..(Len(L) + 1), NoneBefore(L, k), m.filelist = SubSeq(L, k, Len(L))
        PROVE  NoneBefore(L, Len(L) + 1)
    <3>1. Len(m.filelist) = Len(L) - k + 1 /\ Len(m.filelist) = 0
      BY <2>1, Suffix
    <3>2. k = Len(L) + 1
      BY <1>1, <3>1
    <3>3. QED
      BY <2>1, <3>2
  <2>2. QED
    BY <2>1 DEF Behind
<1>3. <<f>> \in Seq(Files) /\ <<f>> # <<>> /\ <<f>>[1] = f /\ Len(<<f>>) <= 1 /\ FileEvents[f] \in Nat
  BY Numbers
<1>4. r \in InputState
  BY <1>3 DEF InputState
<1>5. QED
  BY <1>1, <1>2, <1>3, <1>4 DEF Behind

-----------------------------------------------------------------------------
(* The inputs stay in step.                                                *)

LEMMA Beyond ==
  ASSUME NEW s, NEW L
  PROVE  Behind(s, L) \subseteq InputState /\ OneBeyond(s, L) \subseteq InputState
BY DEF Behind, OneBeyond

LEMMA ListedTypes ==
  ASSUME InputsInStep, NEW i \in Inputs
  PROVE  /\ Listed(i) \in Seq(Files) /\ filelist_copy[i] \in Seq(Files)
         /\ served[i] \in Entries \cup {NONE}
         /\ served[i] # NONE => Listed(i) = served[i].rest
BY Numbers DEF InputsInStep, Listed

LEMMA InputsRead ==
  ASSUME InputsInStep, ReadAll
  PROVE  InputsInStep'
<1>1. /\ pc = "sync" /\ pc' \in {"reset", "begin", "exit"}
      /\ in' = [i \in Inputs |-> InputRun(in[i])]
      /\ UNCHANGED <<filelist_copy, served>>
  BY DEF ReadAll
<1>2. ASSUME NEW i \in Inputs
      PROVE  in'[i] \in OneBeyond(served'[i], Listed(i)') /\ node'[i] = InMemory(in'[i])
  <2>1. Left(in[i]) # {}
    BY DEF ReadAll, Failed
  <2>2. in[i] \in Behind(served[i], Listed(i))
    BY <1>1 DEF InputsInStep
  <2>3. InputRun(in[i]) \in OneBeyond(served[i], Listed(i))
    BY <2>1, <2>2, ReadNext, ListedTypes
  <2>4. node'[i] = InMemory(InputRun(in[i]))
    BY DEF ReadAll
  <2>5. Listed(i)' = Listed(i)
    BY <1>1 DEF Listed
  <2>6. QED
    BY <1>1, <2>3, <2>4, <2>5
<1>3. in' \in [Inputs -> InputState]
  BY <1>1, <1>2, Beyond
<1>4. node' \in [Inputs -> Entries \cup {NONE}]
  <2>1. \A i \in Inputs : InMemory(InputRun(in[i])) \in Entries
    BY <1>1, <1>2, TakeOver
  <2>2. node' = [i \in Inputs |-> InMemory(InputRun(in[i]))]
    BY DEF ReadAll
  <2>3. QED
    BY <2>1, <2>2
<1>5. QED
  BY <1>1, <1>2, <1>3, <1>4 DEF InputsInStep

\* RepeatAll, RepeatFails and ReadError leave what the inputs that did not fail have read.
LEMMA PartlyRead ==
  ASSUME InputsInStep, pc = "sync", ReadOthers
  PROVE  node' \in [Inputs -> Entries \cup {NONE}]
<1>1. ASSUME NEW i \in Inputs, i \notin Failed
      PROVE  InMemory(InputRun(in[i])) \in Entries
  <2>1. Left(in[i]) # {}
    BY <1>1 DEF Failed
  <2>2. InputRun(in[i]) \in OneBeyond(served[i], Listed(i))
    BY <2>1, ReadNext, ListedTypes DEF InputsInStep
  <2>3. QED
    BY <2>2, TakeOver
<1>2. \A i \in Inputs : node[i] \in Entries \cup {NONE}
  BY DEF InputsInStep
<1>3. node' = [i \in Inputs |-> IF i \in Failed THEN node[i] ELSE InMemory(InputRun(in[i]))]
  BY DEF ReadOthers
<1>4. QED
  BY <1>1, <1>2, <1>3

LEMMA InputsRepeat ==
  ASSUME InputsInStep, RepeatAll
  PROVE  InputsInStep'
<1>1. /\ pc = "sync" /\ pc' = pc
      /\ in' = [i \in Inputs |-> InputInit(filelist_copy[i])]
      /\ served' = [i \in Inputs |-> NONE]
      /\ filelist_copy' = filelist_copy
  BY DEF RepeatAll
<1>2. ASSUME NEW i \in Inputs
      PROVE  in'[i] \in Behind(served'[i], Listed(i)')
  <2>1. filelist_copy[i] \in Seq(Files) /\ Listed(i)' = filelist_copy[i]
    BY <1>1, ListedTypes DEF Listed
  <2>2. QED
    BY <1>1, <2>1, RewoundIsBehind
<1>3. in' \in [Inputs -> InputState]
  BY <1>1, <1>2, Beyond
<1>4. node' \in [Inputs -> Entries \cup {NONE}]
  BY <1>1, PartlyRead DEF RepeatAll
<1>5. QED
  BY <1>1, <1>2, <1>3, <1>4 DEF InputsInStep

LEMMA InputsFail ==
  ASSUME InputsInStep, RepeatFails
  PROVE  InputsInStep'
<1>1. /\ pc = "sync" /\ pc' = "exit"
      /\ UNCHANGED <<filelist_copy, in, served>>
  BY DEF RepeatFails
<1>2. node' \in [Inputs -> Entries \cup {NONE}]
  BY <1>1, PartlyRead DEF RepeatFails
<1>3. QED
  BY <1>1, <1>2 DEF InputsInStep

LEMMA InputsReadError ==
  ASSUME InputsInStep, ReadError
  PROVE  InputsInStep'
<1>1. /\ pc = "sync" /\ pc' = "macro"
      /\ in' = [i \in Inputs |-> IF i \in Failed THEN InputRun(in[i])
                                 ELSE PushBackEvents(InputRun(in[i]), 1)]
      /\ UNCHANGED <<filelist_copy, served>>
  BY DEF ReadError
<1>2. ASSUME NEW i \in Inputs
      PROVE  in'[i] \in Behind(served'[i], Listed(i)')
  <2>1. in[i] \in Behind(served[i], Listed(i)) /\ Listed(i)' = Listed(i)
    BY <1>1 DEF InputsInStep, Listed
  <2>2. CASE i \in Failed
    BY <1>1, <2>1, <2>2, ReadLast, ListedTypes DEF Failed
  <2>3. CASE i \notin Failed
    <3>1. InputRun(in[i]) \in OneBeyond(served[i], Listed(i))
      BY <2>1, <2>3, ReadNext, ListedTypes DEF Failed
    <3>2. QED
      BY <1>1, <2>1, <2>3, <3>1, GiveBack
  <2>4. QED
    BY <2>2, <2>3
<1>3. in' \in [Inputs -> InputState]
  BY <1>1, <1>2, Beyond
<1>4. node' \in [Inputs -> Entries \cup {NONE}]
  BY <1>1, PartlyRead DEF ReadError
<1>5. QED
  BY <1>1, <1>2, <1>3, <1>4 DEF InputsInStep

LEMMA InputsReset ==
  ASSUME InputsInStep, ResetAndReadAgain
  PROVE  InputsInStep'
<1>1. /\ pc = "reset" /\ pc' = "sync"
      /\ node' = [i \in Inputs |-> NONE]
      /\ in' = [i \in Inputs |-> PushBackEvents(in[i], 1)]
      /\ UNCHANGED <<filelist_copy, served>>
  BY DEF ResetAndReadAgain, serverVars
<1>2. ASSUME NEW i \in Inputs
      PROVE  in'[i] \in Behind(served'[i], Listed(i)')
  <2>1. in[i] \in OneBeyond(served[i], Listed(i)) /\ Listed(i)' = Listed(i)
    BY <1>1 DEF InputsInStep, Listed
  <2>2. QED
    BY <1>1, <2>1, GiveBack
<1>3. in' \in [Inputs -> InputState]
  BY <1>1, <1>2, Beyond
<1>4. QED
  BY <1>1, <1>2, <1>3 DEF InputsInStep

LEMMA InputsStart ==
  ASSUME InputsInStep, StartEvent
  PROVE  InputsInStep'
<1>1. /\ pc = "event" /\ pc' = "module"
      /\ served' = node /\ UNCHANGED <<filelist_copy, in, node>>
  BY DEF StartEvent
<1>2. ASSUME NEW i \in Inputs
      PROVE  node[i] \in Entries /\ in[i] \in Behind(node[i], node[i].rest)
  <2>1. in[i] \in OneBeyond(served[i], Listed(i)) /\ node[i] = InMemory(in[i])
    BY <1>1 DEF InputsInStep
  <2>2. QED
    BY <2>1, TakeOver
<1>3. \A i \in Inputs : Listed(i)' = node[i].rest
  BY <1>1, <1>2, Numbers DEF Listed
<1>4. served' \in [Inputs -> Entries \cup {NONE}]
  BY <1>1, <1>2 DEF InputsInStep
<1>5. QED
  BY <1>1, <1>2, <1>3, <1>4 DEF InputsInStep

LEMMA InputsOpen ==
  ASSUME InputsInStep, NEW k \in Inputs, NEW f \in Files, FileOpen(k, f)
  PROVE  InputsInStep'
<1> DEFINE r == [filelist |-> <<f>>, isopen |-> TRUE, eventNumber |-> 0]
<1>1. /\ pc = "macro" /\ ~in[k].isopen /\ in[k].filelist = <<>> /\ in' = [in EXCEPT ![k] = r]
      /\ UNCHANGED <<pc, filelist_copy, node, served>>
  BY DEF FileOpen
<1>2. r \in Behind(served[k], Listed(k))
  BY <1>1, OpenedIsBehind, ListedTypes DEF InputsInStep
<1> HIDE DEF r
<1>3. ASSUME NEW i \in Inputs
      PROVE  in'[i] \in Behind(served'[i], Listed(i)')
  <2>1. in[i] \in Behind(served[i], Listed(i)) /\ Listed(i)' = Listed(i) /\ in'[k] = r
        /\ (i # k => in'[i] = in[i])
    BY <1>1 DEF InputsInStep, Listed
  <2>2. QED
    BY <1>1, <1>2, <2>1
<1>4. in' \in [Inputs -> InputState]
  BY <1>1, <1>2, Beyond DEF InputsInStep
<1>5. QED
  BY <1>1, <1>3, <1>4 DEF InputsInStep

\* The other steps leave the inputs alone.
LEMMA InputsKept ==
  ASSUME InputsInStep, UNCHANGED <<filelist_copy, in, served>>,
         \/ pc = "begin" /\ pc' \in {"event", "exit"} /\ node' = node
         \/ pc \in {"macro", "module", "abort"} /\ pc' \in {"macro", "sync", "module", "abort", "ended"}
            /\ (node' = node \/ node' = [i \in Inputs |-> NONE])
  PROVE  InputsInStep'
BY DEF InputsInStep, Listed

-----------------------------------------------------------------------------
(* The run numbers of the inputs.                                          *)

LEMMA HeadedIs ==
  ASSUME InputsInStep, NEW i \in Inputs
  PROVE  /\ Headed(i) = {} \/ i \notin noruntree
         /\ Headed(i) # {} => /\ Max(Headed(i)) \in Headed(i)
                              /\ \A j \in Headed(i) : j <= Max(Headed(i)) /\ j \in Nat
         /\ \A j \in Headed(i) : /\ j \in Opened(i)
                                 /\ FileRun[in[i].filelist[j]] \in Nat \ {0}
<1>1. in[i] \in InputState
  BY DEF InputsInStep
<1>2. StopsAt(in[i]) \in Int /\ StopsAt(in[i]) <= Len(in[i].filelist) /\ Len(in[i].filelist) \in Nat
  <2>1. CASE Left(in[i]) = {}
    BY <1>1, <2>1, StateTypes DEF StopsAt
  <2>2. CASE Left(in[i]) # {}
    BY <1>1, <2>2, FirstLeft, StateTypes
  <2>3. QED
    BY <2>1, <2>2
<1>3. Opened(i) \subseteq 1..Len(in[i].filelist) /\ \A j \in Opened(i) : j <= StopsAt(in[i])
  BY <1>2 DEF Opened
<1>4. \A j \in Headed(i) : /\ j \in Opened(i) /\ i \notin noruntree
                           /\ FileRun[in[i].filelist[j]] # 0
  BY DEF Headed
<1>5. \A j \in Headed(i) : FileRun[in[i].filelist[j]] \in Nat \ {0}
  BY <1>1, <1>3, <1>4, StateTypes, Numbers
<1>6. ASSUME Headed(i) # {}
      PROVE  Max(Headed(i)) \in Headed(i) /\ \A j \in Headed(i) : j <= Max(Headed(i)) /\ j \in Nat
  <2> DEFINE S == Headed(i)
             n == Len(in[i].filelist)
  <2>1. S \subseteq Nat /\ n \in Nat /\ \A j \in S : j <= n
    BY <1>2, <1>3, <1>4
  <2> HIDE DEF S, n
  <2>2. S # {}
    BY <1>6 DEF S
  <2>3. \E x \in S : \A y \in S : y <= x
    BY <2>1, <2>2, LargestIn
  <2>4. \E x \in S : \A y \in S : x >= y
    BY <2>1, <2>3
  <2>5. Max(S) \in S /\ \A y \in S : Max(S) >= y
    BY <2>4 DEF Max
  <2>6. \A y \in S : y <= Max(S) /\ y \in Nat
    BY <2>1, <2>5
  <2>7. QED
    BY <2>5, <2>6 DEF S
<1>7. QED
  BY <1>4, <1>5, <1>6

\* The header in the node RUN is the last one read, or that of before.
LEMMA HeaderIs ==
  ASSUME InputsInStep, NEW i \in Inputs
  PROVE  \/ (\A k \in 1..i : Headed(k) = {}) /\ HeaderAfter(i) = runheader
         \/ \E k \in 1..i : /\ k \in Inputs /\ Headed(k) # {}
                            /\ \A l \in (k + 1)..i : Headed(l) = {}
                            /\ HeaderAfter(i) = FileRun[in[k].filelist[Max(Headed(k))]]
                            /\ HeaderAfter(i) \in Nat \ {0}
<1> DEFINE new == {k \in 1..i : Headed(k) # {}}
<1>1. /\ i \in Nat /\ 1..i \subseteq Inputs
      /\ HeaderAfter(i) = IF new = {} THEN runheader
                          ELSE FileRun[in[Max(new)].filelist[Max(Headed(Max(new)))]]
  <2>1. IsFiniteSet(Inputs) /\ Inputs = 1..Cardinality(Inputs)
    BY InputAssumption
  <2>2. Cardinality(Inputs) \in Nat
    BY <2>1, FS_CardinalityType
  <2>3. i \in Nat /\ i <= Cardinality(Inputs) /\ i \in 1..Cardinality(Inputs)
    BY <2>1, <2>2
  <2>4. 1..i \subseteq 1..Cardinality(Inputs)
    BY <2>2, <2>3
  <2>5. 1..i \subseteq Inputs
    BY <2>1, <2>4
  <2>6. QED
    BY <2>3, <2>5 DEF HeaderAfter
<1>2. CASE new = {}
  BY <1>1, <1>2
<1>3. CASE new # {}
  <2>1. new \subseteq Nat /\ \A k \in new : k <= i
    BY <1>1
  <2>2. \A k \in new : Headed(k) # {} /\ k \in 1..i /\ k \in Inputs
    BY <1>1
  <2>3. \A k \in 1..i : Headed(k) # {} => k \in new
    OBVIOUS
  <2> HIDE DEF new
  <2>4. \E x \in new : \A y \in new : y <= x
    BY <1>1, <1>3, <2>1, LargestIn
  <2>5. \E x \in new : \A y \in new : x >= y
    BY <2>1, <2>4
  <2>6. Max(new) \in new /\ \A y \in new : Max(new) >= y
    BY <2>5 DEF Max
  <2> DEFINE k == Max(new)
  <2>7. k \in 1..i /\ k \in Inputs /\ Headed(k) # {} /\ k \in Nat
    BY <2>1, <2>2, <2>6
  <2>8. HeaderAfter(i) = FileRun[in[k].filelist[Max(Headed(k))]]
    BY <1>1, <1>3
  <2>9. HeaderAfter(i) \in Nat \ {0}
    BY <2>7, <2>8, HeadedIs
  <2>10. \A l \in (k + 1)..i : Headed(l) = {}
    <3>1. ASSUME NEW l \in (k + 1)..i, Headed(l) # {}
          PROVE  FALSE
      <4>1. l \in 1..i /\ l > k /\ l \in Nat
        BY <1>1, <2>7, <3>1
      <4>2. l \in new
        BY <2>3, <3>1, <4>1
      <4>3. k >= l
        BY <2>6, <4>2
      <4>4. QED
        BY <2>7, <4>1, <4>3
    <3>2. QED
      BY <3>1
  <2>11. QED
    BY <2>7, <2>8, <2>9, <2>10
<1>4. QED
  BY <1>2, <1>3

LEMMA NumberRead ==
  ASSUME InputsInStep, RunsRead, pc = "sync", NEW i \in Inputs
  PROVE  /\ HeaderAfter(i) \in Nat /\ RunNumberAfter(i) \in Nat
         /\ i \in noruntree => RunNumberAfter(i) = 0
         /\ HeaderAfter(i) = 0 => RunNumberAfter(i) = 0 /\ runheader = 0
         /\ i \notin noruntree /\ Left(in[i]) # {} =>
              FileRun[InputRun(in[i]).filelist[1]] \in {0, RunNumberAfter(i)}
<1>1. HeaderAfter(i) \in Nat /\ runheader \in Nat /\ myrunnumber[i] \in Nat
  BY HeaderIs DEF RunsRead
<1>2. RunNumberAfter(i) \in Nat /\ RunNumberAfter(i) \in {myrunnumber[i], HeaderAfter(i)}
  BY <1>1 DEF RunNumberAfter
<1>3. i \in noruntree => RunNumberAfter(i) = 0
  BY DEF RunNumberAfter, RunsRead
<1>4. ASSUME HeaderAfter(i) = 0
      PROVE  RunNumberAfter(i) = 0 /\ runheader = 0
  <2>1. runheader = 0
    BY <1>4, HeaderIs
  <2>2. myrunnumber[i] = 0
    BY <2>1 DEF RunsRead
  <2>3. QED
    BY <1>4, <2>1, <2>2 DEF RunNumberAfter
<1>5. ASSUME i \notin noruntree, Left(in[i]) # {}
      PROVE  FileRun[InputRun(in[i]).filelist[1]] \in {0, RunNumberAfter(i)}
  <2> DEFINE next == StopsAt(in[i])
  <2>1. /\ in[i] \in InputState /\ next \in 1..Len(in[i].filelist)
        /\ InputRun(in[i]).filelist[1] = in[i].filelist[next]
        /\ Len(in[i].filelist) \in Nat /\ i \in Nat
    <3>1. in[i] \in InputState
      BY DEF InputsInStep
    <3>2. i \in Nat
      BY HeaderIs, InputAssumption, FS_CardinalityType
    <3>3. QED
      BY <1>5, <3>1, <3>2, ReadIs, StateTypes
  <2>2. CASE FileRun[in[i].filelist[next]] = 0
    BY <2>1, <2>2
  <2>3. CASE FileRun[in[i].filelist[next]] # 0 /\ next \in Opened(i)
    <3>1. next \in Headed(i)
      BY <1>5, <2>3 DEF Headed
    <3>2. Max(Headed(i)) = next
      <4>1. next <= Max(Headed(i)) /\ Max(Headed(i)) \in Opened(i) /\ Max(Headed(i)) \in Nat
        BY <3>1, HeadedIs
      <4>2. Max(Headed(i)) <= next
        BY <2>1, <4>1 DEF Opened
      <4>3. QED
        BY <2>1, <4>1, <4>2
    <3>3. HeaderAfter(i) = FileRun[in[i].filelist[next]] /\ HeaderAfter(i) # 0
      <4>1. i \in 1..i
        BY <2>1, HeaderIs, InputAssumption, FS_CardinalityType
      <4>2. PICK k \in 1..i : /\ k \in Inputs /\ Headed(k) # {}
                              /\ \A l \in (k + 1)..i : Headed(l) = {}
                              /\ HeaderAfter(i) = FileRun[in[k].filelist[Max(Headed(k))]]
                              /\ HeaderAfter(i) \in Nat \ {0}
        BY <3>1, <4>1, HeaderIs
      <4>3. k = i
        <5>1. i \notin (k + 1)..i
          BY <3>1, <4>2
        <5>2. QED
          BY <2>1, <4>1, <5>1
      <4>4. QED
        BY <3>2, <4>2, <4>3
    <3>4. RunNumberAfter(i) = HeaderAfter(i)
      BY <1>5, <2>3, <3>3 DEF RunNumberAfter
    <3>5. QED
      BY <2>1, <3>3, <3>4
  <2>4. CASE next \notin Opened(i)
    <3>1. in[i].isopen /\ next = 1 /\ Opened(i) = {}
      BY <2>1, <2>4 DEF Opened
    <3>2. FileRun[in[i].filelist[1]] \in {0, myrunnumber[i]}
      BY <1>5, <3>1 DEF RunsRead
    <3>3. RunNumberAfter(i) = myrunnumber[i]
      BY <3>1 DEF RunNumberAfter
    <3>4. QED
      BY <2>1, <3>1, <3>2, <3>3
  <2>5. QED
    BY <2>2, <2>3, <2>4
<1>6. QED
  BY <1>1, <1>2, <1>3, <1>4, <1>5

LEMMA NumbersRead ==
  ASSUME InputsInStep, RunsRead, pc = "sync", ReadRunNodes
  PROVE  /\ myrunnumber' \in [Inputs -> Nat] /\ runheader' \in Nat
         /\ \A i \in Inputs \cap noruntree : myrunnumber'[i] = 0
         /\ runheader' = 0 => \A i \in Inputs : myrunnumber'[i] = 0
         /\ runheader' # 0 => \E i \in Inputs : myrunnumber'[i] = runheader'
<1> DEFINE N == Cardinality(Inputs)
<1>1. /\ N \in Inputs /\ N \in Nat /\ Inputs = 1..N
      /\ runheader' = HeaderAfter(N) /\ myrunnumber' = [i \in Inputs |-> RunNumberAfter(i)]
  <2>1. Inputs = 1..N /\ N \in Nat /\ Inputs # {}
    BY InputAssumption, FS_CardinalityType
  <2>2. 1..N # {}
    BY <2>1
  <2> HIDE DEF N
  <2>3. N >= 1
    BY <2>1, <2>2
  <2>4. N \in 1..N
    BY <2>1, <2>3
  <2>5. QED
    BY <2>1, <2>4 DEF ReadRunNodes, N
<1> HIDE DEF N
<1>2. /\ myrunnumber' \in [Inputs -> Nat] /\ runheader' \in Nat
      /\ \A i \in Inputs \cap noruntree : myrunnumber'[i] = 0
  BY <1>1, NumberRead
<1>3. \/ (\A k \in 1..N : Headed(k) = {}) /\ runheader' = runheader
      \/ \E k \in 1..N : /\ k \in Inputs /\ Headed(k) # {}
                         /\ \A l \in (k + 1)..N : Headed(l) = {}
                         /\ runheader' = FileRun[in[k].filelist[Max(Headed(k))]]
                         /\ runheader' \in Nat \ {0}
  BY <1>1, HeaderIs
<1>4. CASE (\A k \in 1..N : Headed(k) = {}) /\ runheader' = runheader
  <2>1. ASSUME NEW i \in Inputs
        PROVE  HeaderAfter(i) = runheader
    <3>1. 1..i \subseteq 1..N
      BY <1>1
    <3>2. \A k \in 1..i : Headed(k) = {}
      BY <1>4, <3>1
    <3>3. QED
      BY <3>2, HeaderIs
  <2>2. runheader' = 0 => \A i \in Inputs : myrunnumber'[i] = 0
    BY <1>1, <1>4, <2>1, NumberRead
  <2>3. ASSUME runheader # 0
        PROVE  \E i \in Inputs : myrunnumber'[i] = runheader'
    <3>1. PICK i \in Inputs : myrunnumber[i] = runheader
      BY <2>3 DEF RunsRead
    <3>2. RunNumberAfter(i) = runheader
      BY <2>1, <3>1 DEF RunNumberAfter
    <3>3. QED
      BY <1>1, <1>4, <3>1, <3>2
  <2>4. QED
    BY <1>2, <1>4, <2>2, <2>3
<1>5. ASSUME NEW k \in 1..N, k \in Inputs, Headed(k) # {},
             \A l \in (k + 1)..N : Headed(l) = {},
             runheader' = FileRun[in[k].filelist[Max(Headed(k))]],
             runheader' \in Nat \ {0}
      PROVE  runheader' # 0 /\ \E i \in Inputs : myrunnumber'[i] = runheader'
  <2>1. HeaderAfter(k) = runheader'
    <3>1. k \in 1..k
      BY <1>1, <1>5
    <3>2. PICK j \in 1..k : /\ j \in Inputs /\ Headed(j) # {}
                            /\ \A l \in (j + 1)..k : Headed(l) = {}
                            /\ HeaderAfter(k) = FileRun[in[j].filelist[Max(Headed(j))]]
      BY <1>5, <3>1, HeaderIs
    <3>3. j = k
      <4>1. k \notin (j + 1)..k
        BY <1>5, <3>2
      <4>2. QED
        BY <1>1, <3>1, <4>1
    <3>4. QED
      BY <1>5, <3>2, <3>3
  <2>2. k \notin noruntree /\ Opened(k) # {}
    BY <1>5, HeadedIs
  <2>3. RunNumberAfter(k) = runheader'
    BY <1>5, <2>1, <2>2 DEF RunNumberAfter
  <2>4. QED
    BY <1>1, <1>5, <2>3
<1>6. QED
  BY <1>2, <1>3, <1>4, <1>5

LEMMA RunsReadAll ==
  ASSUME InputsInStep, RunsRead, ReadAll
  PROVE  RunsRead'
<1>1. /\ pc = "sync" /\ ReadRunNodes /\ noruntree' = noruntree
      /\ in' = [i \in Inputs |-> InputRun(in[i])]
      /\ myrunnumber' = [i \in Inputs |-> RunNumberAfter(i)]
      /\ \A i \in Inputs : Left(in[i]) # {}
  BY DEF ReadAll, ReadRunNodes, Failed
<1>2. \A i \in Inputs \ noruntree : FileRun[in'[i].filelist[1]] \in {0, myrunnumber'[i]}
  BY <1>1, NumberRead
<1>3. QED
  BY <1>1, <1>2, NumbersRead DEF RunsRead

\* Rewound, pushed back, or the end of the program
LEMMA RunsReadOthers ==
  ASSUME InputsInStep, RunsRead, RepeatAll \/ RepeatFails \/ ReadError
  PROVE  RunsRead'
<1>1. /\ pc = "sync" /\ ReadRunNodes /\ noruntree' = noruntree
      /\ myrunnumber' = [i \in Inputs |-> RunNumberAfter(i)]
  BY DEF RepeatAll, RepeatFails, ReadError, ReadOthers, ReadRunNodes
<1>2. ASSUME pc' # "exit", NEW i \in Inputs \ noruntree, in'[i].isopen
      PROVE  FileRun[in'[i].filelist[1]] \in {0, myrunnumber'[i]}
  <2>1. CASE RepeatAll
    <3>1. in'[i] = InputInit(filelist_copy[i])
      BY <2>1 DEF RepeatAll
    <3>2. QED
      BY <1>2, <3>1 DEF InputInit
  <2>2. CASE ReadError
    <3>1. in'[i] = IF i \in Failed THEN InputRun(in[i]) ELSE PushBackEvents(InputRun(in[i]), 1)
      BY <2>2 DEF ReadError
    <3>2. CASE i \in Failed
      <4>1. ~in'[i].isopen
        BY <3>1, <3>2 DEF Failed, InputRun, InputInit
      <4>2. QED
        BY <1>2, <4>1
    <3>3. CASE i \notin Failed
      <4> DEFINE r == InputRun(in[i])
      <4>1. Left(in[i]) # {} /\ in[i] \in InputState
        BY <3>3 DEF Failed, InputsInStep
      <4>2. r \in InputState
        BY <4>1, ReadIs
      <4>3. FileRun[r.filelist[1]] \in {0, RunNumberAfter(i)}
        BY <1>1, <4>1, NumberRead
      <4>4. in'[i].filelist = r.filelist
        <5> HIDE DEF r
        <5>1. r \in [filelist : Seq(Files), isopen : BOOLEAN, eventNumber : Nat]
          BY <4>2 DEF InputState
        <5>2. in'[i] = PushBackEvents(r, 1)
          BY <3>1, <3>3 DEF r
        <5>3. QED
          BY <5>1, <5>2 DEF PushBackEvents
      <4>5. QED
        BY <1>1, <4>3, <4>4
    <3>4. QED
      BY <3>2, <3>3
  <2>3. CASE RepeatFails
    BY <1>2, <2>3 DEF RepeatFails
  <2>4. QED
    BY <2>1, <2>2, <2>3
<1>3. QED
  BY <1>1, <1>2, NumbersRead DEF RunsRead

LEMMA RunsReset ==
  ASSUME InputsInStep, RunsRead, ResetAndReadAgain
  PROVE  RunsRead'
<1>1. /\ in' = [i \in Inputs |-> PushBackEvents(in[i], 1)]
      /\ pc = "reset" /\ UNCHANGED <<noruntree, myrunnumber, runheader>>
  BY DEF ResetAndReadAgain, runVars
<1>2. ASSUME NEW i \in Inputs
      PROVE  in'[i].isopen = in[i].isopen /\ in'[i].filelist = in[i].filelist
  <2> DEFINE r == in[i]
  <2>1. r \in [filelist : Seq(Files), isopen : BOOLEAN, eventNumber : Nat] /\ in'[i] = PushBackEvents(r, 1)
    BY <1>1 DEF InputsInStep, InputState
  <2> HIDE DEF r
  <2>2. in'[i].isopen = r.isopen /\ in'[i].filelist = r.filelist
    BY <2>1 DEF PushBackEvents
  <2>3. QED
    BY <2>2 DEF r
<1>3. QED
  BY <1>1, <1>2 DEF RunsRead

LEMMA RunsOpen ==
  ASSUME InputsInStep, RunsRead, NEW k \in Inputs, NEW f \in Files, FileOpen(k, f)
  PROVE  RunsRead'
<1> DEFINE r == [filelist |-> <<f>>, isopen |-> TRUE, eventNumber |-> 0]
<1>1. /\ pc = "macro" /\ in' = [in EXCEPT ![k] = r] /\ noruntree' = noruntree
      /\ runheader' = IF k \in noruntree \/ FileRun[f] = 0 THEN runheader ELSE FileRun[f]
      /\ myrunnumber' = IF k \in noruntree \/ runheader' = 0 THEN myrunnumber
                        ELSE [myrunnumber EXCEPT ![k] = runheader']
  BY DEF FileOpen
<1>2. /\ FileRun[f] \in Nat /\ r.isopen /\ r.filelist[1] = f
      /\ in'[k] = r /\ \A i \in Inputs : i # k => in'[i] = in[i]
  BY <1>1, Numbers DEF InputsInStep
<1> HIDE DEF r
<1>3. /\ myrunnumber' \in [Inputs -> Nat] /\ runheader' \in Nat
      /\ \A i \in Inputs : i # k => myrunnumber'[i] = myrunnumber[i]
  BY <1>1, <1>2 DEF RunsRead
<1>4. ASSUME NEW i \in Inputs \ noruntree, in'[i].isopen
      PROVE  FileRun[in'[i].filelist[1]] \in {0, myrunnumber'[i]}
  <2>1. CASE i = k
    BY <1>1, <1>2, <2>1 DEF RunsRead
  <2>2. CASE i # k
    BY <1>1, <1>2, <1>3, <1>4, <2>2 DEF RunsRead
  <2>3. QED
    BY <2>1, <2>2
<1>5. \A i \in Inputs \cap noruntree : myrunnumber'[i] = 0
  BY <1>1, <1>3 DEF RunsRead
<1>6. ASSUME runheader' = 0
      PROVE  \A i \in Inputs : myrunnumber'[i] = 0
  BY <1>1, <1>6 DEF RunsRead
<1>7. ASSUME runheader' # 0
      PROVE  \E i \in Inputs : myrunnumber'[i] = runheader'
  <2>1. CASE k \in noruntree
    BY <1>1, <1>7, <2>1 DEF RunsRead
  <2>2. CASE k \notin noruntree
    BY <1>1, <1>7, <2>2 DEF RunsRead
  <2>3. QED
    BY <2>1, <2>2
<1>8. QED
  BY <1>1, <1>3, <1>4, <1>5, <1>6, <1>7 DEF RunsRead

-----------------------------------------------------------------------------
(* The modules are registered consistently.                                *)

LEMMA ModuleTypes ==
  ASSUME Registered
  PROVE  /\ Len(Subsystems) \in Nat /\ DOMAIN Subsystems = 1..Len(Subsystems)
         /\ \A k \in 1..Len(Subsystems) : Subsystems[k] \in ToSet(Modules)
         /\ \A j, k \in 1..Len(Subsystems) : Subsystems[j] = Subsystems[k] => j = k
         /\ DOMAIN RetCodes = 1..Len(Subsystems)
         /\ \A k \in 1..Len(Subsystems) : RetCodes[k] \in Int
BY DEF Registered, IsInjective

LEMMA UnregisterInv ==
  ASSUME Registered, UnregisterNow
  PROVE  Registered' /\ ToSet(Subsystems') \subseteq ToSet(Subsystems)
<1> DEFINE S == {k \in DOMAIN Subsystems : Subsystems[k] \notin DeleteSubsystems}
           n == Cardinality(S)
           kept == InOrder(S)
<1>1. S \subseteq 1..Len(Subsystems) /\ Len(Subsystems) \in Nat
  BY ModuleTypes
<1>2. /\ IsFiniteSet(S)
      /\ \E f \in [1..n -> S] : \A i, j \in DOMAIN f : i < j => f[i] < f[j]
  BY <1>1, Ordered
<1>3. n \in Nat
  BY <1>2, FS_CardinalityType
<1>4. kept \in [1..n -> S] /\ \A i, j \in DOMAIN kept : i < j => kept[i] < kept[j]
  BY <1>2 DEF InOrder
<1>5. /\ Subsystems' = [k \in DOMAIN kept |-> Subsystems[kept[k]]]
      /\ RetCodes' = [k \in DOMAIN kept |-> RetCodes[kept[k]]]
      /\ UpdateEventSelectors(Subsystems')
  BY DEF UnregisterNow
<1> HIDE DEF kept, n
<1>6. \A k \in 1..n : kept[k] \in S /\ kept[k] \in 1..Len(Subsystems)
  BY <1>1, <1>4
<1> HIDE DEF S
<1>7. DOMAIN kept = 1..n /\ \A i, j \in 1..n : kept[i] = kept[j] => i = j
  <2>1. DOMAIN kept = 1..n
    BY <1>4
  <2>2. ASSUME NEW i \in 1..n, NEW j \in 1..n, i < j
        PROVE  kept[i] # kept[j]
    <3>1. kept[i] < kept[j] /\ kept[i] \in Int
      BY <1>4, <1>6, <2>1, <2>2
    <3>2. QED
      BY <3>1
  <2>3. \A i, j \in 1..n : i < j \/ j < i \/ i = j
    BY <1>3
  <2>4. QED
    BY <2>1, <2>2, <2>3
<1>8. Subsystems' = [k \in 1..n |-> Subsystems[kept[k]]] /\ RetCodes' = [k \in 1..n |-> RetCodes[kept[k]]]
  BY <1>5, <1>7
<1>9. /\ \A k \in 1..n : Subsystems[kept[k]] \in ToSet(Modules) /\ RetCodes[kept[k]] \in Int
      /\ \A j, k \in 1..n : Subsystems[kept[j]] = Subsystems[kept[k]] => kept[j] = kept[k]
  BY <1>6, ModuleTypes
<1>10. Subsystems' \in Seq(ToSet(Modules))
  BY <1>3, <1>8, <1>9
<1>11. IsInjective(Subsystems')
  BY <1>7, <1>8, <1>9 DEF IsInjective
<1>12. RetCodes' \in [DOMAIN Subsystems' -> Int]
  BY <1>8, <1>9
<1>13. ToSet(Subsystems') \subseteq ToSet(Subsystems)
  <2>1. \A k \in 1..n : Subsystems[kept[k]] \in ToSet(Subsystems)
    BY <1>6, ModuleTypes DEF ToSet
  <2>2. QED
    BY <1>8, <2>1 DEF ToSet
<1>14. EventSelector' = [o \in OutputManagers |-> EventSelectors[o] \cap ToSet(Subsystems')]
  <2>1. EventSelector' = [o \in OutputManagers |-> EventSelector[o] \cap ToSet(Subsystems')]
    BY <1>5 DEF UpdateEventSelectors
  <2>2. \A o \in OutputManagers : EventSelector[o] = EventSelectors[o] \cap ToSet(Subsystems)
    BY DEF Registered
  <2>3. QED
    BY <1>13, <2>1, <2>2
<1>15. RecoModuleIndex' = [o \in OutputManagers |->
                             {k \in DOMAIN Subsystems' : Subsystems'[k] \in EventSelectors[o]}]
  <2>1. RecoModuleIndex' = [o \in OutputManagers |->
                             {k \in DOMAIN Subsystems' : Subsystems'[k] \in EventSelector'[o]}]
    BY <1>5 DEF UpdateEventSelectors
  <2>2. ASSUME NEW o \in OutputManagers, NEW k \in DOMAIN Subsystems'
        PROVE  Subsystems'[k] \in EventSelector'[o] <=> Subsystems'[k] \in EventSelectors[o]
    BY <1>14 DEF ToSet
  <2>3. QED
    BY <2>1, <2>2
<1>16. QED
  BY <1>10, <1>11, <1>12, <1>13, <1>14, <1>15 DEF Registered

LEMMA RegisteredKept ==
  ASSUME Registered, UNCHANGED <<Subsystems, EventSelector, RecoModuleIndex>>,
         \/ RetCodes' = RetCodes
         \/ \E k \in DOMAIN Subsystems, code \in Int : RetCodes' = [RetCodes EXCEPT ![k] = code]
  PROVE  Registered'
BY DEF Registered

-----------------------------------------------------------------------------
(* The return codes.                                                       *)

LEMMA CodesStart ==
  ASSUME Registered', StartEvent
  PROVE  CodesAreOfThisEvent'
<1>1. pc' = "module" /\ imod' = 1 /\ said' = NoCodes
  BY DEF StartEvent
<1>2. Len(Subsystems') \in Nat
  BY DEF Registered
<1>3. DOMAIN said' = {}
  BY <1>1 DEF NoCodes
<1>4. QED
  BY <1>1, <1>2, <1>3 DEF CodesAreOfThisEvent, Called

LEMMA CodesCall ==
  ASSUME Registered, CodesAreOfThisEvent, NEW code \in Int, CallModule(code)
  PROVE  CodesAreOfThisEvent'
<1> DEFINE n == Len(Subsystems)
           own == Subsystems[imod]
           before == 1..(imod - 1)
<1>1. /\ pc = "module" /\ imod <= n
      /\ RetCodes' = [RetCodes EXCEPT ![imod] = code]
      /\ said' = [m \in DOMAIN said \cup {own} |-> IF m = own THEN code ELSE said[m]]
      /\ Subsystems' = Subsystems
      /\ \/ code \in {EVENT_OK, DISCARDEVENT} /\ imod' = imod + 1 /\ pc' = pc
         \/ code = ABORTEVENT /\ pc' = "abort" /\ imod' = imod
         \/ pc' = "macro"
  BY DEF CallModule
<1>2. /\ imod \in 1..(n + 1) /\ n \in Nat
      /\ \A k \in before : RetCodes[k] \in {EVENT_OK, DISCARDEVENT}
      /\ DOMAIN said = {Subsystems[k] : k \in before}
      /\ \A k \in before : said[Subsystems[k]] = RetCodes[k]
  BY <1>1, ModuleTypes DEF CodesAreOfThisEvent, Called
<1>3. /\ imod \in 1..n /\ before \subseteq 1..n /\ imod \notin before
      /\ 1..imod = before \cup {imod}
  BY <1>1, <1>2
<1>4. RetCodes'[imod] = code /\ \A k \in before : RetCodes'[k] = RetCodes[k]
  BY <1>1, <1>3, ModuleTypes
<1>5. \A k \in before : Subsystems[k] # own
  BY <1>3, ModuleTypes
<1>6. DOMAIN said' = {own} \cup DOMAIN said /\ said'[own] = code
      /\ \A m \in DOMAIN said : m # own => said'[m] = said[m]
  BY <1>1
<1> HIDE DEF before, n
<1>7. DOMAIN said' = {Subsystems'[k] : k \in 1..imod}
  BY <1>1, <1>2, <1>3, <1>6
<1>8. \A k \in 1..imod : said'[Subsystems'[k]] = RetCodes'[k]
  BY <1>1, <1>2, <1>3, <1>4, <1>5, <1>6
<1>9. CASE code \in {EVENT_OK, DISCARDEVENT} /\ imod' = imod + 1 /\ pc' = pc
  <2>1. imod' - 1 = imod /\ imod' \in 1..(n + 1)
    BY <1>2, <1>3, <1>9 DEF n
  <2>2. \A k \in 1..imod : RetCodes'[k] \in {EVENT_OK, DISCARDEVENT}
    BY <1>2, <1>3, <1>4, <1>9
  <2>3. pc' = "module"
    BY <1>1, <1>9
  <2>4. Called' = 1..imod
    BY <2>1, <2>3 DEF Called
  <2>5. QED
    BY <1>1, <1>7, <1>8, <2>1, <2>2, <2>3, <2>4 DEF CodesAreOfThisEvent, n
<1>10. CASE code = ABORTEVENT /\ pc' = "abort" /\ imod' = imod
  <2>1. \A k \in 1..(imod - 1) : RetCodes'[k] \in {EVENT_OK, DISCARDEVENT}
    BY <1>2, <1>4 DEF before
  <2>2. Called' = 1..imod
    BY <1>10 DEF Called
  <2>3. RetCodes'[imod'] = ABORTEVENT /\ imod' <= Len(Subsystems')
    BY <1>1, <1>4, <1>10 DEF n
  <2>4. imod' \in 1..(Len(Subsystems') + 1)
    BY <1>1, <1>2, <1>10 DEF n
  <2>5. QED
    BY <1>7, <1>8, <1>10, <2>1, <2>2, <2>3, <2>4 DEF CodesAreOfThisEvent
<1>11. CASE pc' = "macro"
  BY <1>11 DEF CodesAreOfThisEvent, Called
<1>12. QED
  BY <1>1, <1>9, <1>10, <1>11

Ending == pc = "abort" \/ (pc = "module" /\ imod > Len(Subsystems))

\* When the event is over, the codes of the modules and what they have said is the same.
LEMMA CodesAtEnd ==
  ASSUME Registered, CodesAreOfThisEvent, Ending
  PROVE  /\ pc = "abort" => ABORTEVENT \in ToSet(RetCodes) /\ ABORTEVENT \in Range(said)
         /\ pc = "module" =>
              /\ \A k \in 1..Len(Subsystems) : /\ RetCodes[k] \in {EVENT_OK, DISCARDEVENT}
                                               /\ Subsystems[k] \in DOMAIN said
                                               /\ said[Subsystems[k]] = RetCodes[k]
              /\ ABORTEVENT \notin ToSet(RetCodes) /\ ABORTEVENT \notin Range(said)
<1>1. CASE pc = "abort"
  <2>1. /\ imod \in 1..Len(Subsystems) /\ RetCodes[imod] = ABORTEVENT
        /\ imod \in 1..imod
    BY <1>1, ModuleTypes DEF CodesAreOfThisEvent, Called
  <2>2. ABORTEVENT \in ToSet(RetCodes)
    BY <2>1, ModuleTypes DEF ToSet
  <2>3. Subsystems[imod] \in DOMAIN said /\ said[Subsystems[imod]] = ABORTEVENT
    BY <1>1, <2>1 DEF CodesAreOfThisEvent, Called
  <2>4. QED
    BY <1>1, <2>2, <2>3 DEF Range
<1>2. CASE pc = "module"
  <2>1. imod - 1 = Len(Subsystems)
    BY <1>2, ModuleTypes DEF Ending, CodesAreOfThisEvent, Called
  <2>2. /\ \A k \in 1..Len(Subsystems) : RetCodes[k] \in {EVENT_OK, DISCARDEVENT}
        /\ DOMAIN said = {Subsystems[k] : k \in 1..Len(Subsystems)}
        /\ \A k \in 1..Len(Subsystems) : said[Subsystems[k]] = RetCodes[k]
    BY <1>2, <2>1 DEF CodesAreOfThisEvent, Called
  <2>3. ABORTEVENT \notin ToSet(RetCodes)
    BY <2>2, ModuleTypes DEF ToSet, ABORTEVENT, EVENT_OK, DISCARDEVENT
  <2>4. ABORTEVENT \notin Range(said)
    BY <2>2 DEF Range, ABORTEVENT, EVENT_OK, DISCARDEVENT
  <2>5. QED
    BY <1>2, <2>2, <2>3, <2>4
<1>3. QED
  BY <1>1, <1>2 DEF Ending

LEMMA CountsFinish ==
  ASSUME Registered, CodesAreOfThisEvent, Counts, FinishEvent
  PROVE  Counts'
<1> DEFINE counted == icnt_good + IF ABORTEVENT \in ToSet(RetCodes) THEN 0 ELSE 1
<1>1. /\ Ending /\ pc \in Looping /\ request' = request /\ calls' = calls
      /\ good' = good + IF ABORTEVENT \in Range(said) THEN 0 ELSE 1
      /\ icnt_good' = IF request.require_nevents THEN counted ELSE icnt_good
      /\ icnt' = IF request.require_nevents \/ request.nevnts = 0 THEN icnt ELSE icnt + 1
  BY DEF FinishEvent, Ending, Looping
<1>2. ABORTEVENT \in ToSet(RetCodes) <=> ABORTEVENT \in Range(said)
  BY <1>1, CodesAtEnd DEF Ending
<1>3. /\ icnt \in Nat /\ icnt_good \in Nat /\ good \in Nat /\ request \in Requests
      /\ calls \in Nat /\ calls > 0
      /\ request.require_nevents => icnt_good = good
  BY <1>1 DEF Counts
<1>4. icnt' \in Nat /\ icnt_good' \in Nat /\ good' \in Nat
  BY <1>1, <1>3
<1>5. request.require_nevents => icnt_good' = good'
  BY <1>1, <1>2, <1>3
<1>6. QED
  BY <1>1, <1>3, <1>4, <1>5 DEF Counts

\* The sum of the return codes of the modules that an output manager selects by is 0 if and
\* only if each of them is.
LEMMA Selected ==
  ASSUME Registered, CodesAreOfThisEvent, Ending, pc = "module", NEW o \in OutputManagers
  PROVE  ~DoNotWriteEvent(o) <=>
           \A m \in EventSelectors[o] \cap ToSet(Subsystems) : m \in DOMAIN said /\ said[m] = EVENT_OK
<1> DEFINE K == {k \in 1..Len(Subsystems) : Subsystems[k] \in EventSelectors[o]}
<1>1. RecoModuleIndex[o] = K
  BY ModuleTypes DEF Registered
<1>2. IsFiniteSet(K)
  <2>1. IsFiniteSet(1..Len(Subsystems))
    BY ModuleTypes, FS_Interval
  <2>2. QED
    BY <2>1, FS_Subset
<1>3. \A k \in 1..Len(Subsystems) : /\ RetCodes[k] \in {EVENT_OK, DISCARDEVENT}
                                    /\ Subsystems[k] \in DOMAIN said
                                    /\ said[Subsystems[k]] = RetCodes[k]
  BY CodesAtEnd
<1>4. \A k \in K : RetCodes[k] \in Nat
  BY <1>3 DEF EVENT_OK, DISCARDEVENT
<1>5. SumFunctionOnSet(RetCodes, K) = 0 <=> \A k \in K : RetCodes[k] = 0
  BY <1>2, <1>4, SumOfNats
<1>6. (\A k \in K : RetCodes[k] = 0) <=>
        \A m \in EventSelectors[o] \cap ToSet(Subsystems) : m \in DOMAIN said /\ said[m] = EVENT_OK
  BY <1>3, ModuleTypes DEF ToSet, EVENT_OK
<1>7. QED
  BY <1>1, <1>5, <1>6 DEF DoNotWriteEvent

LEMMA WrittenFinish ==
  ASSUME Registered, CodesAreOfThisEvent, FinishEvent
  PROVE  WrittenIffSelected'
<1>1. /\ Ending
      /\ last' = [said |-> said, modules |-> ToSet(Subsystems), wrote |-> Write]
  BY DEF FinishEvent, Ending
<1>2. SUFFICES ASSUME NEW o \in OutputManagers
               PROVE  o \in Write <=>
                        /\ ABORTEVENT \notin Range(said)
                        /\ \A m \in EventSelectors[o] \cap ToSet(Subsystems) :
                             m \in DOMAIN said /\ said[m] = EVENT_OK
  BY <1>1 DEF WrittenIffSelected
<1>3. CASE pc = "abort"
  BY <1>1, <1>3, CodesAtEnd DEF Write
<1>4. CASE pc = "module"
  <2>1. ABORTEVENT \notin Range(said)
    BY <1>1, <1>4, CodesAtEnd
  <2>2. o \in Write <=> ~DoNotWriteEvent(o)
    BY <1>4 DEF Write
  <2>3. QED
    BY <1>1, <1>4, <2>1, <2>2, Selected
<1>5. QED
  BY <1>1, <1>3, <1>4 DEF Ending

-----------------------------------------------------------------------------
(* The runs.                                                               *)

\* The sync manager lets an event through only if the inputs agree on the run, and then
\* it is that of the RunHeader in the node tree.
LEMMA RunsAgree ==
  ASSUME InputsInStep, RunsRead, ReadAll, pc' = "begin"
  PROVE  OfRun(currentrun)'
<1> DEFINE N == RunNumbers(myrunnumber')
<1>1. /\ pc = "sync" /\ Failed = {} /\ Cardinality(N) <= 1 /\ ReadRunNodes
      /\ in' = [i \in Inputs |-> InputRun(in[i])]
      /\ node' = [i \in Inputs |-> InMemory(InputRun(in[i]))]
      /\ noruntree' = noruntree
      /\ currentrun' = IF N = {} THEN 0 ELSE CHOOSE r \in N : TRUE
  BY DEF ReadAll
<1>2. RunsRead'
  BY RunsReadAll
<1>3. IsFiniteSet(N)
  <2>1. IsFiniteSet({myrunnumber'[i] : i \in Inputs})
    <3> DEFINE T == {myrunnumber'[i] : i \in Inputs}
    <3>1. myrunnumber' \in Surjection(Inputs, T)
      <4>1. myrunnumber' \in [Inputs -> T] /\ \A t \in T : \E i \in Inputs : myrunnumber'[i] = t
        BY <1>2 DEF RunsRead
      <4> HIDE DEF T
      <4>2. QED
        BY <4>1 DEF Surjection
    <3> HIDE DEF T
    <3>2. IsFiniteSet(T)
      BY <3>1, InputAssumption, FS_Surjection
    <3>3. QED
      BY <3>2 DEF T
  <2>2. QED
    BY <2>1, FS_Subset DEF RunNumbers
<1>4. \A r \in N : r = currentrun'
  <2>1. ASSUME NEW r \in N PROVE N = {r}
    <3>1. Cardinality(N) \in Nat /\ N # {}
      BY <1>3, FS_CardinalityType
    <3>2. Cardinality(N) # 0
      BY <1>3, <3>1, FS_EmptySet
    <3>3. Cardinality(N) = 1
      BY <1>1, <3>1, <3>2
    <3> HIDE DEF N
    <3>4. \E x : N = {x}
      BY <1>3, <3>3, FS_Singleton
    <3>5. QED
      BY <3>4
  <2> HIDE DEF N
  <2>2. QED
    BY <1>1, <2>1
<1>5. \A i \in Inputs : myrunnumber'[i] = 0 \/ myrunnumber'[i] \in N
  BY DEF RunNumbers
<1>6. runheader' = currentrun'
  <2>1. CASE runheader' = 0
    <3>1. N = {}
      BY <1>2, <2>1 DEF RunsRead, RunNumbers
    <3>2. QED
      BY <1>1, <2>1, <3>1
  <2>2. CASE runheader' # 0
    <3>1. PICK i \in Inputs : myrunnumber'[i] = runheader'
      BY <1>2, <2>2 DEF RunsRead
    <3>2. runheader' \in N
      BY <1>5, <2>2, <3>1
    <3> HIDE DEF N
    <3>3. QED
      BY <1>4, <3>2
  <2>3. QED
    BY <2>1, <2>2
<1> HIDE DEF N
<1>7. ASSUME NEW i \in Inputs \ noruntree
      PROVE  FileRun[node'[i].file] \in {0, currentrun'}
  <2>1. in[i] \in InputState /\ Left(in[i]) # {}
    BY <1>1 DEF InputsInStep, Failed
  <2>2. node'[i].file = InputRun(in[i]).filelist[1]
    BY <1>1 DEF InMemory
  <2>3. in'[i] = InputRun(in[i]) /\ InputRun(in[i]).isopen
    BY <1>1, <2>1, ReadIs
  <2>4. FileRun[in'[i].filelist[1]] \in {0, myrunnumber'[i]}
    BY <1>1, <1>2, <2>3 DEF RunsRead
  <2>5. QED
    BY <1>4, <1>5, <2>2, <2>3, <2>4
<1>8. QED
  BY <1>1, <1>6, <1>7 DEF OfRun

LEMMA RunsBegin ==
  ASSUME Registered, RunsMatch, NewRun, ToSet(Subsystems') \subseteq ToSet(Subsystems)
  PROVE  RunsMatch'
<1>1. /\ pc = "begin" /\ pc' = "event" /\ ifirst' = FALSE
      /\ runnumber' = IF forced = 0 THEN currentrun ELSE runnumber
      /\ inRun' = [m \in ToSet(Modules) |-> IF m \in ToSet(Subsystems') THEN runnumber' ELSE NONE]
      /\ UNCHANGED <<node, runheader, noruntree, forced>>
  BY DEF NewRun, runVars
<1>2. ToSet(Subsystems) \subseteq ToSet(Modules)
  BY DEF Registered, ToSet
<1>3. \A m \in ToSet(Subsystems') : inRun'[m] = runnumber'
  BY <1>1, <1>2
<1>4. OfRun(currentrun)
  BY <1>1 DEF RunsMatch
<1>5. forced = 0 => OfRun(runnumber)'
  BY <1>1, <1>4 DEF OfRun
<1>6. forced' \in Nat /\ ifirst' \in BOOLEAN
  BY <1>1 DEF RunsMatch
<1>7. QED
  BY <1>1, <1>3, <1>5, <1>6 DEF RunsMatch

LEMMA RunsStart ==
  ASSUME RunsMatch, StartEvent, ToSet(Subsystems') \subseteq ToSet(Subsystems)
  PROVE  RunsMatch'
<1>1. /\ pc = "event" /\ pc' = "module"
      /\ UNCHANGED <<node, runheader, noruntree, forced, ifirst, inRun, runnumber>>
  BY DEF StartEvent, runVars
<1>2. QED
  BY <1>1 DEF RunsMatch, OfRun

\* The other steps change neither the runs nor the modules.
LEMMA RunsKept ==
  ASSUME RunsMatch, UNCHANGED <<forced, ifirst, inRun, runnumber, Subsystems>>,
         pc \notin {"ended", "exit"},
         \/ pc' \in {"macro", "sync", "reset", "exit"}
         \/ /\ pc \in {"module", "abort"} /\ pc' \in {"module", "abort"}
            /\ UNCHANGED <<node, runheader, noruntree>>
  PROVE  RunsMatch'
BY DEF RunsMatch, OfRun

LEMMA RunsSame ==
  ASSUME RunsMatch, SameRun
  PROVE  RunsMatch'
<1>1. /\ pc = "begin" /\ pc' = "event" /\ ~ifirst /\ (forced = 0 => currentrun = runnumber)
      /\ UNCHANGED <<node, runheader, noruntree, forced, ifirst, inRun, runnumber, Subsystems>>
  BY DEF SameRun, RunChanges, serverVars, runVars, RunsMatch
<1>2. QED
  BY <1>1 DEF RunsMatch, OfRun

-----------------------------------------------------------------------------
(* The steps, one by one.                                                  *)

LEMMA InitInv == Init => IInv
<1> SUFFICES ASSUME Init PROVE IInv
  OBVIOUS
<1> USE DEF Init, SyncInit
<1>1. Rest
  <2>1. pc \in Looping \cup {"macro", "ended", "exit"} /\ resetnodetree \in BOOLEAN
    OBVIOUS
  <2>2. repeat \in Nat
    BY InputAssumption
  <2>3. iret \in Int /\ iret <= 0
    OBVIOUS
  <2>4. QED
    BY <2>1, <2>2, <2>3 DEF Rest
<1>2. InputsInStep
  <2>1. ASSUME NEW i \in Inputs
        PROVE  filelist_copy[i] \in Seq(Files) /\ in[i] \in Behind(served[i], Listed(i))
    <3>1. filelist_copy[i] \in Seq(Files)
      BY InputAssumption
    <3>2. InputInit(filelist_copy[i]) \in Behind(NONE, filelist_copy[i])
      BY <3>1, RewoundIsBehind
    <3>3. in[i] = InputInit(filelist_copy[i]) /\ served[i] = NONE
      OBVIOUS
    <3>4. QED
      BY <3>1, <3>2, <3>3 DEF Listed
  <2>2. in \in [Inputs -> InputState]
    BY <2>1, Beyond
  <2>3. QED
    BY <2>1, <2>2, InputAssumption DEF InputsInStep
<1>3. Registered
  <2>1. /\ Subsystems = Modules /\ RetCodes = [k \in DOMAIN Modules |-> 0]
        /\ EventSelector = EventSelectors
        /\ RecoModuleIndex = [o \in OutputManagers |-> {k \in DOMAIN Modules : Modules[k] \in EventSelectors[o]}]
    BY DEF EVENT_OK
  <2>2. Modules \in Seq(ToSet(Modules)) /\ IsInjective(Modules)
    BY ServerAssumption
  <2>3. EventSelectors = [o \in OutputManagers |-> EventSelectors[o] \cap ToSet(Modules)]
    BY ServerAssumption
  <2>4. QED
    BY <2>1, <2>2, <2>3 DEF Registered
<1>4. CodesAreOfThisEvent /\ WrittenIffSelected
  BY DEF CodesAreOfThisEvent, WrittenIffSelected
<1>5. Counts
  BY DEF Counts, Looping
<1>6. RunsMatch
  BY ServerAssumption DEF RunsMatch
<1>7. RunsRead
  BY DEF RunsRead, InputInit
<1>8. QED
  BY <1>1, <1>2, <1>3, <1>4, <1>5, <1>6, <1>7 DEF IInv

\* The modules and what they have said are left alone.
LEMMA ServerKept ==
  ASSUME IInv, UNCHANGED <<Subsystems, RetCodes, EventSelector, RecoModuleIndex, imod, said, last>>,
         pc' \notin {"module", "abort"}
  PROVE  Registered' /\ CodesAreOfThisEvent' /\ WrittenIffSelected'
BY RegisteredKept DEF IInv, CodesAreOfThisEvent, WrittenIffSelected

LEMMA CountsKept ==
  ASSUME Counts, UNCHANGED <<icnt, icnt_good, good, request, calls>>,
         pc' \in Looping => pc \in Looping,
         pc' = "macro" => pc \in Looping \cup {"macro"}
  PROVE  Counts'
BY DEF Counts

\* Nothing is read or opened.
LEMMA RunsReadKept ==
  ASSUME RunsRead, UNCHANGED <<in, runVars, noruntree>>, pc # "exit"
  PROVE  RunsRead'
BY DEF RunsRead, runVars

LEMMA ReadInv ==
  ASSUME IInv, Read
  PROVE  IInv'
<1>1. /\ UNCHANGED serverVars /\ pc = "sync" /\ pc' \in {"sync", "reset", "begin", "exit", "macro"}
      /\ ReadAll \/ RepeatAll \/ RepeatFails \/ ReadError
  BY DEF Read, SyncManagerRun, ReadAll, RepeatAll, RepeatFails, ReadError
<1>2. Registered' /\ CodesAreOfThisEvent' /\ WrittenIffSelected'
  BY <1>1, ServerKept DEF serverVars
<1>3. Counts'
  BY <1>1, CountsKept DEF IInv, serverVars, Looping
<1>4. InputsInStep'
  BY <1>1, InputsRead, InputsRepeat, InputsFail, InputsReadError DEF IInv
<1>5. RunsRead'
  BY <1>1, RunsReadAll, RunsReadOthers DEF IInv
<1>6. RunsMatch'
  <2>1. CASE pc' = "begin"
    <3>1. ReadAll
      BY <1>1, <2>1 DEF RepeatAll, RepeatFails, ReadError
    <3>2. OfRun(currentrun)'
      BY <2>1, <3>1, RunsAgree DEF IInv
    <3>3. QED
      BY <1>1, <2>1, <3>2 DEF IInv, RunsMatch, serverVars
  <2>2. CASE pc' # "begin"
    BY <1>1, <2>2, RunsKept DEF IInv, serverVars
  <2>3. QED
    BY <2>1, <2>2
<1>7. Rest'
  <2>1. CASE ReadAll
    BY <1>1, <2>1 DEF IInv, Rest, ReadAll, Looping
  <2>2. CASE RepeatAll
    BY <1>1, <2>2 DEF IInv, Rest, RepeatAll, Looping
  <2>3. CASE RepeatFails
    BY <1>1, <2>3 DEF IInv, Rest, RepeatFails, Looping
  <2>4. CASE ReadError
    <3>1. IsFiniteSet(Failed)
      BY InputAssumption, FS_Subset DEF Failed
    <3>2. Cardinality(Failed) \in Nat
      BY <3>1, FS_CardinalityType
    <3>3. iret' = -Cardinality(Failed) /\ pc' = "macro" /\ UNCHANGED <<repeat, resetnodetree>>
      BY <2>4 DEF ReadError
    <3> HIDE DEF Failed
    <3>4. QED
      BY <3>2, <3>3 DEF IInv, Rest, Looping
  <2>5. QED
    BY <1>1, <2>1, <2>2, <2>3, <2>4
<1>8. QED
  BY <1>2, <1>3, <1>4, <1>5, <1>6, <1>7 DEF IInv

LEMMA ResetInv ==
  ASSUME IInv, ResetAndReadAgain
  PROVE  IInv'
<1>1. /\ UNCHANGED serverVars /\ pc = "reset" /\ pc' = "sync"
      /\ resetnodetree' = FALSE /\ UNCHANGED <<repeat, iret>>
  BY DEF ResetAndReadAgain
<1>2. Registered' /\ CodesAreOfThisEvent' /\ WrittenIffSelected'
  BY <1>1, ServerKept DEF serverVars
<1>3. Counts' /\ RunsMatch'
  BY <1>1, CountsKept, RunsKept DEF IInv, serverVars, Looping
<1>4. InputsInStep' /\ RunsRead'
  BY InputsReset, RunsReset DEF IInv
<1>5. Rest'
  BY <1>1 DEF IInv, Rest, Looping
<1>6. QED
  BY <1>2, <1>3, <1>4, <1>5 DEF IInv

LEMMA NewRunInv ==
  ASSUME IInv, NewRun
  PROVE  IInv'
<1>1. /\ UnregisterNow /\ pc = "begin" /\ pc' = "event"
      /\ UNCHANGED <<filelist_copy, noruntree, in, runVars, node, repeat, resetnodetree, iret,
                     served, request, icnt, icnt_good, good, calls, last>>
  BY DEF NewRun
<1>2. Registered' /\ ToSet(Subsystems') \subseteq ToSet(Subsystems)
  BY <1>1, UnregisterInv DEF IInv
<1>3. CodesAreOfThisEvent' /\ WrittenIffSelected'
  BY <1>1 DEF IInv, CodesAreOfThisEvent, WrittenIffSelected
<1>4. Counts' /\ InputsInStep' /\ RunsRead'
  BY <1>1, CountsKept, InputsKept, RunsReadKept DEF IInv, Looping
<1>5. RunsMatch'
  BY <1>2, RunsBegin DEF IInv
<1>6. Rest'
  BY <1>1 DEF IInv, Rest, Looping
<1>7. QED
  BY <1>2, <1>3, <1>4, <1>5, <1>6 DEF IInv

LEMMA SameRunInv ==
  ASSUME IInv, SameRun \/ InitRunFails
  PROVE  IInv'
<1>1. /\ UNCHANGED serverVars /\ pc = "begin" /\ pc' \in {"event", "exit"}
      /\ UNCHANGED <<filelist_copy, noruntree, in, runVars, node, repeat, resetnodetree, iret, served>>
  BY DEF SameRun, InitRunFails
<1>2. Registered' /\ CodesAreOfThisEvent' /\ WrittenIffSelected'
  BY <1>1, ServerKept DEF serverVars
<1>3. Counts' /\ InputsInStep' /\ RunsRead'
  BY <1>1, CountsKept, InputsKept, RunsReadKept DEF IInv, serverVars, Looping
<1>4. RunsMatch'
  <2>1. CASE SameRun
    BY <2>1, RunsSame DEF IInv
  <2>2. CASE InitRunFails
    BY <1>1, <2>2, RunsKept DEF IInv, InitRunFails, serverVars
  <2>3. QED
    BY <2>1, <2>2
<1>5. Rest'
  BY <1>1 DEF IInv, Rest, Looping
<1>6. QED
  BY <1>2, <1>3, <1>4, <1>5 DEF IInv

LEMMA StartInv ==
  ASSUME IInv, StartEvent
  PROVE  IInv'
<1>1. /\ UnregisterNow /\ pc = "event" /\ pc' = "module"
      /\ UNCHANGED <<noruntree, in, runVars, repeat, resetnodetree, iret, request, icnt,
                     icnt_good, good, calls, last>>
  BY DEF StartEvent
<1>2. Registered' /\ ToSet(Subsystems') \subseteq ToSet(Subsystems)
  BY <1>1, UnregisterInv DEF IInv
<1>3. CodesAreOfThisEvent'
  BY <1>2, CodesStart
<1>4. WrittenIffSelected'
  BY <1>1 DEF IInv, WrittenIffSelected
<1>5. Counts' /\ InputsInStep' /\ RunsRead' /\ RunsMatch'
  BY <1>1, <1>2, CountsKept, InputsStart, RunsReadKept, RunsStart DEF IInv, Looping
<1>6. Rest'
  BY <1>1 DEF IInv, Rest, Looping
<1>7. QED
  BY <1>2, <1>3, <1>4, <1>5, <1>6 DEF IInv

LEMMA CallInv ==
  ASSUME IInv, NEW code \in {EVENT_OK, DISCARDEVENT, ABORTEVENT, ABORTRUN}, CallModule(code)
  PROVE  IInv'
<1>1. /\ pc = "module" /\ pc' \in {"module", "abort", "macro"} /\ imod <= Len(Subsystems)
      /\ RetCodes' = [RetCodes EXCEPT ![imod] = code]
      /\ iret' \in {iret, ABORTRUN}
      /\ UNCHANGED <<filelist_copy, noruntree, in, runVars, node, repeat, resetnodetree, served,
                     Subsystems, EventSelector, RecoModuleIndex, runnumber, ifirst, forced,
                     request, icnt, icnt_good, calls, inRun, good, last>>
  BY DEF CallModule
<1>2. code \in Int
  BY DEF EVENT_OK, DISCARDEVENT, ABORTEVENT, ABORTRUN
<1>3. Registered'
  <2>1. imod \in DOMAIN Subsystems
    BY <1>1, ModuleTypes DEF IInv, CodesAreOfThisEvent
  <2>2. QED
    BY <1>1, <1>2, <2>1, RegisteredKept DEF IInv
<1>4. CodesAreOfThisEvent'
  BY <1>2, CodesCall DEF IInv
<1>5. WrittenIffSelected'
  BY <1>1 DEF IInv, WrittenIffSelected
<1>6. Counts' /\ InputsInStep' /\ RunsRead' /\ RunsMatch'
  BY <1>1, CountsKept, InputsKept, RunsReadKept, RunsKept DEF IInv, Looping, runVars
<1>7. Rest'
  BY <1>1 DEF IInv, Rest, Looping, ABORTRUN
<1>8. QED
  BY <1>3, <1>4, <1>5, <1>6, <1>7 DEF IInv

LEMMA FinishInv ==
  ASSUME IInv, FinishEvent
  PROVE  IInv'
<1>1. /\ pc \in {"module", "abort"} /\ pc' \in {"macro", "sync"}
      /\ node' = [i \in Inputs |-> NONE] /\ resetnodetree' = FALSE
      /\ UNCHANGED <<filelist_copy, noruntree, in, runVars, repeat, iret, served, moduleVars,
                     runnumber, ifirst, forced, inRun>>
  BY DEF FinishEvent
<1>2. Registered' /\ CodesAreOfThisEvent'
  BY <1>1, RegisteredKept DEF IInv, moduleVars, CodesAreOfThisEvent
<1>3. Counts' /\ WrittenIffSelected'
  BY CountsFinish, WrittenFinish DEF IInv
<1>4. InputsInStep' /\ RunsRead' /\ RunsMatch'
  BY <1>1, InputsKept, RunsReadKept, RunsKept DEF IInv, moduleVars
<1>5. Rest'
  BY <1>1 DEF IInv, Rest, Looping
<1>6. QED
  BY <1>2, <1>3, <1>4, <1>5 DEF IInv

\* The macro: run(), fileopen(), End().
LEMMA MacroInv ==
  ASSUME IInv, Macro
  PROVE  IInv'
<1>1. ASSUME NEW r \in Requests, Run(r)
      PROVE  IInv'
  <2>1. /\ pc = "macro" /\ pc' = "sync" /\ request' = r
        /\ icnt' = 0 /\ icnt_good' = 0 /\ good' = 0 /\ iret' = 0 /\ resetnodetree' = FALSE
        /\ calls' = calls + 1
        /\ UNCHANGED <<filelist_copy, noruntree, in, runVars, node, repeat, served, moduleVars,
                       runnumber, ifirst, forced, imod, said, inRun, last>>
    BY <1>1 DEF Run
  <2>2. Registered' /\ CodesAreOfThisEvent' /\ WrittenIffSelected'
    BY <2>1, ServerKept DEF moduleVars
  <2>3. Counts'
    BY <2>1 DEF IInv, Counts
  <2>4. InputsInStep' /\ RunsRead' /\ RunsMatch'
    BY <2>1, InputsKept, RunsReadKept, RunsKept DEF IInv, moduleVars
  <2>5. Rest'
    <3>1. pc' \in Looping /\ resetnodetree' \in BOOLEAN /\ repeat' = repeat
      BY <2>1, Zenon DEF Looping
    <3>2. repeat \in Nat
      BY DEF IInv, Rest
    <3>3. iret' \in Int /\ iret' <= 0
      BY <2>1
    <3>4. QED
      BY <3>1, <3>2, <3>3 DEF Rest
  <2>6. QED
    BY <2>2, <2>3, <2>4, <2>5 DEF IInv
<1>2. ASSUME NEW i \in Inputs, NEW f \in Files, FileOpen(i, f), UNCHANGED serverVars
      PROVE  IInv'
  <2>1. pc = "macro" /\ pc' = "macro" /\ UNCHANGED <<repeat, resetnodetree, iret>>
    BY <1>2 DEF FileOpen
  <2>2. Registered' /\ CodesAreOfThisEvent' /\ WrittenIffSelected'
    BY <1>2, <2>1, ServerKept DEF serverVars
  <2>3. Counts' /\ RunsMatch'
    BY <1>2, <2>1, CountsKept, RunsKept DEF IInv, serverVars, Looping
  <2>4. InputsInStep' /\ RunsRead'
    BY <1>2, InputsOpen, RunsOpen DEF IInv
  <2>5. Rest'
    BY <2>1 DEF IInv, Rest, Looping
  <2>6. QED
    BY <2>2, <2>3, <2>4, <2>5 DEF IInv
<1>3. CASE End
  <2>1. /\ pc = "macro" /\ pc' = "ended"
        /\ UNCHANGED <<filelist_copy, noruntree, in, runVars, node, repeat, resetnodetree, iret,
                       served, moduleVars, ifirst, forced, request, icnt, icnt_good, imod,
                       calls, said, good, last>>
    BY <1>3 DEF End
  <2>2. Registered' /\ CodesAreOfThisEvent' /\ WrittenIffSelected'
    BY <2>1, ServerKept DEF moduleVars
  <2>3. Counts' /\ InputsInStep' /\ RunsRead'
    BY <2>1, CountsKept, InputsKept, RunsReadKept DEF IInv, Looping
  <2>4. RunsMatch'
    BY <2>1 DEF IInv, RunsMatch
  <2>5. Rest'
    BY <2>1 DEF IInv, Rest, Looping
  <2>6. QED
    BY <2>2, <2>3, <2>4, <2>5 DEF IInv
<1>4. QED
  BY <1>1, <1>2, <1>3 DEF Macro

LEMMA NextInv == IInv /\ [Next]_vars => IInv'
<1> SUFFICES ASSUME IInv, [Next]_vars
             PROVE  IInv'
  OBVIOUS
<1>1. CASE EventLoop
  BY <1>1, ReadInv, ResetInv, NewRunInv, SameRunInv, StartInv, CallInv, FinishInv DEF EventLoop
<1>2. CASE Macro
  BY <1>2, MacroInv
<1>3. CASE UNCHANGED vars
  <2>1. UNCHANGED syncVars /\ UNCHANGED serverVars
    BY <1>3 DEF vars
  <2>2. Rest' /\ InputsInStep' /\ RunsRead'
    BY <2>1 DEF syncVars, IInv, Rest, InputsInStep, Listed, RunsRead
  <2>3. Registered' /\ CodesAreOfThisEvent' /\ Counts' /\ WrittenIffSelected'
    BY <2>1 DEF syncVars, serverVars, IInv, Registered, CodesAreOfThisEvent, Called, Counts,
       WrittenIffSelected
  <2>4. RunsMatch'
    BY <2>1 DEF syncVars, serverVars, IInv, RunsMatch, OfRun
  <2>5. QED
    BY <2>2, <2>3, <2>4 DEF IInv
<1>4. QED
  BY <1>1, <1>2, <1>3 DEF Next, Terminated

-----------------------------------------------------------------------------
(* The theorems.                                                           *)

(* The inputs stay in step, the tables of the modules and the return codes *)
(* fit together, and the counts, the runs and the output files with them.  *)
THEOREM Invariance == Spec => []IInv
BY InitInv, NextInv, PTL DEF Spec

(* The variables have their types; above all no input is ever pushed back  *)
(* below the beginning of its file.                                        *)
THEOREM TypeCorrect == Spec => []TypeOK
<1>1. ASSUME IInv
      PROVE  TypeOK
  <2>1. ASSUME NEW i \in Inputs
        PROVE  /\ in[i].filelist \in Seq(Files) /\ in[i].isopen \in BOOLEAN
               /\ in[i].eventNumber \in Nat /\ myrunnumber[i] \in Nat
    BY <1>1, StateTypes DEF IInv, InputsInStep, RunsRead
  <2>2. ToSet(Subsystems) \subseteq ToSet(Modules) /\ IsInjective(Subsystems)
    BY <1>1 DEF IInv, Registered, ToSet
  <2>3. \A o \in OutputManagers : RecoModuleIndex[o] \subseteq DOMAIN Subsystems
    BY <1>1 DEF IInv, Registered
  <2>4. QED
    BY <1>1, <2>1, <2>2, <2>3 DEF TypeOK, IInv, Rest, Counts, Looping
<1>2. QED
  BY <1>1, Invariance, PTL

(* From one event loop to the next every input moves on by one event, from *)
(* the last of a file to the first of the next that has one, and skips     *)
(* none: whatever lists the inputs have, wherever they end, start over or  *)
(* are continued by the macro.                                             *)
THEOREM EveryEventOnceCorrect == Spec => []EveryEventOnce
<1>1. ASSUME IInv
      PROVE  EveryEventOnce
  <2>1. ASSUME pc \in {"begin", "event"}, NEW i \in Inputs
        PROVE  \/ served[i] # NONE /\ node[i] = [served[i] EXCEPT !.no = @ + 1]
               \/ /\ served[i] # NONE => served[i].no = FileEvents[served[i].file]
                  /\ \/ node[i] \in FirstEvents(Listed(i))
                     \/ FirstEvents(Listed(i)) = {} /\ node[i].no = 1 /\ node[i].rest = <<>>
    <3>1. in[i] \in OneBeyond(served[i], Listed(i)) /\ node[i] = InMemory(in[i])
      BY <1>1, <2>1 DEF IInv, InputsInStep
    <3>2. QED
      BY <1>1, <3>1, InMemoryIsNext, ListedTypes DEF IInv
  <2>2. QED
    BY <2>1 DEF EveryEventOnce, Listed
<1>2. QED
  BY <1>1, Invariance, PTL

(* Modules see an event in its own run: each that is registered has begun  *)
(* the run of the files and of the RunHeader that all inputs share, and    *)
(* not ended it, in whatever order the inputs open files with and without  *)
(* a header, for any changes of the run that the sync manager lets         *)
(* through, and any removals of modules.                                   *)
THEOREM EventsWithinRunsCorrect == Spec => []EventsWithinRuns
<1>1. IInv => EventsWithinRuns
  BY DEF IInv, RunsMatch, OfRun, EventsWithinRuns
<1>2. QED
  BY <1>1, Invariance, PTL

(* An output manager writes an event if and only if no module aborted it   *)
(* and all it selects by accepted it, whichever modules have been removed. *)
THEOREM WrittenIffSelectedCorrect == Spec => []WrittenIffSelected
<1>1. IInv => WrittenIffSelected
  BY DEF IInv
<1>2. QED
  BY <1>1, Invariance, PTL

(* run(nevnts, true) counts the events that no module aborted, no others,  *)
(* while it runs and when it has returned.                                 *)
THEOREM GoodEventsCountedCorrect == Spec => []GoodEventsCounted
<1>1. IInv => GoodEventsCounted
  BY DEF IInv, Counts, Looping, GoodEventsCounted
<1>2. QED
  BY <1>1, Invariance, PTL
=============================================================================
