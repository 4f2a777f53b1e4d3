---------------------------- MODULE OnlMonServer ----------------------------
(***************************************************************************)
(* The online monitoring: the decoder process with its main thread         *)
(* (OnlMonClient) and its server thread (OnlMonServer::FuncServer), and a  *)
(* viewer process with two threads, the one of the buttons (`gui`,         *)
(* OnlMonClient::StartMonitor) and the one that asks for the range of      *)
(* spills (`range`, OnlMonComm::ReceiveFullSpillRange).                    *)
(***************************************************************************)
EXTENDS OnlMonClient

CONSTANTS
  Requests,     \* <<lo, hi>> of OnlMonClient::ReceiveHist: <<0, 0>> is all
                \* spills, <<n, 0>> the last n, <<lo, hi>> a range
  MaxBacklog,   \* bound on the connections that wait, for model checking
  TORN          \* what is read from histograms that are being changed

ASSUME TornAssumption == TORN \notin Nat \cup [Events -> Nat]

Viewers == {"gui", "range"}
ANOTHER == "another"    \* another decoder process, which sends "Suicide"

VARIABLES
  alive,        \* is the decoder process there?
  svr,          \* where the server thread is
  ready,        \* m_svr_ready
  backlog,      \* connections; the first is being handled, if any is
  job,          \* the SUBSYS request being handled
  list_h1,      \* SendHist(): copies still to be sent
  v,            \* where each viewer thread is
  inbox,        \* what has been sent to the connection of a viewer thread
  broken,       \* has the other side closed it?
  got,          \* ReceiveHist(): m_list_h1
  cut           \* history: the moment at which the copies sent were made

svrVars == <<alive, svr, ready, backlog, job, list_h1>>
viewVars == <<v, inbox, broken, got>>
vars == <<mainVars, svrVars, viewVars, cut>>

NoCut == [of |-> NULL, names |-> Names]
NoJob == [of |-> NULL]

Init ==
  /\ MainInit
  /\ alive = TRUE
  /\ svr = IF is_online THEN "boot" ELSE "none"
  /\ ready = FALSE
  /\ backlog = <<>>
  /\ job = NoJob
  /\ list_h1 = <<>>
  /\ v = [k \in Viewers |-> "idle"]
  /\ inbox = [k \in Viewers |-> <<>>]
  /\ broken = [k \in Viewers |-> FALSE]
  /\ got = <<>>
  /\ cut = NoCut

-----------------------------------------------------------------------------
(* Connections.                                                            *)

Listening == alive /\ svr \notin {"none", "boot"}
Handling == alive /\ svr \in {"recv", "range", "lock", "merge", "send", "next"}
Current == Head(backlog)

Connection(who, msg, open) == [who |-> who, msgs |-> <<msg>>, open |-> open]

(* The connection of viewer thread `k`, which has at most one open.        *)
IsMine(conn, k) == conn.who = k /\ conn.open

Put(k, msg) ==
  backlog' = [i \in DOMAIN backlog |->
                IF IsMine(backlog[i], k) THEN [backlog[i] EXCEPT !.msgs = Append(@, msg)]
                ELSE backlog[i]]

Hangup(K) ==
  backlog' = [i \in DOMAIN backlog |->
                IF backlog[i].who \in K THEN [backlog[i] EXCEPT !.open = FALSE]
                ELSE backlog[i]]

(* sock->Send() by the server: lost if the viewer has hung up.             *)
Reply(msg) ==
  inbox' = IF Current.open /\ Current.who \in Viewers
           THEN [inbox EXCEPT ![Current.who] = Append(@, msg)] ELSE inbox

\* Mutant: the end of a connection is not noticed.
CanReadMessage == Current.msgs # <<>>

CanRead == Current.msgs # <<>> \/ ~Current.open
Consume == backlog' = <<[Current EXCEPT !.msgs = Tail(@)]>> \o Tail(backlog)

(* sock->Close() at the end of HandleConnection(), then the test of        *)
(* m_go_end in FuncServer().                                               *)
CloseConnection(end) ==
  /\ backlog' = Tail(backlog)
  /\ broken' = [k \in Viewers |-> broken[k] \/ IsMine(Current, k)]
  /\ svr' = IF end THEN "ended" ELSE "accept"

-----------------------------------------------------------------------------
(* The server thread.                                                      *)

(* FuncServer(): the port is bound, the server waits and declares itself   *)
(* ready.                                                                  *)
Boot ==
  /\ \/ svr = "boot" /\ svr' = "bound" /\ UNCHANGED ready
     \/ svr = "bound" /\ svr' = "accept" /\ ready' = TRUE
  /\ UNCHANGED <<alive, backlog, job, list_h1, viewVars, cut>>

\* Mutant: a null result of Accept() is not looked at.
AcceptAnyway ==
  /\ svr = "accept"
  /\ svr' = "recv"
  /\ UNCHANGED <<alive, ready, backlog, job, list_h1, viewVars, cut>>

Accept ==
  /\ svr = "accept"
  /\ backlog # <<>>
  /\ svr' = "recv"
  /\ UNCHANGED <<alive, ready, backlog, job, list_h1, viewVars, cut>>

(* HandleConnection(): the connection ends when the other side closes it,  *)
(* when the decoder is going to end, and after Suicide.                    *)
EndConnection ==
  /\ svr = "recv"
  /\ CanRead
  /\ LET suicide == Current.msgs # <<>> /\ Head(Current.msgs) = [type |-> "Suicide"]
     IN  /\ Current.msgs = <<>> \/ go_end \/ suicide
         /\ CloseConnection(go_end \/ suicide)
         /\ go_end' = (go_end \/ suicide)
  /\ UNCHANGED <<alive, ready, job, list_h1, v, inbox, got, cut>>

Message(type) ==
  /\ svr = "recv"
  /\ Current.msgs # <<>>
  /\ ~go_end
  /\ Head(Current.msgs).type = type
  /\ Consume

Ping ==
  /\ Message("Ping")
  /\ Reply([type |-> "Pong"])
  /\ UNCHANGED <<alive, svr, ready, job, list_h1, v, broken, got, cut>>

(* "Spill": FindFullSpillRange() sorts the list without the mutex.         *)
Spill ==
  /\ Message("Spill")
  /\ svr' = "range"
  /\ UNCHANGED <<alive, ready, job, list_h1, viewVars, cut>>

SendRange ==
  /\ svr = "range"
  /\ Reply([type |-> "Range", min |-> SpillMin, max |-> SpillMax, sel |-> sp_sel])
  /\ svr' = "recv"
  /\ UNCHANGED <<alive, ready, backlog, job, list_h1, v, broken, got, cut>>

(* "SUBSYS:name lo hi": SendHist() of that client.                         *)
Subsys ==
  /\ Message("SUBSYS")
  /\ LET m == Head(Current.msgs)
     IN  \/ /\ hm[m.of] = NULL
            /\ Reply([type |-> "NotReady"])
            /\ UNCHANGED <<svr, job>>
         \/ /\ hm[m.of] # NULL
            /\ job' = m
            /\ svr' = "lock"
            /\ UNCHANGED inbox
  /\ UNCHANGED <<alive, ready, list_h1, v, broken, got, cut>>

\* Mutant: no mutex.
DoNotLockForSend ==
  /\ svr = "lock"
  /\ svr' = "merge"
  /\ UNCHANGED <<alive, ready, mutex, backlog, job, list_h1, viewVars, cut>>

LockForSend ==
  /\ svr = "lock"
  /\ mutex = "none"
  /\ mutex' = "server"
  /\ svr' = "merge"
  /\ UNCHANGED <<alive, ready, backlog, job, list_h1, viewVars, cut>>

(* The main thread is among the histograms of the client being sent.       *)
MainThreadIn(c) ==
  pc \in {"event", "disabled", "initRun", "end", "endDisabled"} /\ cli = c
HistRace == svr = "merge" /\ MainThreadIn(job.of) /\ (pc = "end" => hm[job.of] # NULL)

FilledBy(c) == IF pc \in {"lock", "event", "disabled"} /\ c < cli THEN evt ELSE evt - 1

(* Up to the unlock: copies of all histograms registered, merged over the  *)
(* spills asked for.                                                       *)
Merge ==
  LET c == job.of
      last == job.lo > 0 /\ job.hi = 0
      lo == IF last THEN SpillMax - job.lo + 1 ELSE job.lo
      hi == IF last THEN SpillMax ELSE job.hi
      merged == IF make_sp_hist[c] THEN MergedHist(sp_hist[c], hm[c], lo, hi) ELSE hm[c]
  IN
  /\ svr = "merge"
  /\ list_h1' = [i \in 1..Cardinality(registered[c]) |->
                   LET n == <<"add", "upd">>[i]
                   IN  [name |-> n, hist |-> IF HistRace THEN TORN ELSE merged[n]]]
  /\ cut' = [of |-> c, lo |-> lo, hi |-> hi, n |-> FilledBy(c),
             apart |-> make_sp_hist[c], names |-> registered[c]]
  /\ mutex' = "none"
  /\ svr' = "send"
  /\ UNCHANGED <<alive, ready, backlog, job, viewVars>>

\* Mutant: the end of the list is not announced.
SendHistOnly ==
  /\ svr = "send"
  /\ \/ /\ list_h1 # <<>>
        /\ Reply([type |-> "Hist", hist |-> Head(list_h1)])
        /\ list_h1' = Tail(list_h1)
        /\ svr' = "next"
     \/ /\ list_h1 = <<>>
        /\ svr' = "recv"
        /\ UNCHANGED <<inbox, list_h1>>
  /\ UNCHANGED <<alive, ready, backlog, job, v, broken, got, cut>>

SendHist ==
  /\ svr = "send"
  /\ \/ /\ list_h1 # <<>>
        /\ Reply([type |-> "Hist", hist |-> Head(list_h1)])
        /\ list_h1' = Tail(list_h1)
        /\ svr' = "next"
     \/ /\ list_h1 = <<>>
        /\ Reply([type |-> "Finished"])
        /\ svr' = "recv"
        /\ UNCHANGED list_h1
  /\ UNCHANGED <<alive, ready, backlog, job, v, broken, got, cut>>

(* The answer to a histogram is not looked at.                             *)
RecvNext ==
  /\ svr = "next"
  /\ CanRead
  /\ IF Current.msgs = <<>> THEN UNCHANGED backlog ELSE Consume
  /\ svr' = "send"
  /\ UNCHANGED <<alive, ready, job, list_h1, viewVars, cut>>

ServerThread ==
  /\ alive
  /\ \/ /\ \/ Boot \/ Accept \/ Ping \/ Spill \/ SendRange \/ Subsys \/ SendHist \/ RecvNext
        /\ UNCHANGED mainVars
     \/ /\ EndConnection
        /\ UNCHANGED <<is_online, spill_id, pc, evt, cli, mutex, hm, registered, sp_hist,
                       spill_id_pre, make_sp_hist, list_sp, sp_sel, dump>>
     \/ /\ LockForSend \/ Merge
        /\ UNCHANGED <<is_online, spill_id, pc, evt, cli, hm, registered, sp_hist,
                       spill_id_pre, make_sp_hist, list_sp, sp_sel, go_end, dump>>

-----------------------------------------------------------------------------
(* The viewer.                                                             *)

(* OnlMonComm::ConnectServer(): connects and pings; a server that does not *)
(* answer within two seconds counts as absent.                             *)
Connect(k) ==
  /\ v[k] = "idle"
  /\ Listening
  /\ Len(backlog) < MaxBacklog
  /\ backlog' = Append(backlog, Connection(k, [type |-> "Ping"], TRUE))
  /\ v' = [v EXCEPT ![k] = "ping"]
  /\ inbox' = [inbox EXCEPT ![k] = <<>>]
  /\ broken' = [broken EXCEPT ![k] = FALSE]
  /\ UNCHANGED <<got>>

NoPong(k) ==
  /\ v[k] = "ping"
  /\ inbox[k] = <<>>
  /\ Hangup({k})
  /\ v' = [v EXCEPT ![k] = "idle"]
  /\ UNCHANGED <<inbox, broken, got>>

(* ReceiveHist() and ReceiveFullSpillRange(): the request.                 *)
Ask(k) ==
  /\ v[k] = "ping"
  /\ inbox[k] # <<>>
  /\ inbox' = [inbox EXCEPT ![k] = Tail(@)]
  /\ \/ /\ k = "gui"
        /\ \E c \in Clients, r \in Requests :
             Put(k, [type |-> "SUBSYS", of |-> c, lo |-> r[1], hi |-> r[2]])
     \/ /\ k = "range"
        /\ Put(k, [type |-> "Spill"])
  /\ v' = [v EXCEPT ![k] = "recv"]
  /\ got' = IF k = "gui" THEN <<>> ELSE got
  /\ UNCHANGED broken

Answer(k, type) ==
  /\ v[k] = "recv"
  /\ inbox[k] # <<>>
  /\ Head(inbox[k]).type = type
  /\ inbox' = [inbox EXCEPT ![k] = Tail(@)]
  /\ UNCHANGED broken

ReceiveHist ==
  /\ Answer("gui", "Hist")
  /\ got' = Append(got, Head(inbox["gui"]).hist)
  /\ Put("gui", [type |-> "NEXT"])
  /\ UNCHANGED v

(* DrawCanvas(): FindMonHist() ends the process if a histogram is missing. *)
Received == {got[i].name : i \in DOMAIN got}
Draw ==
  IF Received = Names
  THEN v' = [v EXCEPT !["gui"] = "idle"] /\ Hangup({"gui"})
  ELSE v' = [k \in Viewers |-> "abort"] /\ Hangup(Viewers)

Finished ==
  /\ Answer("gui", "Finished")
  /\ Draw
  /\ UNCHANGED got

\* Mutant: taken for the end of the list.
NotReadyIsEnd ==
  /\ Answer("gui", "NotReady")
  /\ Draw
  /\ UNCHANGED got

NotReady ==
  /\ Answer("gui", "NotReady")
  /\ Hangup({"gui"})
  /\ v' = [v EXCEPT !["gui"] = "idle"]
  /\ UNCHANGED got

ReceiveRange ==
  /\ Answer("range", "Range")
  /\ Hangup({"range"})
  /\ v' = [v EXCEPT !["range"] = "idle"]
  /\ UNCHANGED got

(* Recv() returns no message: ReceiveHist() leaves its loop with 0, as if  *)
(* all histograms had come.                                                *)
Broken(k) ==
  /\ v[k] \in {"ping", "recv"}
  /\ inbox[k] = <<>>
  /\ broken[k]
  /\ IF k = "gui" /\ v[k] = "recv" THEN Draw
     ELSE v' = [v EXCEPT ![k] = "idle"] /\ Hangup({k})
  /\ UNCHANGED <<inbox, broken, got>>

ViewerThread(k) ==
  /\ \/ NoPong(k) \/ Ask(k) \/ Broken(k)
     \/ k = "gui" /\ (ReceiveHist \/ Finished \/ NotReady)
     \/ k = "range" /\ ReceiveRange
  /\ UNCHANGED <<mainVars, alive, svr, ready, job, list_h1, cut>>

ViewerConnects(k) ==
  /\ Connect(k)
  /\ UNCHANGED <<mainVars, alive, svr, ready, job, list_h1, cut>>

-----------------------------------------------------------------------------
(* CloseExistingServer() of another decoder process.                       *)
AnotherDecoder ==
  /\ Listening
  /\ Len(backlog) < MaxBacklog
  /\ \A i \in DOMAIN backlog : backlog[i].who # ANOTHER
  /\ backlog' = Append(backlog, Connection(ANOTHER, [type |-> "Suicide"], FALSE))
  /\ UNCHANGED <<mainVars, viewVars, alive, svr, ready, job, list_h1, cut>>

(* The process and its sockets are gone: at the end of Fun4MainDaq(), which *)
(* waits for m_svr_ready for a minute, or by a crash where two threads are *)
(* at the same object.                                                     *)
Gone ==
  /\ alive
  /\ alive' = FALSE
  /\ backlog' = <<>>
  /\ broken' = [k \in Viewers |-> TRUE]
  /\ UNCHANGED <<mainVars, svr, ready, job, list_h1, v, inbox, got, cut>>

\* Mutant: the main thread joins the server thread.
ExitJoined == pc = "ended" /\ svr \in {"none", "ended"} /\ Gone

Exit == pc = "ended" /\ Gone

SpillListRace == svr = "range" /\ pc = "event" /\ IsNewSpill

Crash == (HistRace \/ SpillListRace) /\ Gone

MainThread ==
  /\ alive
  /\ MainNext
  /\ UNCHANGED <<svrVars, viewVars, cut>>

EndOfData ==
  /\ alive
  /\ GoEnd
  /\ UNCHANGED <<svrVars, viewVars, cut>>

Terminated ==
  /\ ~alive
  /\ \A k \in Viewers : v[k] \in {"idle", "abort"}
  /\ UNCHANGED vars

Next ==
  \/ MainThread
  \/ EndOfData
  \/ ServerThread
  \/ \E k \in Viewers : ViewerThread(k) \/ ViewerConnects(k)
  \/ AnotherDecoder
  \/ Exit
  \/ Crash
  \/ Terminated

Spec == Init /\ [][Next]_vars

(* The two threads of the decoder run, though the data may never end, and  *)
(* the viewer reads its sockets once it has connected; nobody has to       *)
(* connect.  Viewers may come for ever, so the main thread needs strong    *)
(* fairness at the mutex: the server talks to a viewer over the network    *)
(* between any two times it locks.                                         *)
FairSpec ==
  /\ Spec
  /\ SF_vars(MainThread)
  /\ WF_vars(ServerThread)
  /\ WF_vars(Exit)
  /\ \A k \in Viewers : WF_vars(ViewerThread(k))

-----------------------------------------------------------------------------
(* Properties.                                                             *)

(* The values of the variables. *)
TypeOK ==
  /\ pc \in {"first", "initRun", "lock", "event", "disabled", "end", "endDisabled", "ended"}
  /\ svr \in {"none", "boot", "bound", "accept", "recv", "range", "lock", "merge",
              "send", "next", "ended"}
  /\ evt \in 1..(MaxEvents + 1) /\ cli \in Clients
  /\ mutex \in {"none", "main", "server"}
  /\ \A c \in Clients :
       /\ hm[c] = NULL \/ hm[c] \in Counts
       /\ DOMAIN sp_hist[c] \subseteq Spills
       /\ \A s \in DOMAIN sp_hist[c] : sp_hist[c][s] = LIVE \/ sp_hist[c][s] \in Counts
       /\ dump[c] = NULL \/ dump[c] \in Counts
  /\ spill_id_pre \in [Clients -> Spills \cup {-1}]
  /\ make_sp_hist \in [Clients -> BOOLEAN]
  /\ \A i \in DOMAIN list_h1 : list_h1[i].name \in Names
  /\ v \in [Viewers -> {"idle", "ping", "recv", "abort"}]
  /\ Handling => backlog # <<>>

(* What a client has counted when it has filled the first n events, as the *)
(* spills lo to hi are selected.  While spills are kept apart, the first   *)
(* one has no entry until the second begins, and MODE_UPDATE is shown for  *)
(* the last spill only.                                                    *)
Expected(n, apart, lo, hi) ==
  LET second == n > 0 /\ spill_id[n] # spill_id[1]
      Shown(e) == e <= n /\ (apart => second /\ InRange(spill_id[e], lo, hi))
  IN  [add |-> [e \in Events |-> IF Shown(e) THEN 1 ELSE 0],
       upd |-> IF n > 0 /\ Shown(n) THEN n ELSE 0]

(* Every histogram that the server sends, and that the viewer draws, holds *)
(* each event of the selected spills once, all histograms of an answer as  *)
(* of the same moment (SendHist under the mutex).  Only while the client   *)
(* is in InitRun() or End(), which do not lock, it may hold anything.      *)
SnapshotExact ==
  \A i \in DOMAIN (got \o list_h1) :
    LET h == (got \o list_h1)[i]
    IN  IF h.hist = TORN THEN go_end \/ cut.names # Names
        ELSE h.hist = Expected(cut.n, cut.apart, cut.lo, cut.hi)[h.name]

(* What End() writes holds every event of the run once, whether the spills *)
(* have been kept apart until the end, have become too many on the way, or *)
(* have never been kept apart; and every client that was set up writes.    *)
DumpComplete ==
  \A c \in Clients :
    /\ dump[c] # NULL => dump[c] = Expected(Len(spill_id), FALSE, 0, 0)
    /\ pc = "ended" => (dump[c] = NULL) = (hm[c] = NULL)

(* A request for a range of spills is answered with histograms of the      *)
(* whole run only if the server has stopped saying that spills can be      *)
(* selected.  DisableSpillHist() changes the client first and what the     *)
(* server says, without the mutex, afterwards: the mutex that SendHist     *)
(* takes closes the moment in between, except in End().                    *)
WholeRunOnlyIfUnselectable ==
  cut.of # NULL /\ ~cut.apart => ~sp_sel \/ (pc = "endDisabled" /\ cut.of = cli)

(* The viewer aborts for a missing histogram only if the decoder broke the *)
(* connection off, or was still registering histograms.                    *)
AbortOnlyWhenCutOff ==
  v["gui"] = "abort" => ~alive \/ go_end \/ cut.names # Names

(* "mutex; //< Control the access to subsystem histograms": while SendHist *)
(* copies the histograms of a client, the main thread leaves them alone.   *)
HistogramsUnderMutex == ~HistRace

(* What is left of it: process_event() and SendHist() exclude each other.  *)
RaceOnlyOutsideEvents == HistRace => pc \in {"initRun", "end", "endDisabled"}

(* A viewer that has connected gets on, whatever the decoder does.         *)
ViewerReturns == \A k \in Viewers : v[k] \in {"ping", "recv"} ~> v[k] \in {"idle", "abort"}

(* The server, which handles one connection at a time, gets done with it.  *)
ServerReturns == Handling ~> ~Handling

(* Together: both sides of a conversation come to its end.                 *)
ConversationsEnd == ViewerReturns /\ ServerReturns

(* The server thread and its viewers do not keep the decoder from ending.  *)
DecoderEnds == pc = "end" ~> ~alive

=============================================================================
