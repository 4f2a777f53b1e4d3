---------------------------- MODULE OnlMonClient ----------------------------
(***************************************************************************)
(* The histograms of the online monitoring, src/online/onlmonserver, in    *)
(* the decoder process: OnlMonClient objects, one per subsystem, filled    *)
(* event by event by the main thread (Fun4AllServer::run).  Histograms are *)
(* kept spill by spill: `hm` is the set that is being filled, `sp_hist`    *)
(* holds a copy for each spill that is over, and an alias of the live set  *)
(* for the present one.  Another thread reads them (OnlMonServer).         *)
(***************************************************************************)
EXTENDS Integers, Sequences, FiniteSets, FiniteSetsExt, Functions

CONSTANTS
  NClients,             \* clients are numbered in the order of registration
  SpillRuns,            \* possible runs: the spill ID of each event
  MaxNumSelSpills,
  NULL, LIVE            \* no object; a pointer to the live histograms

Clients == 1..NClients
MaxEvents == Max({Len(r) : r \in SpillRuns})
Events == 1..MaxEvents
Spills == UNION {{r[i] : i \in DOMAIN r} : r \in SpillRuns}

(* What a client has counted: `add` stands for the histograms of MODE_ADD  *)
(* (how often each event has been filled), `upd` for those of MODE_UPDATE, *)
(* which hold a total of the run (as of which event).                      *)
Names == {"add", "upd"}
Counts == [add : [Events -> Nat], upd : 0..MaxEvents]
Empty == [add |-> [e \in Events |-> 0], upd |-> 0]

ASSUME OnlMonAssumption ==
  /\ NClients \in Nat \ {0}
  /\ MaxNumSelSpills \in Nat
  /\ IsFiniteSet(SpillRuns) /\ SpillRuns # {}
  /\ \A r \in SpillRuns : r \in Seq(Nat) /\ \A i, j \in DOMAIN r : i < j => r[i] <= r[j]
  /\ NULL \notin Counts /\ LIVE \notin Counts

VARIABLES
  is_online,
  spill_id,             \* the run: spill ID of each event
  pc,                   \* where the main thread is
  evt, cli,             \* its event and its client
  mutex,                \* OnlMonServer::mutex: "none", "main" or "server"
  hm,                   \* per client: the live histograms, NULL before InitRun
  registered,           \* per client: names of the histograms registered
  sp_hist,              \* per client: m_map_hist_sp
  spill_id_pre,
  make_sp_hist,
  list_sp,              \* OnlMonComm::m_list_sp
  sp_sel,               \* OnlMonComm::m_sp_sel
  go_end,
  dump                  \* per client: the ROOT file that End() writes, or NULL

mainVars == <<is_online, spill_id, pc, evt, cli, mutex, hm, registered, sp_hist,
              spill_id_pre, make_sp_hist, list_sp, sp_sel, go_end, dump>>

NoHist == [s \in {} |-> NULL]

(* OnlMonClient::Init(): spill by spill only when online.                  *)
MainInit ==
  /\ is_online \in BOOLEAN
  /\ spill_id \in SpillRuns
  /\ pc = "first" /\ evt = 1 /\ cli = 1
  /\ mutex = "none"
  /\ hm = [c \in Clients |-> NULL]
  /\ registered = [c \in Clients |-> {}]
  /\ sp_hist = [c \in Clients |-> NoHist]
  /\ spill_id_pre = [c \in Clients |-> -1]
  /\ make_sp_hist = [c \in Clients |-> is_online]
  /\ list_sp = {}
  /\ sp_sel = is_online
  /\ go_end = FALSE
  /\ dump = [c \in Clients |-> NULL]

-----------------------------------------------------------------------------
(* Operations on the histograms.  `h` is the live set and `m` the map.     *)

Deref(m, s, h) == IF m[s] = LIVE THEN h ELSE m[s]

InRange(s, lo, hi) == /\ lo > 0 => s >= lo
                      /\ hi > 0 => s <= hi

(* MakeMergedHist(): of MODE_UPDATE the last spill counts, if selected.    *)
MergedHist(m, h, lo, hi) ==
  LET sel  == {s \in DOMAIN m : InRange(s, lo, hi)}
      last == Max(DOMAIN m)
  IN  [add |-> [e \in Events |-> SumFunctionOnSet([s \in sel |-> Deref(m, s, h).add[e]], sel)],
       upd |-> IF sel # {} /\ last \in sel THEN Deref(m, last, h).upd ELSE 0]

(* MakeSpillHist(): keeps a copy of the live set for spill `s`, empties the *)
(* live set and, if there is a new spill, lets its entry point to it.      *)
SpillHistMade(m, h, s, new) ==
  LET kept == [t \in DOMAIN m \cup {s} |-> IF t = s THEN h ELSE m[t]]
  IN  IF new > 0
      THEN [t \in DOMAIN kept \cup {new} |-> IF t = new THEN LIVE ELSE kept[t]]
      ELSE kept

\* Mutant: no copy of the last spill.
AllButLastMerged(m, h, s) == MergedHist(m, Empty, 0, 0)

(* DisableSpillHist(), always called with a copy of the last spill made:   *)
(* what the live set holds then.                                           *)
AllMerged(m, h, s) == MergedHist(SpillHistMade(m, h, s, 0), Empty, 0, 0)

(* FindFullSpillRange()                                                    *)
SpillMin == IF list_sp = {} THEN 0 ELSE Min(list_sp)
SpillMax == IF list_sp = {} THEN 0 ELSE Max(list_sp)

-----------------------------------------------------------------------------
(* BeginRun: InitRun() of each client, without the mutex.  A histogram is  *)
(* registered at a time.                                                   *)
InitRun ==
  /\ pc = "first"
  /\ hm' = [hm EXCEPT ![cli] = Empty]
  /\ pc' = "initRun"
  /\ UNCHANGED <<is_online, spill_id, evt, cli, mutex, registered, sp_hist, spill_id_pre,
                 make_sp_hist, list_sp, sp_sel, go_end, dump>>

RegisterHist ==
  /\ pc = "initRun"
  /\ \/ /\ registered[cli] = {}
        /\ registered' = [registered EXCEPT ![cli] = {"add"}]
        /\ UNCHANGED <<pc, cli>>
     \/ /\ registered[cli] = {"add"}
        /\ registered' = [registered EXCEPT ![cli] = Names]
        /\ pc' = IF cli < NClients THEN "first" ELSE "lock"
        /\ cli' = (cli % NClients) + 1
  /\ UNCHANGED <<is_online, spill_id, evt, mutex, hm, sp_hist, spill_id_pre,
                 make_sp_hist, list_sp, sp_sel, go_end, dump>>

(* process_event(): everything between lock and unlock.                    *)
LockForEvent ==
  /\ pc = "lock"
  /\ evt <= Len(spill_id)
  /\ mutex = "none"
  /\ mutex' = "main"
  /\ pc' = "event"
  /\ UNCHANGED <<is_online, spill_id, evt, cli, hm, registered, sp_hist, spill_id_pre,
                 make_sp_hist, list_sp, sp_sel, go_end, dump>>

IsNewSpill == spill_id[evt] # spill_id_pre[cli]

Filled(h, e) == [add |-> [h.add EXCEPT ![e] = @ + 1], upd |-> e]

SameSpill ==
  /\ ~IsNewSpill
  /\ hm' = [hm EXCEPT ![cli] = Filled(@, evt)]
  /\ UNCHANGED <<sp_hist, spill_id_pre, make_sp_hist, list_sp>>

(* There is a spill whose histograms are to be kept apart.                 *)
IsCut == spill_id_pre[cli] >= 0 /\ make_sp_hist[cli]

NewSpill ==
  LET sp == spill_id[evt]
  IN
  /\ IsNewSpill
  /\ IsCut => Cardinality(list_sp) <= MaxNumSelSpills
  /\ sp_hist' = [sp_hist EXCEPT ![cli] =
                   IF IsCut THEN SpillHistMade(@, hm[cli], spill_id_pre[cli], sp) ELSE @]
  /\ hm' = [hm EXCEPT ![cli] = Filled(IF IsCut THEN Empty ELSE @, evt)]
  /\ spill_id_pre' = [spill_id_pre EXCEPT ![cli] = sp]
  /\ list_sp' = list_sp \cup {sp}
  /\ UNCHANGED make_sp_hist

ProcessEvent ==
  /\ pc = "event"
  /\ SameSpill \/ NewSpill
  /\ mutex' = "none"
  /\ pc' = "lock"
  /\ cli' = (cli % NClients) + 1
  /\ evt' = IF cli = NClients THEN evt + 1 ELSE evt
  /\ UNCHANGED <<is_online, spill_id, registered, sp_sel, go_end, dump>>

(* DisableSpillHist() after MakeSpillHist(), in process_event() when there *)
(* are too many spills and in End(): first the histograms and the flag of  *)
(* the client, then the flag that all clients share and that the server    *)
(* thread reads without the mutex.                                         *)
DisableSpillHist ==
  /\ IsCut
  /\ \/ /\ pc = "event"
        /\ IsNewSpill
        /\ Cardinality(list_sp) > MaxNumSelSpills
        /\ pc' = "disabled"
     \/ /\ pc = "end"
        /\ hm[cli] # NULL
        /\ pc' = "endDisabled"
  /\ hm' = [hm EXCEPT ![cli] = AllMerged(sp_hist[cli], @, spill_id_pre[cli])]
  /\ sp_hist' = [sp_hist EXCEPT ![cli] = NoHist]
  /\ make_sp_hist' = [make_sp_hist EXCEPT ![cli] = FALSE]
  /\ UNCHANGED <<is_online, spill_id, evt, cli, mutex, registered, spill_id_pre, list_sp,
                 sp_sel, go_end, dump>>

\* Mutant: the flag that is shared is forgotten.
SpillsStaySelectable ==
  /\ \/ pc = "disabled" /\ pc' = "event"
     \/ pc = "endDisabled" /\ pc' = "end"
  /\ UNCHANGED <<is_online, spill_id, evt, cli, mutex, hm, registered, sp_hist, spill_id_pre,
                 make_sp_hist, list_sp, sp_sel, go_end, dump>>

SetSpillSelectability ==
  /\ \/ pc = "disabled" /\ pc' = "event"
     \/ pc = "endDisabled" /\ pc' = "end"
  /\ sp_sel' = FALSE
  /\ UNCHANGED <<is_online, spill_id, evt, cli, mutex, hm, registered, sp_hist, spill_id_pre,
                 make_sp_hist, list_sp, go_end, dump>>

(* OnlMonServer::End() at the end of the data: m_go_end, then              *)
(* Fun4AllServer::End() calls End() of each client.  There may be no event *)
(* at all.                                                                 *)
GoEnd ==
  /\ \/ pc = "lock" /\ evt = Len(spill_id) + 1
     \/ pc = "first" /\ hm = [c \in Clients |-> NULL]
  /\ go_end' = TRUE
  /\ pc' = "end"
  /\ cli' = 1
  /\ UNCHANGED <<is_online, spill_id, evt, mutex, hm, registered, sp_hist, spill_id_pre,
                 make_sp_hist, list_sp, sp_sel, dump>>

(* OnlMonClient::End(), after DisableSpillHist(): the histograms are       *)
(* written.  No mutex.                                                     *)
EndClient ==
  /\ pc = "end"
  /\ hm[cli] # NULL => ~IsCut
  /\ dump' = [dump EXCEPT ![cli] = hm[cli]]
  /\ pc' = IF cli = NClients THEN "ended" ELSE "end"
  /\ cli' = IF cli = NClients THEN cli ELSE cli + 1
  /\ UNCHANGED <<is_online, spill_id, evt, mutex, hm, registered, sp_hist, spill_id_pre,
                 make_sp_hist, list_sp, sp_sel, go_end>>

MainNext ==
  \/ InitRun \/ RegisterHist \/ LockForEvent \/ ProcessEvent
  \/ DisableSpillHist \/ SetSpillSelectability
  \/ EndClient

=============================================================================
