---------------------------- MODULE MCHexalogLive ----------------------------
(* Progress of the voting in four environments; the initial state picks one:   *)
(*   calm   proposals race through p1; no fault, timer or reaper               *)
(*   races  proposals race through all contacts, each of which is the source   *)
(*          of what it is asked to propose; no fault, timer or reaper          *)
(*   reaper proposals race through p1, and the reaper runs; no fault, and no   *)
(*          timer ends the first ballot of a node before a node has died       *)
(*   rough  one proposal, with timeouts and faults, and no reaper              *)
EXTENDS MCHexalog

VARIABLE weather

Ended(n, e, how) == \E r \in DOMAIN ballot[n][e] : ballot[n][e][r].status = how
FirstTimedOut(n, e) == ballot[n][e] # <<>> /\ ballot[n][e][1].status = "timeout"

NoTimeout == \A n \in Peer, e \in Entry : ~Ended(n, e, "timeout")
NoReap == \A n \in Peer : tracked[n] \subseteq tracked'[n]
SelfSource == \A c \in calls : c.by = "client" => c.src = c.node
OneContact == \A c \in calls : c.by = "client" => c.node = p1

Weather ==
    /\ UNCHANGED weather
    /\ CASE weather = "calm" -> faults' = 0 /\ NoTimeout' /\ NoReap /\ OneContact'
         [] weather = "races" -> faults' = 0 /\ NoTimeout' /\ NoReap /\ SelfSource'
         [] weather = "reaper" ->
              /\ faults' = 0 /\ OneContact'
              /\ \A n \in Peer, e \in Entry : FirstTimedOut(n, e)' => down # {}
         [] weather = "rough" -> proposals' <= 1 /\ NoReap

MCInit == Init /\ weather \in {"calm", "races", "reaper", "rough"}
mcvars == <<vars, weather>>

\* The fairness of FairSpec, for what each environment has happen.
MCFairSpec ==
    /\ MCInit /\ [][Next /\ Weather]_mcvars
    /\ WF_mcvars((\E c \in calls : Handle(c)) /\ Weather)
    /\ \A n \in Peer : /\ \A w \in Worker : WF_mcvars(Broadcaster(w, n) /\ Weather)
                       /\ WF_mcvars(CommitLocally(n) /\ Weather)
                       /\ WF_mcvars(HealKeys(n) /\ Weather)
                       /\ WF_mcvars(TimeoutAny(n) /\ Weather)
                       /\ WF_mcvars(Reap(n) /\ Weather)

\* With no fault a proposed entry is applied once on every peer, also when two calls
\* with it race through one peer.  When they race through several peers, or against the
\* reaper, a peer may miss it, but not in silence: unless one of them dies, some peer
\* applies the entry and those that do not have had an error end a ballot of it
\* (Propose, Commit, upsertKeyAndBroadcast, reapBallots).
CalmReachesAll ==
    \A e \in Entry : (weather # "rough" /\ \E c \in calls : c.entry = e) ~>
        \/ \A n \in Peer : applied[n] = <<e>>
        \/ /\ weather # "calm"
           /\ \/ weather = "reaper" /\ down # {}
              \/ /\ \E n \in Peer : applied[n] = <<e>>
                 /\ \A n \in Peer : applied[n] = <<e>> \/ Ended(n, e, "err")
==============================================================================
