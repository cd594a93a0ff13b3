---------------------------- MODULE AlertEpisodes ----------------------------
(***************************************************************************)
(* Monitoring messages, the alert episodes they roll up into, and the      *)
(* incidents those open, resolve and reopen.                               *)
(*                                                                         *)
(* A delivery carries a list of messages and is one READ COMMITTED         *)
(* transaction: each statement sees what is committed and what its own     *)
(* transaction wrote, and waits for the rows others have written and not   *)
(* committed.  A row is [was, is, by]: its committed value, the value its  *)
(* writer gave it, and that writer.                                        *)
(*                                                                         *)
(* Left out: severities, counters and texts, the notification action, the  *)
(* jobs of a new incident, and the signals sent after the commit.  Which   *)
(* definition, configuration item and group a message finds is open.       *)
(***************************************************************************)
EXTENDS Integers, Sequences, FiniteSets

CONSTANTS
  Alarms,         \* pairs of a source and a fingerprint
  Messages,       \* [alarm, onset, status]: what externalEventId is made of
  Lists,          \* bound: what a monitor sends at once
  Deliveries,     \* transactions in progress at the same time
  Nobody,         \* not a delivery
  MaxDeliveries,  \* bound: deliveries that begin
  LastEpisode,    \* bound: rows of alerts
  LastIncident,   \* bound: rows of incidents
  MaxBesides      \* bound: transactions that fail, change windows that begin or
                  \* end, and what people do to incidents

ASSUME AlertsAssumption ==
  /\ Messages \subseteq [alarm : Alarms, onset : Nat, status : {"firing", "resolved"}]
  /\ Lists \subseteq Seq(Messages) \ {<<>>}
  /\ Nobody \notin Deliveries
  /\ MaxDeliveries \in Nat
  /\ LastEpisode \in Nat /\ LastIncident \in Nat
  /\ MaxBesides \in Nat

Episodes  == 1..LastEpisode
Incidents == 1..LastIncident
NoIncident == 0

VARIABLES
  events,     \* the recorded messages, and who is recording one
  alerts,     \* the rows of alerts
  incidents,  \* the rows of incidents that alerts opened
  worked,     \* incidents in whose journal people have written
  covered,    \* alarms whose configuration item is inside a change window
  tx,         \* what each delivery is doing
  begun,      \* deliveries that began
  besides,    \* what happened besides their statements
  settled,    \* history: what the last undisturbed delivery said of an alarm
  cancelled,  \* history: incidents that were cancelled once
  disturbed   \* history: alarms whose deliveries overtook each other

bounds  == <<begun, besides>>
history == <<settled, cancelled, disturbed>>
tables  == <<events, alerts, incidents>>
vars    == <<tables, worked, covered, tx, bounds, history>>

\* "resolved" stands for closed as well, and "in_progress" for any status in
\* which an incident is being worked on.
IncidentStatuses == {"new", "in_progress", "resolved", "cancelled"}

NoEpisode == [status |-> "absent"]
EpisodeType ==
  {NoEpisode} \cup
  [status : {"firing", "resolved"}, alarm : Alarms, inc : Incidents \cup {NoIncident},
   seen : Nat]

NoTicket == [status |-> "absent"]
TicketType == {NoTicket} \cup [status : IncidentStatuses, alarm : Alarms]

Row(T) == [was : T, is : T, by : Deliveries \cup {Nobody}]

PCs == {"idle", "record", "find", "close", "judge", "resolve", "upsert", "reuse",
        "apply", "reopen", "commit"}

\* Where a delivery has found an episode, and its incident.
EpisodePCs  == {"close", "judge", "resolve", "reuse", "apply", "reopen"}
IncidentPCs == {"judge", "resolve", "reopen"}

TxType == [pc : PCs, rest : Seq(Messages), start : Nat,
           ep : Episodes \cup {0}, inc : Incidents \cup {NoIncident}, fresh : BOOLEAN,
           news : [Alarms -> {"none", "firing", "resolved"}],
           about : SUBSET Alarms, alone : SUBSET Alarms]

TypeOK ==
  /\ events \in [Messages -> [in : BOOLEAN, by : Deliveries \cup {Nobody}]]
  /\ alerts \in [Episodes -> Row(EpisodeType)]
  /\ incidents \in [Incidents -> Row(TicketType)]
  /\ worked \subseteq Incidents
  /\ covered \subseteq Alarms
  /\ tx \in [Deliveries -> TxType]
  /\ \A d \in Deliveries :
       /\ tx[d].rest = <<>> <=> tx[d].pc \in {"idle", "commit"}
       /\ tx[d].ep # 0 <=> tx[d].pc \in EpisodePCs
       /\ tx[d].pc \in IncidentPCs => tx[d].inc # NoIncident
  /\ begun \in Nat /\ besides \in Nat
  /\ settled \in [Alarms -> {"firing", "resolved", "unknown"}]
  /\ cancelled \subseteq Incidents
  /\ disturbed \subseteq Alarms

NoNews == [a \in Alarms |-> "none"]
IdleTx == [pc |-> "idle", rest |-> <<>>, start |-> 0, ep |-> 0, inc |-> NoIncident,
           fresh |-> FALSE, news |-> NoNews, about |-> {}, alone |-> {}]

Besides == besides < MaxBesides /\ besides' = besides + 1

Clean(v) == [was |-> v, is |-> v, by |-> Nobody]

Init ==
  /\ events = [m \in Messages |-> [in |-> FALSE, by |-> Nobody]]
  /\ alerts = [e \in Episodes |-> Clean(NoEpisode)]
  /\ incidents = [i \in Incidents |-> Clean(NoTicket)]
  /\ worked = {}
  /\ covered = {}
  /\ tx = [d \in Deliveries |-> IdleTx]
  /\ begun = 0 /\ besides = 0
  /\ settled = [a \in Alarms |-> "resolved"]
  /\ cancelled = {}
  /\ disturbed = {}

-----------------------------------------------------------------------------
(***************************************************************************)
(* Rows and locks.                                                         *)
(***************************************************************************)

Seen(d, row) == IF row.by = d THEN row.is ELSE row.was
Free(d, row) == row.by \in {Nobody, d}
Write(d, row, v) == [row EXCEPT !.is = v, !.by = d]

At(d, pc) == tx[d].pc = pc
Message(d) == Head(tx[d].rest)
Alarm(d)   == Message(d).alarm

\* Mutant: goes on when there is no message left.
AdvancedTooFar(t) ==
  [t EXCEPT !.rest = Tail(@), !.ep = 0, !.inc = NoIncident, !.fresh = FALSE,
            !.pc = IF Len(t.rest) > 0 THEN "record" ELSE "commit"]

\* The next message, or the end of the transaction.
Advanced(t) ==
  [t EXCEPT !.rest = Tail(@), !.ep = 0, !.inc = NoIncident, !.fresh = FALSE,
            !.pc = IF Len(t.rest) > 1 THEN "record" ELSE "commit"]

Advance(d) == tx' = [tx EXCEPT ![d] = Advanced(@)]
Goto(d, pc) == tx' = [tx EXCEPT ![d].pc = pc]

EpisodesOf(d, a) ==
  {e \in Episodes : /\ Seen(d, alerts[e]).status # "absent"
                    /\ Seen(d, alerts[e]).alarm = a}
OpenEpisodes(d, a) == {e \in EpisodesOf(d, a) : Seen(d, alerts[e]).status = "firing"}

\* Who else is writing to the open episode of an alarm: the unique index on
\* firing alerts makes an INSERT wait for them.
OpenWriters(d, a) ==
  {alerts[e].by : e \in {f \in Episodes : /\ ~Free(d, alerts[f])
                                          /\ alerts[f].was.status # "resolved"
                                          /\ alerts[f].is.alarm = a}}

\* last_seen_at = now(), which is when the transaction began: an episode may so
\* appear to be older than one it came after.  And an UPDATE of an episode that
\* another delivery has closed meanwhile makes it appear to be the latest.
Overtakes(d, a, e) ==
  \/ alerts[e].is.status = "resolved"
  \/ \E f \in EpisodesOf(d, a) \ {e} : Seen(d, alerts[f]).seen >= tx[d].start

Disturb(d, a, e) ==
  disturbed' = IF Overtakes(d, a, e) THEN disturbed \cup {a} ELSE disturbed

Touch(d, e, v) == alerts' = [alerts EXCEPT ![e] = Write(d, @, v)]

-----------------------------------------------------------------------------
(***************************************************************************)
(* ingestAlerts.                                                           *)
(***************************************************************************)

\* A monitor may send anything, and again.
Begin(d, list) ==
  LET about == {list[k].alarm : k \in DOMAIN list}
      others == UNION {tx[x].about : x \in Deliveries \ {d}} IN
  /\ At(d, "idle")
  /\ begun < MaxDeliveries
  /\ begun' = begun + 1
  /\ tx' = [x \in Deliveries |->
       IF x = d THEN [IdleTx EXCEPT !.pc = "record", !.rest = list, !.start = begun + 1,
                                    !.about = about, !.alone = about \ others]
       ELSE [tx[x] EXCEPT !.alone = @ \ about]]
  /\ UNCHANGED <<tables, worked, covered, besides, history>>

\* Mutant: a message counts again when it is delivered again.
IsNewInDelivery(d, m) == events[m].by # d

IsNew(d, m) == ~events[m].in /\ events[m].by # d

\* The history does not depend on how the code recognises a duplicate.
First(d, m) == ~events[m].in /\ events[m].by # d

\* insertEvent: a duplicate is passed over.
Record(d) ==
  LET m == Message(d) IN
  /\ At(d, "record")
  /\ Free(d, events[m])
  /\ IF IsNew(d, m)
     THEN /\ events' = [events EXCEPT ![m].by = d]
          /\ tx' = [tx EXCEPT ![d].pc = IF m.status = "resolved" THEN "find" ELSE "upsert",
                              ![d].news[m.alarm] = IF First(d, m) THEN m.status ELSE @]
     ELSE UNCHANGED events /\ Advance(d)
  /\ UNCHANGED <<alerts, incidents, worked, covered, bounds, history>>

\* SELECT id, incident_id FROM alerts WHERE status = 'firing'
Find(d) ==
  LET open == OpenEpisodes(d, Alarm(d)) IN
  /\ At(d, "find")
  /\ \/ open = {} /\ Advance(d)
     \/ \E e \in open :
          tx' = [tx EXCEPT ![d].pc = "close", ![d].ep = e,
                           ![d].inc = Seen(d, alerts[e]).inc]
  /\ UNCHANGED <<tables, worked, covered, bounds, history>>

\* UPDATE alerts SET status = 'resolved' WHERE id
Close(d) ==
  LET e == tx[d].ep IN
  /\ At(d, "close")
  /\ Free(d, alerts[e])
  /\ Touch(d, e, [alerts[e].is EXCEPT !.status = "resolved", !.seen = tx[d].start])
  /\ Disturb(d, Alarm(d), e)
  /\ IF tx[d].inc = NoIncident THEN Advance(d) ELSE Goto(d, "judge")
  /\ UNCHANGED <<events, incidents, worked, covered, bounds, settled, cancelled>>

\* clearIncident looks whether anybody has worked on the incident.
Judge(d) ==
  LET i == tx[d].inc IN
  /\ At(d, "judge")
  /\ IF Seen(d, incidents[i]).status = "new" /\ i \notin worked
     THEN Goto(d, "resolve") ELSE Advance(d)
  /\ UNCHANGED <<tables, worked, covered, bounds, history>>

\* Mutant: UPDATE incidents SET status = 'resolved' WHERE id, and no more.
ResolvedAnyway(v) == [v EXCEPT !.status = "resolved"]

\* UPDATE incidents SET status = 'resolved' WHERE id AND status = 'new'
ResolvedIfNew(v) == IF v.status = "new" THEN [v EXCEPT !.status = "resolved"] ELSE v

Resolve(d) ==
  LET i == tx[d].inc IN
  /\ At(d, "resolve")
  /\ Free(d, incidents[i])
  /\ incidents' = [incidents EXCEPT ![i] = Write(d, @, ResolvedIfNew(@.is))]
  /\ Advance(d)
  /\ UNCHANGED <<events, alerts, worked, covered, bounds, history>>

SlotIsFree(d, a) == OpenWriters(d, a) = {}

\* openEpisode: updates the open episode, or inserts one.
Upsert(d) ==
  LET a == Alarm(d)  open == OpenEpisodes(d, a)  now == tx[d].start IN
  /\ At(d, "upsert")
  /\ SlotIsFree(d, a)
  /\ \/ \E e \in open :
          LET row == alerts[e].is IN
          /\ Touch(d, e, [row EXCEPT !.seen = now])
          /\ Disturb(d, a, e)
          /\ tx' = [tx EXCEPT ![d].ep = e, ![d].inc = row.inc, ![d].fresh = FALSE,
                      ![d].pc = IF row.inc = NoIncident THEN "reuse" ELSE "reopen"]
     \/ /\ open = {}
        /\ \E e \in Episodes :
             /\ alerts[e] = Clean(NoEpisode)
             /\ \A f \in 1..e - 1 : alerts[f] # Clean(NoEpisode)
             /\ Touch(d, e, [status |-> "firing", alarm |-> a, inc |-> NoIncident,
                             seen |-> now])
             /\ Disturb(d, a, e)
             /\ tx' = [tx EXCEPT ![d].ep = e, ![d].fresh = TRUE, ![d].pc = "reuse"]
  /\ UNCHANGED <<events, incidents, worked, covered, bounds, settled, cancelled>>

\* previousEpisodeIncident: ORDER BY last_seen_at DESC LIMIT 1
PreviousEpisodes(d, a, e) ==
  LET linked == {f \in EpisodesOf(d, a) \ {e} : Seen(d, alerts[f]).inc # NoIncident} IN
  {f \in linked : \A g \in linked : Seen(d, alerts[g]).seen <= Seen(d, alerts[f]).seen}

StatusSeen(d, i) == Seen(d, incidents[i]).status

\* Several only if their episodes were last seen at the same time.
PreviousIncidents(d, a, e) ==
  {Seen(d, alerts[f]).inc : f \in PreviousEpisodes(d, a, e)}

\* Mutant: only an incident that is over is taken up again.
ReusableWhenOver(d, a, e) ==
  {i \in PreviousIncidents(d, a, e) : StatusSeen(d, i) = "resolved"}

Reusable(d, a, e) ==
  {i \in PreviousIncidents(d, a, e) : StatusSeen(d, i) # "cancelled"}

\* reusePreviousIncident: a new episode inside a change window does without.
Reuse(d) ==
  LET a == Alarm(d)  e == tx[d].ep  hidden == tx[d].fresh /\ a \in covered IN
  /\ At(d, "reuse")
  /\ \/ /\ ~hidden
        /\ \E i \in Reusable(d, a, e) :
             /\ Touch(d, e, [alerts[e].is EXCEPT !.inc = i])
             /\ tx' = [tx EXCEPT ![d].inc = i, ![d].pc = "reopen"]
     \/ /\ \/ hidden \/ PreviousIncidents(d, a, e) = {}
           \/ Reusable(d, a, e) # PreviousIncidents(d, a, e)
        /\ Goto(d, "apply")
        /\ UNCHANGED alerts
  /\ UNCHANGED <<events, incidents, worked, covered, bounds, history>>

\* applyDefinition or openMissedIncident: outside a change window, and if the
\* definition, the item, the group and an author are there, createIncident.
Apply(d) ==
  LET a == Alarm(d)  e == tx[d].ep IN
  /\ At(d, "apply")
  /\ \/ UNCHANGED <<alerts, incidents>>
     \/ /\ a \notin covered
        /\ \E i \in Incidents :
             /\ incidents[i] = Clean(NoTicket)
             /\ \A j \in 1..i - 1 : incidents[j] # Clean(NoTicket)
             /\ incidents' = [incidents EXCEPT
                                ![i] = Write(d, @, [status |-> "new", alarm |-> a])]
             /\ Touch(d, e, [alerts[e].is EXCEPT !.inc = i])
  /\ Advance(d)
  /\ UNCHANGED <<events, worked, covered, bounds, history>>

\* reopenLinkedIncident
Reopen(d) ==
  LET i == tx[d].inc IN
  /\ At(d, "reopen")
  /\ \/ StatusSeen(d, i) # "resolved" /\ UNCHANGED incidents
     \/ /\ StatusSeen(d, i) = "resolved"
        /\ Free(d, incidents[i])
        /\ incidents' = [incidents EXCEPT ![i] = Write(d, @, [@.is EXCEPT !.status = "in_progress"])]
  /\ Advance(d)
  /\ UNCHANGED <<events, alerts, worked, covered, bounds, history>>

Statement(d) ==
  \/ Record(d) \/ Find(d) \/ Close(d) \/ Judge(d) \/ Resolve(d)
  \/ Upsert(d) \/ Reuse(d) \/ Apply(d) \/ Reopen(d)

\* Mutant: the rows stay locked.
CommittedLocked(d, row) == IF row.by = d THEN [row EXCEPT !.was = row.is] ELSE row

Committed(d, row) == IF row.by = d THEN Clean(row.is) ELSE row

Reverted(d, row) == IF row.by = d THEN Clean(row.was) ELSE row

\* What a delivery leaves behind about an alarm, if no other was about it.
Settles(d, a) ==
  IF tx[d].news[a] = "none" THEN settled[a]
  ELSE IF a \in tx[d].alone THEN tx[d].news[a] ELSE "unknown"

Commit(d) ==
  /\ At(d, "commit")
  /\ events' = [m \in Messages |-> IF events[m].by = d THEN [in |-> TRUE, by |-> Nobody]
                                   ELSE events[m]]
  /\ alerts' = [e \in Episodes |-> Committed(d, alerts[e])]
  /\ incidents' = [i \in Incidents |-> Committed(d, incidents[i])]
  /\ settled' = [a \in Alarms |-> Settles(d, a)]
  /\ tx' = [tx EXCEPT ![d] = IdleTx]
  /\ UNCHANGED <<worked, covered, bounds, cancelled, disturbed>>

\* Mutant: an incident is created on a connection of its own, as its jobs are.
TicketsKept(d) == [i \in Incidents |-> Committed(d, incidents[i])]

TicketsReverted(d) == [i \in Incidents |-> Reverted(d, incidents[i])]

\* ROLLBACK: as if the delivery had never begun, and the sender may repeat it.
Rollback(d) ==
  /\ events' = [m \in Messages |-> IF events[m].by = d THEN [events[m] EXCEPT !.by = Nobody]
                                   ELSE events[m]]
  /\ alerts' = [e \in Episodes |-> Reverted(d, alerts[e])]
  /\ incidents' = TicketsReverted(d)
  /\ tx' = [tx EXCEPT ![d] = IdleTx]
  /\ UNCHANGED <<worked, covered, begun, history>>

\* A statement fails, or the connection is lost.
Abort(d) ==
  /\ ~At(d, "idle")
  /\ Besides
  /\ Rollback(d)

\* The transactions a delivery waits for.
Holders(d) ==
  CASE At(d, "record")  -> {events[Message(d)].by}
    [] At(d, "close")   -> {alerts[tx[d].ep].by}
    [] At(d, "resolve") -> {incidents[tx[d].inc].by}
    [] At(d, "upsert")  -> OpenWriters(d, Alarm(d))
    [] At(d, "reopen")  -> IF StatusSeen(d, tx[d].inc) = "resolved"
                           THEN {incidents[tx[d].inc].by} ELSE {}
    [] OTHER -> {}

Awaited(d) == Holders(d) \ {d, Nobody}

\* Postgres ends one of the transactions that wait for each other.
BreakDeadlock(d) ==
  /\ \E S \in SUBSET Deliveries :
       /\ d \in S
       /\ \A x \in S : /\ \E y \in S : y \in Awaited(x)
                       /\ \E y \in S : x \in Awaited(y)
  /\ Rollback(d)
  /\ UNCHANGED besides

-----------------------------------------------------------------------------
(***************************************************************************)
(* People, and the changes planned for a configuration item.               *)
(***************************************************************************)

Committing(i) == incidents[i].by = Nobody /\ incidents[i].is # NoTicket

\* PATCH /incidents/:id gives any status, and waits for the row.
SetStatus(i, to) ==
  /\ Committing(i)
  /\ Besides
  /\ incidents[i].is.status # to
  /\ incidents' = [incidents EXCEPT ![i] = Clean([@.is EXCEPT !.status = to])]
  /\ worked' = worked \cup {i}
  /\ cancelled' = IF to = "cancelled" THEN cancelled \cup {i} ELSE cancelled
  /\ UNCHANGED <<events, alerts, covered, tx, begun, settled, disturbed>>

\* POST /incidents/:id/journal
Comment(i) ==
  /\ incidents[i].was # NoTicket
  /\ i \notin worked
  /\ Besides
  /\ worked' = worked \cup {i}
  /\ UNCHANGED <<tables, covered, tx, begun, history>>

\* A change window begins or ends.  When it ends between the two looks a
\* delivery takes at it, the delivery has passed over the previous incident.
Window(a) ==
  /\ Besides
  /\ covered' = IF a \in covered THEN covered \ {a} ELSE covered \cup {a}
  /\ disturbed' = IF \E d \in Deliveries : At(d, "apply") /\ Alarm(d) = a
                  THEN disturbed \cup {a} ELSE disturbed
  /\ UNCHANGED <<tables, worked, tx, begun, settled, cancelled>>

Next ==
  \/ \E d \in Deliveries :
       \/ \E list \in Lists : Begin(d, list)
       \/ Statement(d) \/ Commit(d) \/ Abort(d) \/ BreakDeadlock(d)
  \/ \E i \in Incidents : Comment(i) \/ \E to \in IncidentStatuses : SetStatus(i, to)
  \/ \E a \in Alarms : Window(a)

Spec == Init /\ [][Next]_vars

\* Statements are carried out, and Postgres looks for deadlocks.
Fairness ==
  \A d \in Deliveries :
    WF_vars(Statement(d) \/ Commit(d)) /\ WF_vars(BreakDeadlock(d))

FairSpec == Spec /\ Fairness

-----------------------------------------------------------------------------
(***************************************************************************)
(* What the alerts promise.                                                *)
(***************************************************************************)

\* No incident is opened twice for one episode, or for none: every incident that
\* is there to see is the incident of an alert that is there to see, even when
\* two deliveries bring the first firing of an alarm at once, or repeat it.
IncidentsAreLinked ==
  \A i \in Incidents :
    incidents[i].was.status # "absent" =>
      \E e \in Episodes : /\ alerts[e].was.status # "absent"
                          /\ alerts[e].was.inc = i
                          /\ alerts[e].was.alarm = incidents[i].was.alarm

\* docs/EVENT_MANAGEMENT.md:46: "One incident".  An alarm that comes back is given
\* the incident it had; it gets another only when people cancelled that one, or
\* when deliveries or a change window came between each other.
OneIncident ==
  \A i, j \in Incidents :
    /\ i # j
    /\ incidents[i].was.status # "absent" /\ incidents[j].was.status # "absent"
    /\ incidents[i].was.alarm = incidents[j].was.alarm
    /\ incidents[i].was.alarm \notin disturbed
    => {i, j} \cap cancelled # {}

\* docs/EVENT_MANAGEMENT.md:21: "A resolved message closes it."  An alarm has an
\* open episode exactly if the last new message about it was firing, however
\* often messages are repeated, delivered out of order, or rolled back.
LastMessageDecides ==
  \A a \in Alarms :
    settled[a] # "unknown" =>
      ((settled[a] = "firing") <=>
         \E e \in Episodes : alerts[e].was.status = "firing" /\ alerts[e].was.alarm = a)

\* docs/EVENT_MANAGEMENT.md:52: only an incident that is "still `new`" is resolved.
\* What people took up or cancelled stays as they left it, also when they do so
\* after the delivery has looked.
WorkIsKept ==
  [][\A i \in Incidents :
       incidents[i].was.status \in {"in_progress", "cancelled"} /\ besides' = besides
         => incidents'[i].was = incidents[i].was]_vars

\* Every delivery is answered, those that wait for each other's rows as well.
DeliveriesEnd ==
  \A d \in Deliveries : ~At(d, "idle") ~> At(d, "idle")
=============================================================================
