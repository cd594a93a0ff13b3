------------------------ MODULE AlertEpisodes_proofs ------------------------
(***************************************************************************)
(* Theorems about AlertEpisodes: type correctness, that no incident is     *)
(* opened twice for one episode or for none, that the work of people is    *)
(* kept, that the last message decides, and that an alarm that comes back  *)
(* is given the incident it had.                                           *)
(*                                                                         *)
(* TypeInv holds of every delivery however they overlap.  LastInv and      *)
(* CalmInv follow the alarms that only one delivery is about, and those    *)
(* whose deliveries have not overtaken each other.                         *)
(***************************************************************************)
EXTENDS AlertEpisodes, SequenceTheorems, WellFoundedInduction, TLAPS

Present(v) == v.status # "absent"

Firing(v) == v.status = "firing"

\* What any row shows: nobody's row is clean, and a row that is committed neither
\* vanishes nor changes its alarm, an episode keeps its incident and does not
\* fire again, and the incident people have taken up keeps its status.
EpisodeRow(row) ==
  /\ row.by = Nobody => row.is = row.was
  /\ Present(row.was) =>
       /\ Present(row.is)
       /\ row.is.alarm = row.was.alarm
       /\ row.was.inc # NoIncident => row.is.inc = row.was.inc
       /\ row.was.status = "resolved" => row.is.status = "resolved"

TicketRow(row) ==
  /\ row.by = Nobody => row.is = row.was
  /\ Present(row.was) =>
       /\ Present(row.is)
       /\ row.is.alarm = row.was.alarm
       /\ row.was.status \in {"in_progress", "cancelled"} => row.is = row.was

RowsInv ==
  /\ \A e \in Episodes : EpisodeRow(alerts[e])
  /\ \A i \in Incidents : TicketRow(incidents[i])

\* What a delivery knows of the episode it is about.
Holding(d) ==
  /\ Present(Seen(d, alerts[tx[d].ep]))
  /\ Seen(d, alerts[tx[d].ep]).alarm = Alarm(d)
  /\ tx[d].inc # NoIncident => Seen(d, alerts[tx[d].ep]).inc = tx[d].inc
  /\ ~At(d, "close") => alerts[tx[d].ep].by = d
  /\ tx[d].pc \in {"reuse", "apply"} => alerts[tx[d].ep].is.inc = NoIncident

HandsOK(d) == IF tx[d].pc \in EpisodePCs THEN Holding(d) ELSE tx[d].inc = NoIncident

HoldInv == \A d \in Deliveries : HandsOK(d)

\* The incident of an episode is there, for whoever sees the episode.
TicketOf(v, ticket) == Present(ticket) /\ ticket.alarm = v.alarm

LinkInv ==
  \A e \in Episodes :
    /\ Present(alerts[e].was) /\ alerts[e].was.inc # NoIncident =>
         TicketOf(alerts[e].was, incidents[alerts[e].was.inc].was)
    /\ \A d \in Deliveries :
         alerts[e].by = d /\ Present(alerts[e].is) /\ alerts[e].is.inc # NoIncident =>
           TicketOf(alerts[e].is, Seen(d, incidents[alerts[e].is.inc]))

TypeInv == TypeOK /\ RowsInv /\ HoldInv /\ LinkInv

\* An incident that is not committed yet is linked by its own delivery.
OpenedInv ==
  \A i \in Incidents, d \in Deliveries :
    /\ incidents[i].by = d
    /\ ~Present(incidents[i].was) /\ Present(incidents[i].is)
    => \E e \in Episodes : /\ alerts[e].by = d
                           /\ Present(alerts[e].is)
                           /\ alerts[e].is.inc = i

LinkedInv == TypeInv /\ OpenedInv /\ IncidentsAreLinked

-----------------------------------------------------------------------------

Alike(e, f) ==
  /\ e # f
  /\ Present(alerts[e].is) /\ Present(alerts[f].is)
  /\ alerts[e].is.alarm = alerts[f].is.alarm

\* Of two episodes of one alarm only one fires, in whatever order the
\* deliveries that write to them end.
OneFires ==
  \A e, f \in Episodes :
    Alike(e, f) =>
      /\ ~(Firing(alerts[e].was) /\ Firing(alerts[f].was))
      /\ ~(Firing(alerts[e].is) /\ Firing(alerts[f].is))
      /\ Firing(alerts[e].was) /\ Firing(alerts[f].is) => alerts[e].by = alerts[f].by

\* What a delivery has in hand, and what it has touched.
Clearing == {"find", "close", "judge", "resolve"}
Raising  == {"upsert", "reuse", "apply", "reopen"}

Desk(d) ==
  /\ \A k \in DOMAIN tx[d].rest : tx[d].rest[k].alarm \in tx[d].about
  /\ \A a \in Alarms : tx[d].news[a] # "none" => a \in tx[d].about
  /\ tx[d].alone \subseteq tx[d].about
  /\ At(d, "idle") => tx[d].about = {}
  /\ tx[d].pc \in Clearing => tx[d].news[Alarm(d)] = "resolved"
  /\ tx[d].pc \in Raising => tx[d].news[Alarm(d)] = "firing"
  /\ \A e \in Episodes :
       alerts[e].by = d /\ Present(alerts[e].is) => tx[d].news[alerts[e].is.alarm] # "none"

DeskInv == \A d \in Deliveries : Desk(d)

AloneInv ==
  \A d, x \in Deliveries : d # x => tx[d].alone \cap tx[x].about = {}

Fires(a) ==
  \E e \in Episodes : Firing(alerts[e].is) /\ alerts[e].is.alarm = a

\* An alarm that only one delivery is about is as its last message says, except
\* while that message is being dealt with.
AsSaid(d, a) ==
  /\ tx[d].news[a] = "firing" /\ ~(At(d, "upsert") /\ Alarm(d) = a) => Fires(a)
  /\ tx[d].news[a] = "resolved" /\ ~(tx[d].pc \in {"find", "close"} /\ Alarm(d) = a)
       => ~Fires(a)
  /\ At(d, "close") /\ Alarm(d) = a => Firing(alerts[tx[d].ep].is)

NewsInv == \A d \in Deliveries : \A a \in tx[d].alone : AsSaid(d, a)

LastInv == TypeInv /\ OneFires /\ DeskInv /\ AloneInv /\ NewsInv /\ LastMessageDecides

-----------------------------------------------------------------------------

\* An episode that is over.
Over(e) == alerts[e].by = Nobody /\ alerts[e].was.status = "resolved"

Calm(e) == Present(alerts[e].is) /\ alerts[e].is.alarm \notin disturbed

StampInv ==
  \A d \in Deliveries, e \in Episodes :
    alerts[e].by = d => /\ ~At(d, "idle")
                        /\ Present(alerts[e].is)
                        /\ alerts[e].is.seen = tx[d].start

\* Undisturbed, only the latest episode is not over.
OverInv ==
  /\ \A e \in Episodes :
       Calm(e) /\ alerts[e].by # Nobody => alerts[e].was.status # "resolved"
  /\ \A e, f \in Episodes :
       Calm(e) /\ Alike(e, f) /\ ~Over(e) =>
         /\ Over(f)
         /\ alerts[f].is.seen < alerts[e].is.seen
         /\ Present(alerts[e].was) => alerts[f].is.seen < alerts[e].was.seen

CancelInv ==
  \A i \in Incidents :
    \/ incidents[i].was.status = "cancelled"
    \/ incidents[i].is.status = "cancelled"
    => i \in cancelled

\* Undisturbed, an alarm has left behind only incidents that were cancelled.
LeftInv ==
  \A e, f \in Episodes :
    /\ Calm(e) /\ Alike(e, f)
    /\ alerts[e].is.inc # NoIncident /\ alerts[f].is.inc # NoIncident
    /\ alerts[e].is.inc # alerts[f].is.inc
    /\ alerts[e].is.seen <= alerts[f].is.seen
    => alerts[e].is.inc \in cancelled

\* Whoever is about to open an incident has passed over cancelled ones only.
AboutInv ==
  \A d \in Deliveries :
    LET e == tx[d].ep IN
    At(d, "apply") /\ Calm(e) /\ ~(tx[d].fresh /\ Alarm(d) \in covered) =>
      \A f \in Episodes :
        Alike(e, f) /\ alerts[f].is.inc # NoIncident => alerts[f].is.inc \in cancelled

CalmInv == TypeInv /\ StampInv /\ OverInv /\ CancelInv /\ LeftInv /\ AboutInv

-----------------------------------------------------------------------------
(***************************************************************************)
(* Deliveries and rows.                                                    *)
(***************************************************************************)

\* What TypeOK says of one delivery.
Delivery(t) ==
  /\ t \in TxType
  /\ t.rest = <<>> <=> t.pc \in {"idle", "commit"}
  /\ t.ep # 0 <=> t.pc \in EpisodePCs
  /\ t.pc \in IncidentPCs => t.inc # NoIncident

LEMMA IdleType == Delivery(IdleTx) /\ IdleTx.pc = "idle" /\ IdleTx.inc = NoIncident
BY DEF Delivery, IdleTx, TxType, PCs, EpisodePCs, IncidentPCs, NoNews

\* A delivery that is under way has a message before it.
LEMMA MessageType ==
  ASSUME TypeOK, NEW d \in Deliveries, tx[d].pc \notin {"idle", "commit"}
  PROVE  Message(d) \in Messages /\ Alarm(d) \in Alarms
<1>1. tx[d].rest \in Seq(Messages) /\ tx[d].rest # <<>>
  BY DEF TypeOK, TxType
<1>2. Message(d) \in Messages
  BY <1>1 DEF Message
<1> QED BY <1>2, AlertsAssumption DEF Alarm

\* Advancing leaves what is recorded of the delivery, and no episode in hand.
LEMMA AdvancedType ==
  ASSUME NEW t, Delivery(t), t.rest # <<>>
  PROVE  LET u == Advanced(t) IN
         /\ Delivery(u)
         /\ u.pc \in {"record", "commit"}
         /\ u.inc = NoIncident /\ u.rest = Tail(t.rest)
         /\ u.start = t.start /\ u.news = t.news /\ u.about = t.about /\ u.alone = t.alone
<1> DEFINE u == Advanced(t)
<1>1. t \in TxType /\ t.rest \in Seq(Messages)
  BY DEF Delivery, TxType
<1>2. Tail(t.rest) \in Seq(Messages) /\ (Tail(t.rest) = <<>> <=> ~(Len(t.rest) > 1))
  <2>1. Tail(t.rest) \in Seq(Messages) /\ Len(Tail(t.rest)) = Len(t.rest) - 1
    BY <1>1, HeadTailProperties
  <2>2. Len(t.rest) \in Nat /\ Len(Tail(t.rest)) \in Nat
    BY <1>1, <2>1, LenProperties
  <2>3. Tail(t.rest) = <<>> <=> Len(Tail(t.rest)) = 0
    BY <2>1, EmptySeq
  <2>4. Len(Tail(t.rest)) = 0 <=> ~(Len(t.rest) > 1)
    <3> DEFINE n == Len(t.rest)
               k == Len(Tail(t.rest))
    <3>1. n \in Nat /\ k \in Nat /\ k = n - 1
      BY <2>1, <2>2
    <3> HIDE DEF n, k
    <3>2. k = 0 <=> ~(n > 1)
      BY <3>1
    <3> QED BY <3>2 DEF n, k
  <2> QED BY <2>1, <2>3, <2>4
<1>3. u \in TxType
  BY <1>1, <1>2 DEF Advanced, TxType, PCs
<1> QED BY <1>1, <1>2, <1>3 DEF Advanced, TxType, Delivery, EpisodePCs, IncidentPCs

LEMMA AdvanceStep ==
  ASSUME TypeOK, NEW d \in Deliveries, tx[d].pc \notin {"idle", "commit"}, Advance(d)
  PROVE  /\ tx' = [tx EXCEPT ![d] = Advanced(tx[d])]
         /\ Delivery(tx'[d])
         /\ tx'[d].pc \in {"record", "commit"} /\ tx'[d].inc = NoIncident
<1>1. tx[d].rest # <<>> /\ Delivery(tx[d]) /\ tx \in [Deliveries -> TxType]
  BY DEF TypeOK, Delivery
<1>2. tx' = [tx EXCEPT ![d] = Advanced(tx[d])]
  BY DEF Advance
<1> QED BY <1>1, <1>2, AdvancedType

\* Writing to a row that is free, committing it and taking it back keep its type.
LEMMA RowType ==
  ASSUME NEW T, NEW row \in Row(T), NEW v \in T, NEW d \in Deliveries
  PROVE  {Write(d, row, v), Committed(d, row), Reverted(d, row), Clean(v)} \subseteq Row(T)
<1> USE DEF Row
<1>1. Clean(row.is) \in Row(T) /\ Clean(row.was) \in Row(T) /\ Clean(v) \in Row(T)
  BY DEF Clean
<1>2. Write(d, row, v) \in Row(T)
  BY DEF Write
<1> QED BY <1>1, <1>2 DEF Committed, Reverted

\* An episode may be given v if that keeps what EpisodeRow says of it.
Follows(v, u) ==
  /\ v \in EpisodeType /\ Present(v)
  /\ Present(u) => /\ v.alarm = u.alarm
                   /\ u.inc # NoIncident => v.inc = u.inc
                   /\ u.status = "resolved" => v.status = "resolved"

\* The same of an incident.
TakesOver(v, u) ==
  /\ v \in TicketType /\ Present(v)
  /\ Present(u) => /\ v.alarm = u.alarm
                   /\ u.status \in {"in_progress", "cancelled"} => v = u

LEMMA EpisodeRowKept ==
  ASSUME NEW row \in Row(EpisodeType), EpisodeRow(row), NEW d \in Deliveries
  PROVE  /\ \A v : Follows(v, row.is) => EpisodeRow(Write(d, row, v))
         /\ EpisodeRow(Committed(d, row)) /\ EpisodeRow(Reverted(d, row))
<1> USE AlertsAssumption DEF Row, EpisodeRow
<1>1. ASSUME NEW v, Follows(v, row.is) PROVE EpisodeRow(Write(d, row, v))
  BY <1>1 DEF Write, Follows
<1>2. EpisodeRow(Committed(d, row))
  BY DEF Committed, Clean
<1>3. EpisodeRow(Reverted(d, row))
  BY DEF Reverted, Clean
<1> QED BY <1>1, <1>2, <1>3

LEMMA TicketRowKept ==
  ASSUME NEW row \in Row(TicketType), TicketRow(row), NEW d \in Deliveries
  PROVE  /\ \A v : TakesOver(v, row.is) => TicketRow(Write(d, row, v))
         /\ TicketRow(Committed(d, row)) /\ TicketRow(Reverted(d, row))
         /\ \A v : TicketRow(Clean(v))
<1> USE AlertsAssumption DEF Row, TicketRow
<1>1. ASSUME NEW v, TakesOver(v, row.is) PROVE TicketRow(Write(d, row, v))
  BY <1>1 DEF Write, TakesOver
<1>2. TicketRow(Committed(d, row))
  BY DEF Committed, Clean
<1>3. TicketRow(Reverted(d, row))
  BY DEF Reverted, Clean
<1>4. \A v : TicketRow(Clean(v))
  BY DEF Clean
<1> QED BY <1>1, <1>2, <1>3, <1>4

\* Whoever sees an episode sees its incident.
LEMMA SeenTicket ==
  ASSUME TypeInv, NEW d \in Deliveries, NEW e \in Episodes,
         Present(Seen(d, alerts[e])), Seen(d, alerts[e]).inc # NoIncident
  PROVE  LET v == Seen(d, alerts[e]) IN
         v.inc \in Incidents /\ TicketOf(v, Seen(d, incidents[v.inc]))
<1> DEFINE v == Seen(d, alerts[e])
<1>1. alerts[e] \in Row(EpisodeType) /\ EpisodeRow(alerts[e])
  BY DEF TypeInv, TypeOK, RowsInv
<1>2. v \in EpisodeType
  BY <1>1 DEF Seen, Row
<1>3. v.inc \in Incidents
  BY <1>2 DEF EpisodeType, NoEpisode, Present
<1>4. TicketRow(incidents[v.inc])
  BY <1>3 DEF TypeInv, RowsInv
<1>5. CASE alerts[e].by = d
  <2>1. v = alerts[e].is
    BY <1>5 DEF Seen
  <2>2. TicketOf(alerts[e].is, Seen(d, incidents[alerts[e].is.inc]))
    BY <1>5, <2>1 DEF TypeInv, LinkInv
  <2> QED BY <1>3, <2>1, <2>2
<1>6. CASE alerts[e].by # d
  <2>1. v = alerts[e].was
    BY <1>6 DEF Seen
  <2>2. TicketOf(alerts[e].was, incidents[alerts[e].was.inc].was)
    BY <2>1 DEF TypeInv, LinkInv
  <2>3. Present(incidents[v.inc].is) /\ incidents[v.inc].is.alarm = incidents[v.inc].was.alarm
    BY <1>4, <2>1, <2>2 DEF TicketOf, TicketRow
  <2>4. Seen(d, incidents[v.inc]) \in {incidents[v.inc].is, incidents[v.inc].was}
    BY DEF Seen
  <2> QED BY <1>3, <2>1, <2>2, <2>3, <2>4 DEF TicketOf
<1> QED BY <1>5, <1>6

-----------------------------------------------------------------------------
(***************************************************************************)
(* The statements of a delivery.                                           *)
(***************************************************************************)

\* Delivery d gives the value v to an episode, and to an incident.
Touches(d, e, v) ==
  Free(d, alerts[e]) /\ Follows(v, alerts[e].is) /\ Touch(d, e, v)

Writes(d, i, v) ==
  /\ Free(d, incidents[i]) /\ TakesOver(v, incidents[i].is)
  /\ incidents' = [incidents EXCEPT ![i] = Write(d, @, v)]

EpisodesFollow(d) ==
  \/ UNCHANGED alerts
  \/ \E e \in Episodes, v \in EpisodeType :
       /\ Touches(d, e, v)
       /\ v.inc # NoIncident => TicketOf(v, Seen(d, incidents'[v.inc]))

TicketsFollow(d) ==
  \/ UNCHANGED incidents
  \/ \E i \in Incidents, v \in TicketType : Writes(d, i, v)

\* Only d moves, and it keeps what it must know.
Moves(d) ==
  /\ tx' = [tx EXCEPT ![d] = tx'[d]]
  /\ Delivery(tx'[d])
  /\ HandsOK(d)'

Orderly(d) == Moves(d) /\ EpisodesFollow(d) /\ TicketsFollow(d)

LEMMA SeenFree ==
  ASSUME NEW row, NEW d \in Deliveries, Free(d, row), EpisodeRow(row) \/ TicketRow(row)
  PROVE  Seen(d, row) = row.is
BY DEF Free, Seen, EpisodeRow, TicketRow

LEMMA RowsOf ==
  ASSUME TypeInv
  PROVE  /\ \A e \in Episodes : alerts[e] \in Row(EpisodeType) /\ EpisodeRow(alerts[e])
         /\ \A i \in Incidents : incidents[i] \in Row(TicketType) /\ TicketRow(incidents[i])
         /\ \A d \in Deliveries : tx[d] \in TxType /\ Delivery(tx[d]) /\ HandsOK(d)
BY DEF TypeInv, TypeOK, RowsInv, HoldInv, Delivery

\* An incident that somebody sees is still seen after a statement.
LEMMA TicketsStay ==
  ASSUME TypeInv, NEW d \in Deliveries, TicketsFollow(d),
         NEW x \in Deliveries, NEW i \in Incidents, NEW v, TicketOf(v, Seen(x, incidents[i]))
  PROVE  TicketOf(v, Seen(x, incidents'[i]))
<1>1. CASE incidents'[i] = incidents[i]
  BY <1>1 DEF Seen
<1>2. CASE incidents'[i] # incidents[i]
  <2>1. PICK u \in TicketType :
          Free(d, incidents[i]) /\ TakesOver(u, incidents[i].is)
          /\ incidents'[i] = Write(d, incidents[i], u)
    BY <1>2, RowsOf DEF TicketsFollow, Writes, TypeInv, TypeOK
  <2>2. incidents[i] \in Row(TicketType) /\ TicketRow(incidents[i])
    BY RowsOf
  <2>3. /\ incidents'[i].is = u /\ incidents'[i].by = d
        /\ incidents'[i].was = incidents[i].was
    BY <2>1, <2>2 DEF Write, Row
  <2>4. CASE x = d
    <3>1. Seen(d, incidents[i]) = incidents[i].is
      BY <2>1, <2>2, SeenFree
    <3>2. Seen(d, incidents[i])' = u
      BY <2>3 DEF Seen
    <3> QED BY <2>1, <2>4, <3>1, <3>2 DEF TicketOf, TakesOver
  <2>5. CASE x # d
    <3>1. Seen(x, incidents[i]) = incidents[i].was
      BY <2>1, <2>5, AlertsAssumption DEF Free, Seen
    <3>2. Seen(x, incidents[i])' = incidents[i].was
      BY <2>3, <2>5 DEF Seen
    <3> QED BY <3>1, <3>2
  <2> QED BY <2>4, <2>5
<1> QED BY <1>1, <1>2

\* A delivery that advances has nothing in hand.
LEMMA AdvanceMoves ==
  ASSUME TypeOK, NEW d \in Deliveries, tx[d].pc \notin {"idle", "commit"}, Advance(d)
  PROVE  Moves(d)
<1>1. /\ tx' = [tx EXCEPT ![d] = Advanced(tx[d])] /\ Delivery(tx'[d])
      /\ tx'[d].pc \in {"record", "commit"} /\ tx'[d].inc = NoIncident
  BY AdvanceStep
<1> QED BY <1>1 DEF Moves, HandsOK, EpisodePCs, TypeOK

\* A statement that only moves on within its message.
LEMMA GotoMoves ==
  ASSUME TypeInv, NEW d \in Deliveries, NEW pc \in PCs, Goto(d, pc),
         tx[d].pc \notin {"idle", "commit"}, pc \notin {"idle", "commit"},
         pc \in EpisodePCs <=> tx[d].pc \in EpisodePCs,
         pc \in IncidentPCs => tx[d].inc # NoIncident
  PROVE  /\ tx' = [tx EXCEPT ![d] = tx'[d]] /\ Delivery(tx'[d])
         /\ tx'[d] = [tx[d] EXCEPT !.pc = pc]
<1>1. tx[d] \in TxType /\ Delivery(tx[d]) /\ tx \in [Deliveries -> TxType]
  BY RowsOf DEF TypeInv, TypeOK
<1>2. tx' = [tx EXCEPT ![d] = [tx[d] EXCEPT !.pc = pc]]
  BY DEF Goto
<1>3. tx'[d] = [tx[d] EXCEPT !.pc = pc]
  BY <1>1, <1>2
<1>4. tx'[d] \in TxType
  BY <1>1, <1>3 DEF TxType
<1> QED BY <1>1, <1>2, <1>3, <1>4 DEF Delivery, TxType

LEMMA RecordStep ==
  ASSUME TypeInv, NEW d \in Deliveries, Record(d)
  PROVE  Orderly(d)
<1> DEFINE m == Message(d)
<1>1. UNCHANGED <<alerts, incidents>> /\ tx[d].pc = "record"
  BY DEF Record, At
<1>2. /\ tx[d] \in TxType /\ Delivery(tx[d]) /\ tx \in [Deliveries -> TxType]
      /\ tx[d].inc = NoIncident
  BY <1>1, RowsOf DEF TypeInv, TypeOK, HandsOK, EpisodePCs
<1>3. m \in Messages /\ m.alarm \in Alarms /\ m.status \in {"firing", "resolved"}
  BY <1>1, MessageType, AlertsAssumption DEF TypeInv, Alarm
<1>4. CASE IsNew(d, m)
  <2> DEFINE pc == IF m.status = "resolved" THEN "find" ELSE "upsert"
             said == IF First(d, m) THEN m.status ELSE tx[d].news[m.alarm]
  <2>1. tx' = [tx EXCEPT ![d].pc = pc, ![d].news[m.alarm] = said]
    BY <1>4 DEF Record
  <2>2. tx' = [tx EXCEPT ![d] = [tx[d] EXCEPT !.pc = pc, !.news[m.alarm] = said]]
    BY <1>2, <2>1
  <2>3. tx'[d] = [tx[d] EXCEPT !.pc = pc, !.news[m.alarm] = said]
    BY <1>2, <2>2
  <2>4. [tx[d].news EXCEPT ![m.alarm] = said] \in [Alarms -> {"none", "firing", "resolved"}]
    <3>1. tx[d].news \in [Alarms -> {"none", "firing", "resolved"}]
      BY <1>2 DEF TxType
    <3>2. said \in {"none", "firing", "resolved"}
      BY <1>3, <3>1
    <3> QED BY <1>3, <3>1, <3>2
  <2>5. tx'[d] \in TxType
    <3>1. tx'[d] = [tx[d] EXCEPT !.pc = pc, !.news = [tx[d].news EXCEPT ![m.alarm] = said]]
      BY <1>2, <2>3 DEF TxType
    <3>2. pc \in PCs
      BY DEF PCs
    <3> HIDE DEF pc, said
    <3> QED BY <1>2, <2>4, <3>1, <3>2 DEF TxType
  <2>6. Delivery(tx'[d]) /\ tx'[d].pc \in {"find", "upsert"} /\ tx'[d].inc = NoIncident
    BY <1>1, <1>2, <2>3, <2>5 DEF Delivery, TxType, EpisodePCs, IncidentPCs
  <2> QED BY <1>1, <1>2, <2>2, <2>6
          DEF Orderly, Moves, HandsOK, EpisodePCs, EpisodesFollow, TicketsFollow
<1>5. CASE ~IsNew(d, m)
  BY <1>1, <1>5, AdvanceMoves DEF Record, TypeInv, Orderly, EpisodesFollow, TicketsFollow
<1> QED BY <1>4, <1>5

LEMMA FindStep ==
  ASSUME TypeInv, NEW d \in Deliveries, Find(d)
  PROVE  Orderly(d)
<1>1. UNCHANGED <<alerts, incidents>> /\ tx[d].pc = "find"
  BY DEF Find, At, tables
<1>2. EpisodesFollow(d) /\ TicketsFollow(d)
  BY <1>1 DEF EpisodesFollow, TicketsFollow
<1>3. CASE Advance(d)
  BY <1>1, <1>2, <1>3, AdvanceMoves DEF TypeInv, Orderly
<1>4. CASE \E e \in OpenEpisodes(d, Alarm(d)) :
             tx' = [tx EXCEPT ![d].pc = "close", ![d].ep = e, ![d].inc = Seen(d, alerts[e]).inc]
  <2>1. PICK e \in OpenEpisodes(d, Alarm(d)) :
          tx' = [tx EXCEPT ![d].pc = "close", ![d].ep = e, ![d].inc = Seen(d, alerts[e]).inc]
    BY <1>4
  <2> DEFINE v == Seen(d, alerts[e])
  <2>2. e \in Episodes /\ Present(v) /\ v.alarm = Alarm(d) /\ v.status = "firing"
    BY DEF OpenEpisodes, EpisodesOf, Present
  <2>3. v \in EpisodeType
    BY <2>2, RowsOf DEF Seen, Row
  <2>4. v.inc \in Incidents \cup {NoIncident}
    BY <2>2, <2>3 DEF EpisodeType, NoEpisode, Present
  <2>5. /\ tx[d] \in TxType /\ Delivery(tx[d]) /\ tx \in [Deliveries -> TxType]
    BY RowsOf DEF TypeInv, TypeOK
  <2>6. /\ tx' = [tx EXCEPT ![d] = [tx[d] EXCEPT !.pc = "close", !.ep = e, !.inc = v.inc]]
        /\ tx'[d] = [tx[d] EXCEPT !.pc = "close", !.ep = e, !.inc = v.inc]
    BY <2>1, <2>5
  <2>7. tx'[d] \in TxType
    BY <2>2, <2>4, <2>5, <2>6 DEF TxType, PCs
  <2>8. Delivery(tx'[d])
    BY <1>1, <2>2, <2>5, <2>6, <2>7 DEF Delivery, TxType, EpisodePCs, IncidentPCs, Episodes
  <2>9. HandsOK(d)'
    <3>1. /\ tx'[d].pc = "close" /\ tx'[d].ep = e /\ tx'[d].inc = v.inc
          /\ tx'[d].rest = tx[d].rest
      BY <2>5, <2>6 DEF TxType
    <3>2. Seen(d, alerts[e])' = v /\ Alarm(d)' = Alarm(d)
      BY <1>1, <3>1 DEF Seen, Alarm, Message
    <3> QED BY <2>2, <3>1, <3>2 DEF HandsOK, Holding, At, EpisodePCs
  <2> QED BY <1>2, <2>6, <2>8, <2>9 DEF Orderly, Moves
<1> QED BY <1>3, <1>4 DEF Find

\* What a delivery has in hand, once it has written to it.
LEMMA InHand ==
  ASSUME TypeInv, NEW d \in Deliveries, tx[d].pc \in EpisodePCs, Free(d, alerts[tx[d].ep])
  PROVE  LET row == alerts[tx[d].ep] IN
         /\ tx[d].ep \in Episodes
         /\ row.is \in EpisodeType /\ Present(row.is) /\ row.is.alarm = Alarm(d)
         /\ row.is.inc \in Incidents \cup {NoIncident}
         /\ tx[d].inc # NoIncident => row.is.inc = tx[d].inc
         /\ tx[d].pc \in {"reuse", "apply"} => row.is.inc = NoIncident
<1> DEFINE row == alerts[tx[d].ep]
<1>1. tx[d] \in TxType /\ Delivery(tx[d]) /\ Holding(d)
  BY RowsOf DEF HandsOK
<1>2. tx[d].ep \in Episodes
  BY <1>1 DEF TxType, Delivery
<1>3. row \in Row(EpisodeType) /\ EpisodeRow(row)
  BY <1>2, RowsOf
<1>4. Seen(d, row) = row.is
  BY <1>3, SeenFree
<1>5. row.is \in EpisodeType /\ Present(row.is)
  BY <1>1, <1>3, <1>4 DEF Row, Holding
<1>6. row.is.inc \in Incidents \cup {NoIncident}
  BY <1>5 DEF EpisodeType, NoEpisode, Present
<1> QED BY <1>1, <1>2, <1>4, <1>5, <1>6 DEF Holding

LEMMA Touched ==
  ASSUME TypeInv, NEW d \in Deliveries, NEW e \in Episodes, NEW v, Touch(d, e, v)
  PROVE  /\ alerts' = [alerts EXCEPT ![e] = Write(d, alerts[e], v)]
         /\ alerts'[e].is = v /\ alerts'[e].by = d /\ alerts'[e].was = alerts[e].was
         /\ Seen(d, alerts'[e]) = v
<1>1. alerts \in [Episodes -> Row(EpisodeType)] /\ alerts[e] \in Row(EpisodeType)
  BY DEF TypeInv, TypeOK
<1>2. alerts' = [alerts EXCEPT ![e] = Write(d, alerts[e], v)]
  BY DEF Touch
<1>3. alerts'[e] = Write(d, alerts[e], v)
  BY <1>1, <1>2
<1>4. /\ alerts'[e].is = v /\ alerts'[e].by = d /\ alerts'[e].was = alerts[e].was
  BY <1>1, <1>3 DEF Write, Row
<1> QED BY <1>2, <1>4 DEF Seen

\* What may be changed of an episode.
LEMMA EditedType ==
  ASSUME NEW u \in EpisodeType, Present(u), NEW n \in Nat
  PROVE  /\ LET v == [u EXCEPT !.status = "resolved", !.seen = n] IN
            /\ v \in EpisodeType
            /\ v.status = "resolved" /\ v.alarm = u.alarm /\ v.inc = u.inc /\ v.seen = n
         /\ LET v == [u EXCEPT !.seen = n] IN
            /\ v \in EpisodeType
            /\ v.status = u.status /\ v.alarm = u.alarm /\ v.inc = u.inc /\ v.seen = n
         /\ \A i \in Incidents : LET v == [u EXCEPT !.inc = i] IN
            /\ v \in EpisodeType
            /\ v.status = u.status /\ v.alarm = u.alarm /\ v.inc = i /\ v.seen = u.seen
<1> DEFINE E == [status : {"firing", "resolved"}, alarm : Alarms,
                 inc : Incidents \cup {NoIncident}, seen : Nat]
<1>1. u \in E /\ E \subseteq EpisodeType
  BY DEF EpisodeType, NoEpisode, Present
<1>2. /\ [u EXCEPT !.status = "resolved", !.seen = n] \in E
      /\ [u EXCEPT !.seen = n] \in E
      /\ \A i \in Incidents : [u EXCEPT !.inc = i] \in E
  BY <1>1
<1> QED BY <1>1, <1>2

LEMMA TouchFollows ==
  ASSUME TypeInv, NEW d \in Deliveries, NEW e \in Episodes, NEW v,
         Free(d, alerts[e]), Follows(v, alerts[e].is), Touch(d, e, v),
         v.inc # NoIncident => TicketOf(v, Seen(d, incidents'[v.inc]))
  PROVE  EpisodesFollow(d)
<1>1. v \in EpisodeType
  BY DEF Follows
<1>2. Touches(d, e, v)
  BY DEF Touches
<1> QED BY <1>1, <1>2 DEF EpisodesFollow

LEMMA CloseStep ==
  ASSUME TypeInv, NEW d \in Deliveries, Close(d)
  PROVE  Orderly(d)
<1> DEFINE e == tx[d].ep
           v == [alerts[e].is EXCEPT !.status = "resolved", !.seen = tx[d].start]
<1>1. /\ tx[d].pc = "close" /\ Free(d, alerts[e]) /\ Touch(d, e, v)
      /\ UNCHANGED incidents
  BY DEF Close, At
<1>2. /\ e \in Episodes /\ alerts[e].is \in EpisodeType /\ Present(alerts[e].is)
      /\ alerts[e].is.alarm = Alarm(d)
      /\ tx[d].inc # NoIncident => alerts[e].is.inc = tx[d].inc
  BY <1>1, InHand DEF EpisodePCs
<1>3. tx[d] \in TxType /\ Delivery(tx[d]) /\ tx \in [Deliveries -> TxType]
  BY RowsOf DEF TypeInv, TypeOK
<1>4. /\ v \in EpisodeType /\ v.status = "resolved" /\ v.alarm = alerts[e].is.alarm
      /\ v.inc = alerts[e].is.inc
  <2>1. tx[d].start \in Nat
    BY <1>3 DEF TxType
  <2> QED BY <1>2, <2>1, EditedType
<1>5. alerts'[e].by = d /\ Seen(d, alerts'[e]) = v
  BY <1>1, <1>2, Touched
<1> HIDE DEF v
<1>6. Follows(v, alerts[e].is) /\ Present(v)
  BY <1>4 DEF Follows, Present
<1>7. TicketsFollow(d)
  BY <1>1 DEF TicketsFollow
<1>8. EpisodesFollow(d)
  <2>1. ASSUME v.inc # NoIncident PROVE TicketOf(v, Seen(d, incidents'[v.inc]))
    <3>1. Seen(d, alerts[e]) = alerts[e].is
      BY <1>1, <1>2, RowsOf, SeenFree
    <3>2. TicketOf(alerts[e].is, Seen(d, incidents[v.inc]))
      BY <1>2, <1>4, <2>1, <3>1, SeenTicket
    <3> QED BY <1>1, <1>4, <3>2 DEF TicketOf
  <2> QED BY <1>1, <1>2, <1>6, <2>1, TouchFollows
<1>9. Moves(d)
  <2>1. CASE tx[d].inc = NoIncident
    BY <1>1, <2>1, AdvanceMoves DEF Close, TypeInv
  <2>2. CASE tx[d].inc # NoIncident
    <3>1. /\ tx' = [tx EXCEPT ![d] = tx'[d]] /\ Delivery(tx'[d])
          /\ tx'[d] = [tx[d] EXCEPT !.pc = "judge"]
      BY <1>1, <2>2, GotoMoves DEF Close, PCs, EpisodePCs
    <3>2. /\ tx'[d].pc = "judge" /\ tx'[d].ep = e /\ tx'[d].inc = tx[d].inc
          /\ tx'[d].rest = tx[d].rest
      BY <1>3, <3>1 DEF TxType
    <3>3. Alarm(d)' = Alarm(d)
      BY <3>2 DEF Alarm, Message
    <3>4. v.alarm = Alarm(d) /\ v.inc = tx[d].inc
      BY <1>2, <1>4, <2>2
    <3> HIDE DEF e
    <3>5. Holding(d)'
      BY <1>5, <1>6, <3>2, <3>3, <3>4 DEF Holding, At, Seen
    <3> QED BY <3>1, <3>2, <3>5 DEF Moves, HandsOK, EpisodePCs
  <2> QED BY <2>1, <2>2
<1> QED BY <1>7, <1>8, <1>9 DEF Orderly

LEMMA JudgeStep ==
  ASSUME TypeInv, NEW d \in Deliveries, Judge(d)
  PROVE  Orderly(d)
<1>1. UNCHANGED <<alerts, incidents>> /\ tx[d].pc = "judge"
  BY DEF Judge, At, tables
<1>2. EpisodesFollow(d) /\ TicketsFollow(d)
  BY <1>1 DEF EpisodesFollow, TicketsFollow
<1>3. CASE Advance(d)
  BY <1>1, <1>2, <1>3, AdvanceMoves DEF TypeInv, Orderly
<1>4. CASE Goto(d, "resolve")
  <2>1. tx[d] \in TxType /\ Delivery(tx[d]) /\ Holding(d)
    BY <1>1, RowsOf DEF HandsOK, EpisodePCs
  <2>2. /\ tx' = [tx EXCEPT ![d] = tx'[d]] /\ Delivery(tx'[d])
        /\ tx'[d] = [tx[d] EXCEPT !.pc = "resolve"]
    BY <1>1, <1>4, <2>1, GotoMoves DEF PCs, EpisodePCs, IncidentPCs, Delivery
  <2>3. /\ tx'[d].pc = "resolve" /\ tx'[d].ep = tx[d].ep /\ tx'[d].inc = tx[d].inc
        /\ tx'[d].rest = tx[d].rest
    BY <2>1, <2>2 DEF TxType
  <2>4. Holding(d)'
    BY <1>1, <2>1, <2>3 DEF Holding, At, Alarm, Message, Seen
  <2> QED BY <1>2, <2>2, <2>3, <2>4 DEF Orderly, Moves, HandsOK, EpisodePCs
<1> QED BY <1>3, <1>4 DEF Judge

\* What d sees of the incident it has in hand, and what it may write to it.
LEMMA TicketInHand ==
  ASSUME TypeInv, NEW d \in Deliveries, tx[d].pc \in IncidentPCs
  PROVE  LET row == incidents[tx[d].inc] IN
         /\ tx[d].inc \in Incidents
         /\ Present(Seen(d, row))
         /\ Free(d, row) => /\ Seen(d, row) = row.is
                           /\ row.is \in TicketType /\ Present(row.is)
<1>1. tx[d] \in TxType /\ Delivery(tx[d]) /\ Holding(d)
  BY RowsOf DEF HandsOK, IncidentPCs, EpisodePCs
<1>2. tx[d].ep \in Episodes /\ tx[d].inc \in Incidents
  BY <1>1 DEF TxType, Delivery, IncidentPCs, EpisodePCs
<1>3. Present(Seen(d, incidents[tx[d].inc]))
  BY <1>1, <1>2, SeenTicket DEF Holding, TicketOf, Incidents, NoIncident
<1>4. incidents[tx[d].inc] \in Row(TicketType) /\ TicketRow(incidents[tx[d].inc])
  BY <1>2, RowsOf
<1>5. ASSUME Free(d, incidents[tx[d].inc])
      PROVE  /\ Seen(d, incidents[tx[d].inc]) = incidents[tx[d].inc].is
             /\ incidents[tx[d].inc].is \in TicketType /\ Present(incidents[tx[d].inc].is)
  BY <1>3, <1>4, <1>5, SeenFree DEF Row
<1> QED BY <1>2, <1>3, <1>5

LEMMA ResolveStep ==
  ASSUME TypeInv, NEW d \in Deliveries, Resolve(d)
  PROVE  Orderly(d)
<1> DEFINE i == tx[d].inc
           v == ResolvedIfNew(incidents[i].is)
<1>1. /\ tx[d].pc = "resolve" /\ Free(d, incidents[i]) /\ UNCHANGED alerts /\ Advance(d)
      /\ incidents' = [incidents EXCEPT ![i] = Write(d, @, ResolvedIfNew(@.is))]
  BY DEF Resolve, At
<1>2. i \in Incidents /\ incidents[i].is \in TicketType /\ Present(incidents[i].is)
  BY <1>1, TicketInHand DEF IncidentPCs
<1>3. v \in TicketType /\ TakesOver(v, incidents[i].is)
  BY <1>2 DEF ResolvedIfNew, TicketType, NoTicket, IncidentStatuses, TakesOver, Present
<1>4. incidents' = [incidents EXCEPT ![i] = Write(d, @, v)]
  BY <1>1, <1>2 DEF TypeInv, TypeOK
<1>5. TicketsFollow(d)
  <2> HIDE DEF v
  <2> QED BY <1>1, <1>2, <1>3, <1>4 DEF TicketsFollow, Writes
<1> QED BY <1>1, <1>5, AdvanceMoves DEF Orderly, EpisodesFollow, TypeInv

LEMMA ReopenStep ==
  ASSUME TypeInv, NEW d \in Deliveries, Reopen(d)
  PROVE  Orderly(d)
<1> DEFINE i == tx[d].inc
           v == [incidents[i].is EXCEPT !.status = "in_progress"]
<1>1. tx[d].pc = "reopen" /\ UNCHANGED alerts /\ Advance(d)
  BY DEF Reopen, At
<1>2. Moves(d) /\ EpisodesFollow(d)
  BY <1>1, AdvanceMoves DEF EpisodesFollow, TypeInv
<1>3. CASE UNCHANGED incidents
  BY <1>2, <1>3 DEF Orderly, TicketsFollow
<1>4. CASE /\ StatusSeen(d, i) = "resolved" /\ Free(d, incidents[i])
           /\ incidents' = [incidents EXCEPT
                              ![i] = Write(d, @, [@.is EXCEPT !.status = "in_progress"])]
  <2>1. /\ i \in Incidents /\ incidents[i].is \in TicketType /\ Present(incidents[i].is)
        /\ Seen(d, incidents[i]) = incidents[i].is
    BY <1>1, <1>4, TicketInHand DEF IncidentPCs
  <2>2. incidents[i].is.status = "resolved"
    BY <1>4, <2>1 DEF StatusSeen
  <2>3. v \in TicketType /\ TakesOver(v, incidents[i].is)
    BY <2>1, <2>2 DEF TicketType, NoTicket, IncidentStatuses, TakesOver, Present
  <2>4. incidents' = [incidents EXCEPT ![i] = Write(d, @, v)]
    BY <1>4, <2>1 DEF TypeInv, TypeOK
  <2> HIDE DEF v
  <2> QED BY <1>2, <1>4, <2>1, <2>3, <2>4 DEF Orderly, TicketsFollow, Writes
<1> QED BY <1>3, <1>4 DEF Reopen

\* An episode that is there for d is one it sees the alarm of.
LEMMA OpenEpisode ==
  ASSUME TypeInv, NEW d \in Deliveries, NEW a, SlotIsFree(d, a), NEW e \in OpenEpisodes(d, a)
  PROVE  /\ e \in Episodes /\ Free(d, alerts[e]) /\ Seen(d, alerts[e]) = alerts[e].is
         /\ alerts[e].is \in EpisodeType /\ Present(alerts[e].is)
         /\ alerts[e].is.alarm = a /\ Firing(alerts[e].is)
<1>1. /\ e \in Episodes /\ Present(Seen(d, alerts[e])) /\ Seen(d, alerts[e]).alarm = a
      /\ Firing(Seen(d, alerts[e]))
  BY DEF OpenEpisodes, EpisodesOf, Present, Firing
<1>2. alerts[e] \in Row(EpisodeType) /\ EpisodeRow(alerts[e])
  BY <1>1, RowsOf
<1>3. Free(d, alerts[e])
  <2> SUFFICES ASSUME ~Free(d, alerts[e]) PROVE FALSE
    OBVIOUS
  <2>1. Seen(d, alerts[e]) = alerts[e].was
    BY DEF Free, Seen
  <2>2. alerts[e].was.status # "resolved" /\ alerts[e].is.alarm = a
    BY <1>1, <1>2, <2>1 DEF EpisodeRow, Firing
  <2>3. alerts[e].by \in OpenWriters(d, a)
    BY <1>1, <2>2 DEF OpenWriters
  <2> QED BY <2>3 DEF SlotIsFree
<1>4. Seen(d, alerts[e]) = alerts[e].is
  BY <1>2, <1>3, SeenFree
<1> QED BY <1>1, <1>2, <1>3, <1>4 DEF Row

\* A clean row of nothing may be given anything.
LEMMA CleanRow ==
  ASSUME NEW v, Present(v), NEW d \in Deliveries
  PROVE  /\ v \in EpisodeType => Follows(v, NoEpisode)
         /\ v \in TicketType => TakesOver(v, NoTicket)
         /\ \A w : Free(d, Clean(w)) /\ Clean(w).is = w /\ Clean(w).was = w
BY DEF Follows, TakesOver, NoEpisode, NoTicket, Present, Free, Clean

\* A delivery takes an episode in hand, or gives it its incident.
LEMMA TakeInHand ==
  ASSUME TypeInv, NEW d \in Deliveries, tx[d].pc \in {"upsert", "reuse"},
         NEW e \in Episodes, NEW i \in Incidents \cup {NoIncident}, NEW f \in BOOLEAN,
         NEW pc \in {"reuse", "reopen"}, pc = "reopen" <=> i # NoIncident,
         tx' = [tx EXCEPT ![d] = [tx[d] EXCEPT !.ep = e, !.inc = i, !.fresh = f, !.pc = pc]],
         NEW v, Present(v), v.alarm = Alarm(d), v.inc = i,
         alerts'[e].by = d, Seen(d, alerts'[e]) = v
  PROVE  Moves(d)
<1>1. /\ tx[d] \in TxType /\ Delivery(tx[d]) /\ tx \in [Deliveries -> TxType]
  BY RowsOf DEF TypeInv, TypeOK
<1>2. tx'[d] = [tx[d] EXCEPT !.ep = e, !.inc = i, !.fresh = f, !.pc = pc]
  BY <1>1
<1>3. /\ tx'[d].ep = e /\ tx'[d].inc = i /\ tx'[d].pc = pc /\ tx'[d].rest = tx[d].rest
      /\ tx'[d] \in TxType
  BY <1>1, <1>2 DEF TxType, PCs
<1>4. Delivery(tx'[d])
  BY <1>1, <1>3 DEF Delivery, EpisodePCs, IncidentPCs, Episodes
<1>5. Alarm(d)' = Alarm(d)
  BY <1>3 DEF Alarm, Message
<1>6. alerts'[e].is = v
  BY DEF Seen
<1>7. Holding(d)'
  BY <1>3, <1>5, <1>6 DEF Holding, At, Seen
<1> QED BY <1>2, <1>3, <1>4, <1>7 DEF Moves, HandsOK, EpisodePCs

LEMMA UpsertStep ==
  ASSUME TypeInv, NEW d \in Deliveries, Upsert(d)
  PROVE  Orderly(d)
<1> DEFINE a == Alarm(d)
           now == tx[d].start
<1>1. tx[d].pc = "upsert" /\ SlotIsFree(d, a) /\ UNCHANGED incidents
  BY DEF Upsert, At
<1>2. /\ tx[d] \in TxType /\ tx \in [Deliveries -> TxType] /\ HandsOK(d)
  BY RowsOf DEF TypeInv, TypeOK
<1>3. now \in Nat /\ a \in Alarms /\ tx[d].inc = NoIncident
  BY <1>1, <1>2, MessageType DEF TypeInv, TxType, HandsOK, EpisodePCs
<1>4. TicketsFollow(d)
  BY <1>1 DEF TicketsFollow
<1>5. ASSUME NEW e \in OpenEpisodes(d, a),
             Touch(d, e, [alerts[e].is EXCEPT !.seen = now]),
             tx' = [tx EXCEPT ![d].ep = e, ![d].inc = alerts[e].is.inc, ![d].fresh = FALSE,
                      ![d].pc = IF alerts[e].is.inc = NoIncident THEN "reuse" ELSE "reopen"]
      PROVE  Moves(d) /\ EpisodesFollow(d)
  <2> DEFINE row == alerts[e].is
             v == [row EXCEPT !.seen = now]
             pc == IF row.inc = NoIncident THEN "reuse" ELSE "reopen"
  <2>1. /\ e \in Episodes /\ Free(d, alerts[e]) /\ Seen(d, alerts[e]) = row
        /\ row \in EpisodeType /\ Present(row) /\ row.alarm = a
    BY <1>1, OpenEpisode
  <2>2. /\ v \in EpisodeType /\ v.status = row.status /\ v.alarm = a /\ v.inc = row.inc
    BY <1>3, <2>1, EditedType
  <2>3. alerts'[e].by = d /\ Seen(d, alerts'[e]) = v
    BY <1>5, <2>1, Touched
  <2>4. Touch(d, e, v)
    BY <1>5
  <2>5. row.inc \in Incidents \cup {NoIncident}
    BY <2>1 DEF EpisodeType, NoEpisode, Present
  <2>6. tx' = [tx EXCEPT ![d] = [tx[d] EXCEPT !.ep = e, !.inc = row.inc, !.fresh = FALSE,
                                              !.pc = pc]]
    BY <1>2, <1>5
  <2>7. pc \in {"reuse", "reopen"} /\ (pc = "reopen" <=> row.inc # NoIncident)
    OBVIOUS
  <2> HIDE DEF v, pc, row
  <2>8. Present(v) /\ Follows(v, row)
    BY <2>1, <2>2 DEF Present, Follows
  <2>9. Moves(d)
    BY <1>1, <2>1, <2>2, <2>3, <2>5, <2>6, <2>7, <2>8, TakeInHand
  <2>10. ASSUME v.inc # NoIncident PROVE TicketOf(v, Seen(d, incidents'[v.inc]))
    <3>1. TicketOf(row, Seen(d, incidents[row.inc]))
      BY <2>1, <2>2, <2>10, SeenTicket
    <3> QED BY <1>1, <2>1, <2>2, <3>1 DEF TicketOf
  <2> QED BY <2>1, <2>4, <2>8, <2>9, <2>10, TouchFollows DEF row
<1>6. ASSUME NEW e \in Episodes, alerts[e] = Clean(NoEpisode),
             Touch(d, e, [status |-> "firing", alarm |-> a, inc |-> NoIncident, seen |-> now]),
             tx' = [tx EXCEPT ![d].ep = e, ![d].fresh = TRUE, ![d].pc = "reuse"]
      PROVE  Moves(d) /\ EpisodesFollow(d)
  <2> DEFINE v == [status |-> "firing", alarm |-> a, inc |-> NoIncident, seen |-> now]
  <2>1. v \in EpisodeType /\ Present(v) /\ v.inc = NoIncident /\ v.alarm = a
    BY <1>3 DEF EpisodeType, Present
  <2>2. Touch(d, e, v)
    BY <1>6
  <2>3. tx' = [tx EXCEPT ![d] = [tx[d] EXCEPT !.ep = e, !.inc = NoIncident, !.fresh = TRUE,
                                              !.pc = "reuse"]]
    <3>1. [tx[d] EXCEPT !.ep = e, !.inc = NoIncident, !.fresh = TRUE, !.pc = "reuse"]
            = [tx[d] EXCEPT !.ep = e, !.fresh = TRUE, !.pc = "reuse"]
      BY <1>2, <1>3 DEF TxType
    <3>2. tx' = [tx EXCEPT ![d] = [tx[d] EXCEPT !.ep = e, !.fresh = TRUE, !.pc = "reuse"]]
      BY <1>2, <1>6
    <3> QED BY <3>1, <3>2
  <2> HIDE DEF v
  <2>4. alerts'[e].by = d /\ Seen(d, alerts'[e]) = v
    BY <1>6, <2>2, Touched
  <2>5. Free(d, alerts[e]) /\ Follows(v, alerts[e].is)
    BY <1>6, <2>1, CleanRow
  <2>6. Moves(d)
    BY <1>1, <2>1, <2>3, <2>4, TakeInHand
  <2> QED BY <2>1, <2>2, <2>5, <2>6, TouchFollows
<1>7. Moves(d) /\ EpisodesFollow(d)
  BY <1>5, <1>6 DEF Upsert
<1> QED BY <1>4, <1>7 DEF Orderly

LEMMA ReuseStep ==
  ASSUME TypeInv, NEW d \in Deliveries, Reuse(d)
  PROVE  Orderly(d)
<1> DEFINE a == Alarm(d)
           e == tx[d].ep
<1>1. tx[d].pc = "reuse" /\ UNCHANGED incidents
  BY DEF Reuse, At
<1>2. tx[d] \in TxType /\ Delivery(tx[d]) /\ tx \in [Deliveries -> TxType] /\ Holding(d)
  BY <1>1, RowsOf DEF TypeInv, TypeOK, HandsOK, EpisodePCs
<1>3. alerts[e].by = d /\ Free(d, alerts[e])
  BY <1>1, <1>2 DEF Holding, At, Free
<1>4. /\ e \in Episodes /\ alerts[e].is \in EpisodeType /\ Present(alerts[e].is)
      /\ alerts[e].is.alarm = a /\ alerts[e].is.inc = NoIncident
  BY <1>1, <1>3, InHand DEF EpisodePCs
<1>5. TicketsFollow(d)
  BY <1>1 DEF TicketsFollow
<1>6. ASSUME NEW i \in Reusable(d, a, e), Touch(d, e, [alerts[e].is EXCEPT !.inc = i]),
             tx' = [tx EXCEPT ![d].inc = i, ![d].pc = "reopen"]
      PROVE  Moves(d) /\ EpisodesFollow(d)
  <2> DEFINE v == [alerts[e].is EXCEPT !.inc = i]
  <2>1. PICK f \in Episodes : /\ Present(Seen(d, alerts[f])) /\ Seen(d, alerts[f]).alarm = a
                              /\ Seen(d, alerts[f]).inc # NoIncident
                              /\ Seen(d, alerts[f]).inc = i
    BY DEF Reusable, PreviousIncidents, PreviousEpisodes, EpisodesOf, Present
  <2>2. i \in Incidents /\ TicketOf(Seen(d, alerts[f]), Seen(d, incidents[i]))
    BY <2>1, SeenTicket
  <2>3. v \in EpisodeType /\ v.status = alerts[e].is.status /\ v.alarm = a /\ v.inc = i
    <3>1. tx[d].start \in Nat
      BY <1>2 DEF TxType
    <3> QED BY <1>4, <2>2, <3>1, EditedType
  <2>4. alerts'[e].by = d /\ Seen(d, alerts'[e]) = v /\ Touch(d, e, v)
    BY <1>4, <1>6, Touched
  <2>5. tx' = [tx EXCEPT ![d] = [tx[d] EXCEPT !.ep = e, !.inc = i, !.fresh = tx[d].fresh,
                                              !.pc = "reopen"]]
    <3>1. [tx[d] EXCEPT !.ep = e, !.inc = i, !.fresh = tx[d].fresh, !.pc = "reopen"]
            = [tx[d] EXCEPT !.inc = i, !.pc = "reopen"]
      BY <1>2 DEF TxType
    <3>2. tx' = [tx EXCEPT ![d] = [tx[d] EXCEPT !.inc = i, !.pc = "reopen"]]
      BY <1>2, <1>6
    <3> QED BY <3>1, <3>2
  <2>6. tx[d].fresh \in BOOLEAN /\ i # NoIncident
    BY <1>2, <2>2 DEF TxType, Incidents, NoIncident
  <2> HIDE DEF v, e
  <2>7. Present(v) /\ Follows(v, alerts[e].is)
    BY <1>4, <2>3 DEF Present, Follows
  <2>8. Moves(d)
    BY <1>1, <1>4, <2>2, <2>3, <2>4, <2>5, <2>6, <2>7, TakeInHand
  <2>9. TicketOf(v, Seen(d, incidents'[v.inc]))
    BY <1>1, <2>1, <2>2, <2>3 DEF TicketOf
  <2> QED BY <1>3, <1>4, <2>4, <2>7, <2>8, <2>9, TouchFollows
<1>7. ASSUME Goto(d, "apply"), UNCHANGED alerts
      PROVE  Moves(d) /\ EpisodesFollow(d)
  <2>1. /\ tx' = [tx EXCEPT ![d] = tx'[d]] /\ Delivery(tx'[d])
        /\ tx'[d] = [tx[d] EXCEPT !.pc = "apply"]
    BY <1>1, <1>7, GotoMoves DEF PCs, EpisodePCs, IncidentPCs
  <2>2. /\ tx'[d].pc = "apply" /\ tx'[d].ep = tx[d].ep /\ tx'[d].inc = tx[d].inc
        /\ tx'[d].rest = tx[d].rest
    BY <1>2, <2>1 DEF TxType
  <2>3. Holding(d)'
    BY <1>1, <1>2, <1>3, <1>4, <1>7, <2>2 DEF Holding, At, Alarm, Message, Seen
  <2> QED BY <1>7, <2>1, <2>2, <2>3 DEF Moves, HandsOK, EpisodePCs, EpisodesFollow
<1>8. Moves(d) /\ EpisodesFollow(d)
  BY <1>6, <1>7 DEF Reuse
<1> QED BY <1>5, <1>8 DEF Orderly

LEMMA ApplyStep ==
  ASSUME TypeInv, NEW d \in Deliveries, Apply(d)
  PROVE  Orderly(d)
<1> DEFINE a == Alarm(d)
           e == tx[d].ep
<1>1. tx[d].pc = "apply" /\ Advance(d)
  BY DEF Apply, At
<1>2. tx[d] \in TxType /\ Delivery(tx[d]) /\ tx \in [Deliveries -> TxType] /\ Holding(d)
  BY <1>1, RowsOf DEF TypeInv, TypeOK, HandsOK, EpisodePCs
<1>3. alerts[e].by = d /\ Free(d, alerts[e])
  BY <1>1, <1>2 DEF Holding, At, Free
<1>4. /\ e \in Episodes /\ alerts[e].is \in EpisodeType /\ Present(alerts[e].is)
      /\ alerts[e].is.alarm = a /\ alerts[e].is.inc = NoIncident
  BY <1>1, <1>3, InHand DEF EpisodePCs
<1>5. Moves(d)
  BY <1>1, AdvanceMoves DEF TypeInv
<1>6. a \in Alarms
  BY <1>1, MessageType DEF TypeInv
<1>7. CASE UNCHANGED <<alerts, incidents>>
  BY <1>5, <1>7 DEF Orderly, EpisodesFollow, TicketsFollow
<1>8. ASSUME NEW i \in Incidents, incidents[i] = Clean(NoTicket),
             incidents' = [incidents EXCEPT
                             ![i] = Write(d, @, [status |-> "new", alarm |-> a])],
             Touch(d, e, [alerts[e].is EXCEPT !.inc = i])
      PROVE  EpisodesFollow(d) /\ TicketsFollow(d)
  <2> DEFINE v == [alerts[e].is EXCEPT !.inc = i]
             w == [status |-> "new", alarm |-> a]
  <2>1. v \in EpisodeType /\ v.status = alerts[e].is.status /\ v.alarm = a /\ v.inc = i
    <3>1. tx[d].start \in Nat
      BY <1>2 DEF TxType
    <3> QED BY <1>4, <3>1, EditedType
  <2>2. w \in TicketType /\ Present(w) /\ w.alarm = a
    BY <1>6 DEF TicketType, IncidentStatuses, Present
  <2>3. Touch(d, e, v) /\ incidents' = [incidents EXCEPT ![i] = Write(d, incidents[i], w)]
    BY <1>8
  <2> HIDE DEF v, w, e
  <2>4. Follows(v, alerts[e].is)
    BY <1>4, <2>1 DEF Present, Follows
  <2>5. Free(d, incidents[i]) /\ TakesOver(w, incidents[i].is)
    BY <1>8, <2>2, CleanRow
  <2>6. TicketsFollow(d)
    BY <2>2, <2>3, <2>5 DEF TicketsFollow, Writes
  <2>7. Seen(d, incidents'[i]) = w
    BY <1>8, <2>3 DEF TypeInv, TypeOK, Write, Seen, Clean
  <2>8. TicketOf(v, Seen(d, incidents'[v.inc]))
    BY <2>1, <2>2, <2>7 DEF TicketOf
  <2> QED BY <1>3, <1>4, <2>3, <2>4, <2>6, <2>8, TouchFollows
<1>9. EpisodesFollow(d) /\ TicketsFollow(d)
  BY <1>7, <1>8 DEF Apply, Orderly
<1> QED BY <1>5, <1>9 DEF Orderly

LEMMA StatementStep ==
  ASSUME TypeInv, NEW d \in Deliveries, Statement(d)
  PROVE  Orderly(d)
BY RecordStep, FindStep, CloseStep, JudgeStep, ResolveStep, UpsertStep, ReuseStep,
   ApplyStep, ReopenStep DEF Statement

-----------------------------------------------------------------------------
(***************************************************************************)
(* Type correctness.                                                       *)
(***************************************************************************)

\* If only d moves, every delivery keeps its type.
LEMMA DeliveriesType ==
  ASSUME TypeInv, NEW d \in Deliveries, NEW t, Delivery(t), tx' = [tx EXCEPT ![d] = t]
  PROVE  /\ tx' \in [Deliveries -> TxType] /\ \A x \in Deliveries : Delivery(tx'[x])
         /\ tx'[d] = t /\ \A x \in Deliveries \ {d} : tx'[x] = tx[x]
<1>1. tx \in [Deliveries -> TxType] /\ \A x \in Deliveries : Delivery(tx[x])
  BY RowsOf DEF TypeInv, TypeOK
<1>2. t \in TxType
  BY DEF Delivery
<1> QED BY <1>1, <1>2

\* What a statement leaves alone.
LEMMA StatementFrame ==
  ASSUME TypeInv, NEW d \in Deliveries, Statement(d)
  PROVE  /\ UNCHANGED <<worked, covered, bounds, settled, cancelled>>
         /\ events' \in [Messages -> [in : BOOLEAN, by : Deliveries \cup {Nobody}]]
         /\ disturbed' \subseteq Alarms
         /\ tx[d].pc \notin {"idle", "commit"}
<1>1. tx[d].pc \notin {"idle", "commit"}
  BY DEF Statement, Record, Find, Close, Judge, Resolve, Upsert, Reuse, Apply, Reopen, At
<1>2. Message(d) \in Messages /\ Alarm(d) \in Alarms
  BY <1>1, MessageType DEF TypeInv
<1>3. UNCHANGED <<worked, covered, bounds, settled, cancelled>>
  BY DEF Statement, Record, Find, Close, Judge, Resolve, Upsert, Reuse, Apply, Reopen,
         history, tables
<1>4. events' \in [Messages -> [in : BOOLEAN, by : Deliveries \cup {Nobody}]]
  <2>1. events \in [Messages -> [in : BOOLEAN, by : Deliveries \cup {Nobody}]]
    BY DEF TypeInv, TypeOK
  <2>2. UNCHANGED events \/ events' = [events EXCEPT ![Message(d)].by = d]
    BY DEF Statement, Record, Find, Close, Judge, Resolve, Upsert, Reuse, Apply, Reopen, tables
  <2> QED BY <1>2, <2>1, <2>2
<1>5. disturbed' \subseteq Alarms
  <2>1. disturbed \subseteq Alarms
    BY DEF TypeInv, TypeOK
  <2>2. UNCHANGED disturbed \/ \E e : Disturb(d, Alarm(d), e)
    BY DEF Statement, Record, Find, Close, Judge, Resolve, Upsert, Reuse, Apply, Reopen, history
  <2> QED BY <1>2, <2>1, <2>2 DEF Disturb
<1> QED BY <1>1, <1>3, <1>4, <1>5

\* What a statement does to any row: it keeps what is committed.
LEMMA StatementRows ==
  ASSUME TypeInv, NEW d \in Deliveries, Orderly(d)
  PROVE  /\ alerts' \in [Episodes -> Row(EpisodeType)]
         /\ incidents' \in [Incidents -> Row(TicketType)]
         /\ \A e \in Episodes :
              /\ EpisodeRow(alerts'[e])
              /\ alerts'[e].was = alerts[e].was
              /\ \/ alerts'[e] = alerts[e]
                 \/ /\ Free(d, alerts[e]) /\ alerts'[e].by = d
                    /\ Follows(alerts'[e].is, alerts[e].is)
                    /\ alerts'[e].is.inc # NoIncident =>
                         TicketOf(alerts'[e].is, Seen(d, incidents'[alerts'[e].is.inc]))
         /\ \A i \in Incidents :
              /\ TicketRow(incidents'[i])
              /\ incidents'[i].was = incidents[i].was
              /\ \/ incidents'[i] = incidents[i]
                 \/ /\ Free(d, incidents[i]) /\ incidents'[i].by = d
                    /\ TakesOver(incidents'[i].is, incidents[i].is)
<1>1. /\ alerts \in [Episodes -> Row(EpisodeType)]
      /\ incidents \in [Incidents -> Row(TicketType)]
      /\ \A e \in Episodes : EpisodeRow(alerts[e])
      /\ \A i \in Incidents : TicketRow(incidents[i])
  BY RowsOf DEF TypeInv, TypeOK
<1>2. ASSUME NEW e \in Episodes, NEW v \in EpisodeType, Touches(d, e, v),
             v.inc # NoIncident => TicketOf(v, Seen(d, incidents'[v.inc]))
      PROVE  /\ alerts' \in [Episodes -> Row(EpisodeType)]
             /\ \A f \in Episodes :
                  /\ EpisodeRow(alerts'[f])
                  /\ alerts'[f].was = alerts[f].was
                  /\ \/ alerts'[f] = alerts[f]
                     \/ /\ Free(d, alerts[f]) /\ alerts'[f].by = d
                        /\ Follows(alerts'[f].is, alerts[f].is)
                        /\ alerts'[f].is.inc # NoIncident =>
                             TicketOf(alerts'[f].is, Seen(d, incidents'[alerts'[f].is.inc]))
  <2>1. alerts' = [alerts EXCEPT ![e] = Write(d, alerts[e], v)] /\ Follows(v, alerts[e].is)
    BY <1>2 DEF Touches, Touch
  <2>2. Write(d, alerts[e], v) \in Row(EpisodeType)
    BY <1>1, RowType
  <2>3. alerts'[e] = Write(d, alerts[e], v) /\ alerts' \in [Episodes -> Row(EpisodeType)]
    BY <1>1, <2>1, <2>2
  <2>4. EpisodeRow(alerts'[e])
    BY <1>1, <2>1, <2>3, EpisodeRowKept
  <2>5. alerts'[e].is = v /\ alerts'[e].by = d /\ alerts'[e].was = alerts[e].was
    BY <1>2, Touched DEF Touches
  <2>6. \A f \in Episodes \ {e} : alerts'[f] = alerts[f]
    BY <1>1, <2>1
  <2>7. Free(d, alerts[e])
    BY <1>2 DEF Touches
  <2> QED BY <1>1, <1>2, <2>1, <2>3, <2>4, <2>5, <2>6, <2>7
<1>3. ASSUME NEW i \in Incidents, NEW v \in TicketType, Writes(d, i, v)
      PROVE  /\ incidents' \in [Incidents -> Row(TicketType)]
             /\ \A j \in Incidents :
                  /\ TicketRow(incidents'[j])
                  /\ incidents'[j].was = incidents[j].was
                  /\ \/ incidents'[j] = incidents[j]
                     \/ /\ Free(d, incidents[j]) /\ incidents'[j].by = d
                        /\ TakesOver(incidents'[j].is, incidents[j].is)
  <2>1. incidents' = [incidents EXCEPT ![i] = Write(d, incidents[i], v)]
        /\ TakesOver(v, incidents[i].is) /\ Free(d, incidents[i])
    BY <1>3 DEF Writes
  <2>2. Write(d, incidents[i], v) \in Row(TicketType)
    BY <1>1, RowType
  <2>3. /\ incidents'[i] = Write(d, incidents[i], v)
        /\ incidents' \in [Incidents -> Row(TicketType)]
    BY <1>1, <2>1, <2>2
  <2>4. TicketRow(incidents'[i])
    BY <1>1, <2>1, <2>3, TicketRowKept
  <2>5. incidents'[i].is = v /\ incidents'[i].by = d /\ incidents'[i].was = incidents[i].was
    BY <1>1, <2>3 DEF Write, Row
  <2>6. \A j \in Incidents \ {i} : incidents'[j] = incidents[j]
    BY <1>1, <2>1
  <2> QED BY <1>1, <2>1, <2>3, <2>4, <2>5, <2>6
<1>4. EpisodesFollow(d) /\ TicketsFollow(d)
  BY DEF Orderly
<1>5. /\ alerts' \in [Episodes -> Row(EpisodeType)]
      /\ \A f \in Episodes :
           /\ EpisodeRow(alerts'[f])
           /\ alerts'[f].was = alerts[f].was
           /\ \/ alerts'[f] = alerts[f]
              \/ /\ Free(d, alerts[f]) /\ alerts'[f].by = d
                 /\ Follows(alerts'[f].is, alerts[f].is)
                 /\ alerts'[f].is.inc # NoIncident =>
                      TicketOf(alerts'[f].is, Seen(d, incidents'[alerts'[f].is.inc]))
  BY <1>1, <1>2, <1>4 DEF EpisodesFollow
<1>6. /\ incidents' \in [Incidents -> Row(TicketType)]
      /\ \A j \in Incidents :
           /\ TicketRow(incidents'[j])
           /\ incidents'[j].was = incidents[j].was
           /\ \/ incidents'[j] = incidents[j]
              \/ /\ Free(d, incidents[j]) /\ incidents'[j].by = d
                 /\ TakesOver(incidents'[j].is, incidents[j].is)
  BY <1>1, <1>3, <1>4 DEF TicketsFollow
<1> QED BY <1>5, <1>6

\* Holding only depends on what d sees of its episode.
LEMMA HoldingKept ==
  ASSUME NEW x \in Deliveries, Holding(x), tx'[x] = tx[x],
         LET e == tx[x].ep IN
           /\ Present(Seen(x, alerts'[e]))
           /\ Seen(x, alerts'[e]).alarm = Seen(x, alerts[e]).alarm
           /\ Seen(x, alerts[e]).inc # NoIncident =>
                Seen(x, alerts'[e]).inc = Seen(x, alerts[e]).inc
           /\ alerts[e].by = x => alerts'[e] = alerts[e]
  PROVE  Holding(x)'
<1> DEFINE e == tx[x].ep
<1>1. tx'[x].ep = tx[x].ep /\ tx'[x].inc = tx[x].inc /\ tx'[x].pc = tx[x].pc
      /\ Alarm(x)' = Alarm(x)
  BY DEF Alarm, Message
<1>2. Seen(x, alerts'[e]).alarm = Alarm(x) /\ Present(Seen(x, alerts'[e]))
  BY DEF Holding
<1>3. tx[x].inc # NoIncident => Seen(x, alerts'[e]).inc = tx[x].inc
  BY DEF Holding
<1>4. ~At(x, "close") => alerts'[e].by = x
  BY DEF Holding
<1>5. tx[x].pc \in {"reuse", "apply"} => alerts'[e].is.inc = NoIncident
  BY DEF Holding, At
<1> QED BY <1>1, <1>2, <1>3, <1>4, <1>5 DEF Holding, At, Seen

LEMMA StatementTypeInv ==
  ASSUME TypeInv, NEW d \in Deliveries, Statement(d)
  PROVE  TypeInv'
<1>1. Orderly(d)
  BY StatementStep
<1>2. /\ tx' \in [Deliveries -> TxType] /\ \A x \in Deliveries : Delivery(tx'[x])
      /\ \A x \in Deliveries \ {d} : tx'[x] = tx[x]
  BY <1>1, DeliveriesType DEF Orderly, Moves
<1>3. /\ alerts' \in [Episodes -> Row(EpisodeType)]
      /\ incidents' \in [Incidents -> Row(TicketType)]
  BY <1>1, StatementRows
<1>4. TypeOK'
  BY <1>2, <1>3, StatementFrame DEF TypeInv, TypeOK, Delivery, bounds
<1>5. RowsInv'
  BY <1>1, StatementRows DEF RowsInv
<1>6. HoldInv'
  <2> SUFFICES ASSUME NEW x \in Deliveries PROVE HandsOK(x)'
    BY DEF HoldInv
  <2>1. CASE x = d
    BY <1>1, <2>1 DEF Orderly, Moves
  <2>2. CASE x # d
    <3>1. tx'[x] = tx[x] /\ HandsOK(x)
      BY <1>2, <2>2, RowsOf
    <3>2. CASE tx[x].pc \in EpisodePCs
      <4> DEFINE e == tx[x].ep
      <4>1. Holding(x) /\ e \in Episodes
        BY <3>1, <3>2, RowsOf DEF HandsOK, Delivery, TxType
      <4>2. Seen(x, alerts'[e]) = Seen(x, alerts[e]) /\ (alerts[e].by = x => alerts'[e] = alerts[e])
        BY <1>1, <2>2, <4>1, StatementRows, AlertsAssumption DEF Seen, Free
      <4>3. Holding(x)'
        BY <3>1, <4>1, <4>2, HoldingKept DEF Holding
      <4> QED BY <3>1, <3>2, <4>3 DEF HandsOK
    <3>3. CASE tx[x].pc \notin EpisodePCs
      BY <3>1, <3>3 DEF HandsOK
    <3> QED BY <3>2, <3>3
  <2> QED BY <2>1, <2>2
<1>7. LinkInv'
  <2> SUFFICES ASSUME NEW e \in Episodes
               PROVE  /\ Present(alerts'[e].was) /\ alerts'[e].was.inc # NoIncident =>
                           TicketOf(alerts'[e].was, incidents'[alerts'[e].was.inc].was)
                      /\ \A x \in Deliveries :
                           alerts'[e].by = x /\ Present(alerts'[e].is)
                           /\ alerts'[e].is.inc # NoIncident =>
                             TicketOf(alerts'[e].is, Seen(x, incidents'[alerts'[e].is.inc]))
    BY DEF LinkInv, Seen
  <2>1. alerts[e] \in Row(EpisodeType) /\ alerts'[e].was = alerts[e].was
    BY <1>1, StatementRows, RowsOf
  <2>2. ASSUME Present(alerts'[e].was), alerts'[e].was.inc # NoIncident
        PROVE  TicketOf(alerts'[e].was, incidents'[alerts'[e].was.inc].was)
    <3>1. alerts[e].was.inc \in Incidents
      BY <2>1, <2>2 DEF Row, EpisodeType, NoEpisode, Present
    <3>2. incidents'[alerts[e].was.inc].was = incidents[alerts[e].was.inc].was
      BY <1>1, <3>1, StatementRows
    <3> QED BY <2>1, <2>2, <3>2 DEF TypeInv, LinkInv
  <2>3. ASSUME NEW x \in Deliveries, alerts'[e].by = x, Present(alerts'[e].is),
               alerts'[e].is.inc # NoIncident
        PROVE  TicketOf(alerts'[e].is, Seen(x, incidents'[alerts'[e].is.inc]))
    <3>1. CASE alerts'[e] = alerts[e]
      <4>1. TicketOf(alerts[e].is, Seen(x, incidents[alerts[e].is.inc]))
        BY <2>3, <3>1 DEF TypeInv, LinkInv
      <4>2. alerts[e].is.inc \in Incidents
        BY <2>1, <2>3, <3>1 DEF Row, EpisodeType, NoEpisode, Present
      <4> QED BY <1>1, <3>1, <4>1, <4>2, TicketsStay DEF Orderly
    <3>2. CASE alerts'[e] # alerts[e]
      BY <1>1, <2>3, <3>2, StatementRows
    <3> QED BY <3>1, <3>2
  <2> QED BY <2>2, <2>3
<1> QED BY <1>4, <1>5, <1>6, <1>7 DEF TypeInv

\* What a transaction leaves of a row when it ends, and what others see of it.
LEMMA EndedRow ==
  ASSUME NEW T, NEW row \in Row(T), NEW d \in Deliveries
  PROVE  /\ Committed(d, row).was = Seen(d, row)
         /\ Reverted(d, row).was = row.was
         /\ row.by # d => Committed(d, row) = row /\ Reverted(d, row) = row
         /\ row.by = d => Committed(d, row) = Clean(row.is) /\ Reverted(d, row) = Clean(row.was)
         /\ Committed(d, row).by # d /\ Reverted(d, row).by # d
         /\ \A x \in Deliveries \ {d} : Seen(x, Reverted(d, row)) = Seen(x, row)
         /\ \A x \in Deliveries \ {d} :
              /\ row.by = d => Seen(x, Committed(d, row)) = row.is /\ Seen(x, row) = row.was
              /\ row.by # d => Seen(x, Committed(d, row)) = Seen(x, row)
BY AlertsAssumption DEF Committed, Reverted, Clean, Seen, Row

\* A delivery that has ended has nothing in hand.
LEMMA EndedType ==
  ASSUME TypeInv, NEW d \in Deliveries, tx' = [tx EXCEPT ![d] = IdleTx]
  PROVE  /\ tx' \in [Deliveries -> TxType] /\ \A x \in Deliveries : Delivery(tx'[x])
         /\ tx'[d] = IdleTx /\ \A x \in Deliveries \ {d} : tx'[x] = tx[x]
         /\ HandsOK(d)'
<1>1. /\ tx' \in [Deliveries -> TxType] /\ \A x \in Deliveries : Delivery(tx'[x])
      /\ tx'[d] = IdleTx /\ \A x \in Deliveries \ {d} : tx'[x] = tx[x]
  BY DeliveriesType, IdleType
<1> QED BY <1>1, IdleType DEF HandsOK, EpisodePCs

\* The others keep what they have in hand when they still see their episode.
LEMMA OthersHold ==
  ASSUME TypeInv, NEW x \in Deliveries, tx'[x] = tx[x],
         \A e \in Episodes :
           /\ Present(Seen(x, alerts[e])) =>
                /\ Present(Seen(x, alerts'[e]))
                /\ Seen(x, alerts'[e]).alarm = Seen(x, alerts[e]).alarm
                /\ Seen(x, alerts[e]).inc # NoIncident =>
                     Seen(x, alerts'[e]).inc = Seen(x, alerts[e]).inc
           /\ alerts[e].by = x => alerts'[e] = alerts[e]
  PROVE  HandsOK(x)'
<1>1. CASE tx[x].pc \in EpisodePCs
  <2>1. Holding(x) /\ tx[x].ep \in Episodes
    BY <1>1, RowsOf DEF HandsOK, Delivery, TxType
  <2>2. Present(Seen(x, alerts[tx[x].ep]))
    BY <2>1 DEF Holding
  <2>3. Holding(x)'
    BY <2>1, <2>2, HoldingKept
  <2> QED BY <1>1, <2>3 DEF HandsOK
<1>2. CASE tx[x].pc \notin EpisodePCs
  BY <1>2, RowsOf DEF HandsOK
<1> QED BY <1>1, <1>2

LEMMA CommitTypeInv ==
  ASSUME TypeInv, NEW d \in Deliveries, Commit(d)
  PROVE  TypeInv'
<1>1. /\ tx' = [tx EXCEPT ![d] = IdleTx]
      /\ \A e \in Episodes : alerts'[e] = Committed(d, alerts[e])
      /\ \A i \in Incidents : incidents'[i] = Committed(d, incidents[i])
  BY DEF Commit
<1>2. /\ alerts' \in [Episodes -> Row(EpisodeType)]
      /\ incidents' \in [Incidents -> Row(TicketType)]
  <2>1. \A e \in Episodes : Committed(d, alerts[e]) \in Row(EpisodeType)
    BY RowsOf, RowType DEF Row
  <2>2. \A i \in Incidents : Committed(d, incidents[i]) \in Row(TicketType)
    BY RowsOf, RowType DEF Row
  <2> QED BY <2>1, <2>2 DEF Commit
<1>3. events' \in [Messages -> [in : BOOLEAN, by : Deliveries \cup {Nobody}]]
  BY DEF TypeInv, TypeOK, Commit
<1>4. settled' \in [Alarms -> {"firing", "resolved", "unknown"}]
  <2>1. settled \in [Alarms -> {"firing", "resolved", "unknown"}]
    BY DEF TypeInv, TypeOK
  <2>2. tx[d].news \in [Alarms -> {"none", "firing", "resolved"}]
    BY RowsOf DEF TxType
  <2>3. \A a \in Alarms : Settles(d, a) \in {"firing", "resolved", "unknown"}
    BY <2>1, <2>2 DEF Settles
  <2> QED BY <2>3 DEF Commit
<1>5. TypeOK'
  <2>1. UNCHANGED <<worked, covered, begun, besides, cancelled, disturbed>>
    BY DEF Commit, bounds
  <2> QED BY <1>1, <1>2, <1>3, <1>4, <2>1, EndedType DEF TypeInv, TypeOK, Delivery
<1>6. RowsInv'
  BY <1>1, RowsOf, EpisodeRowKept, TicketRowKept DEF RowsInv
<1>7. HoldInv'
  <2> SUFFICES ASSUME NEW x \in Deliveries, x # d PROVE HandsOK(x)'
    BY <1>1, EndedType DEF HoldInv
  <2>1. tx'[x] = tx[x]
    BY <1>1, EndedType
  <2>2. ASSUME NEW e \in Episodes
        PROVE  /\ Present(Seen(x, alerts[e])) =>
                    /\ Present(Seen(x, alerts'[e]))
                    /\ Seen(x, alerts'[e]).alarm = Seen(x, alerts[e]).alarm
                    /\ Seen(x, alerts[e]).inc # NoIncident =>
                         Seen(x, alerts'[e]).inc = Seen(x, alerts[e]).inc
               /\ alerts[e].by = x => alerts'[e] = alerts[e]
    <3>1. alerts[e] \in Row(EpisodeType) /\ EpisodeRow(alerts[e])
      BY RowsOf
    <3>2. CASE alerts[e].by = d
      BY <1>1, <3>1, <3>2, EndedRow DEF EpisodeRow
    <3>3. CASE alerts[e].by # d
      BY <1>1, <3>1, <3>3, EndedRow
    <3> QED BY <3>2, <3>3
  <2> QED BY <2>1, <2>2, OthersHold
<1>8. LinkInv'
  <2> SUFFICES ASSUME NEW e \in Episodes
               PROVE  /\ Present(alerts'[e].was) /\ alerts'[e].was.inc # NoIncident =>
                           TicketOf(alerts'[e].was, incidents'[alerts'[e].was.inc].was)
                      /\ \A x \in Deliveries :
                           alerts'[e].by = x /\ Present(alerts'[e].is)
                           /\ alerts'[e].is.inc # NoIncident =>
                             TicketOf(alerts'[e].is, Seen(x, incidents'[alerts'[e].is.inc]))
    BY DEF LinkInv, Seen
  <2>1. alerts[e] \in Row(EpisodeType) /\ alerts'[e].was = Seen(d, alerts[e])
    BY <1>1, RowsOf, EndedRow
  <2>2. ASSUME Present(alerts'[e].was), alerts'[e].was.inc # NoIncident
        PROVE  TicketOf(alerts'[e].was, incidents'[alerts'[e].was.inc].was)
    <3> DEFINE i == alerts'[e].was.inc
    <3>1. i \in Incidents /\ TicketOf(alerts'[e].was, Seen(d, incidents[i]))
      BY <2>1, <2>2, SeenTicket
    <3>2. incidents'[i].was = Seen(d, incidents[i])
      BY <1>1, <3>1, RowsOf, EndedRow
    <3> QED BY <3>1, <3>2
  <2>3. ASSUME NEW x \in Deliveries, alerts'[e].by = x, Present(alerts'[e].is),
               alerts'[e].is.inc # NoIncident
        PROVE  TicketOf(alerts'[e].is, Seen(x, incidents'[alerts'[e].is.inc]))
    <3> DEFINE i == alerts[e].is.inc
    <3>1. x # d /\ alerts'[e] = alerts[e]
      BY <1>1, <2>1, <2>3, EndedRow, AlertsAssumption DEF Clean
    <3>2. i \in Incidents /\ TicketOf(alerts[e].is, Seen(x, incidents[i]))
      BY <2>1, <2>3, <3>1, SeenTicket DEF Seen
    <3>3. incidents[i] \in Row(TicketType) /\ TicketRow(incidents[i])
          /\ incidents'[i] = Committed(d, incidents[i])
      BY <1>1, <3>2, RowsOf
    <3>4. CASE incidents[i].by = d
      <4>1. Seen(x, incidents'[i]) = incidents[i].is /\ Seen(x, incidents[i]) = incidents[i].was
        BY <3>1, <3>3, <3>4, EndedRow
      <4> QED BY <3>1, <3>2, <3>3, <4>1 DEF TicketOf, TicketRow
    <3>5. CASE incidents[i].by # d
      BY <3>1, <3>2, <3>3, <3>5, EndedRow
    <3> QED BY <3>4, <3>5
  <2> QED BY <2>2, <2>3
<1> QED BY <1>5, <1>6, <1>7, <1>8 DEF TypeInv

LEMMA RollbackTypeInv ==
  ASSUME TypeInv, NEW d \in Deliveries, Rollback(d), besides' \in Nat
  PROVE  TypeInv'
<1>1. /\ tx' = [tx EXCEPT ![d] = IdleTx]
      /\ \A e \in Episodes : alerts'[e] = Reverted(d, alerts[e])
      /\ \A i \in Incidents : incidents'[i] = Reverted(d, incidents[i])
  BY DEF Rollback, TicketsReverted
<1>2. /\ alerts' \in [Episodes -> Row(EpisodeType)]
      /\ incidents' \in [Incidents -> Row(TicketType)]
  <2>1. \A e \in Episodes : Reverted(d, alerts[e]) \in Row(EpisodeType)
    BY RowsOf, RowType DEF Row
  <2>2. \A i \in Incidents : Reverted(d, incidents[i]) \in Row(TicketType)
    BY RowsOf, RowType DEF Row
  <2> QED BY <2>1, <2>2 DEF Rollback, TicketsReverted
<1>3. events' \in [Messages -> [in : BOOLEAN, by : Deliveries \cup {Nobody}]]
  BY DEF TypeInv, TypeOK, Rollback
<1>4. TypeOK'
  <2>1. UNCHANGED <<worked, covered, begun, settled, cancelled, disturbed>>
    BY DEF Rollback, history
  <2> QED BY <1>1, <1>2, <1>3, <2>1, EndedType DEF TypeInv, TypeOK, Delivery
<1>5. RowsInv'
  BY <1>1, RowsOf, EpisodeRowKept, TicketRowKept DEF RowsInv
<1>6. HoldInv'
  <2> SUFFICES ASSUME NEW x \in Deliveries, x # d PROVE HandsOK(x)'
    BY <1>1, EndedType DEF HoldInv
  <2>1. tx'[x] = tx[x]
    BY <1>1, EndedType
  <2>2. \A e \in Episodes : /\ Seen(x, alerts'[e]) = Seen(x, alerts[e])
                            /\ alerts[e].by = x => alerts'[e] = alerts[e]
    BY <1>1, RowsOf, EndedRow
  <2> QED BY <2>1, <2>2, OthersHold
<1>7. LinkInv'
  <2> SUFFICES ASSUME NEW e \in Episodes
               PROVE  /\ Present(alerts'[e].was) /\ alerts'[e].was.inc # NoIncident =>
                           TicketOf(alerts'[e].was, incidents'[alerts'[e].was.inc].was)
                      /\ \A x \in Deliveries :
                           alerts'[e].by = x /\ Present(alerts'[e].is)
                           /\ alerts'[e].is.inc # NoIncident =>
                             TicketOf(alerts'[e].is, Seen(x, incidents'[alerts'[e].is.inc]))
    BY DEF LinkInv, Seen
  <2>1. alerts[e] \in Row(EpisodeType) /\ alerts'[e].was = alerts[e].was
    BY <1>1, RowsOf, EndedRow
  <2>2. ASSUME Present(alerts'[e].was), alerts'[e].was.inc # NoIncident
        PROVE  TicketOf(alerts'[e].was, incidents'[alerts'[e].was.inc].was)
    <3> DEFINE i == alerts[e].was.inc
    <3>1. i \in Incidents
      BY <2>1, <2>2 DEF Row, EpisodeType, NoEpisode, Present
    <3>2. incidents'[i].was = incidents[i].was
      BY <1>1, <3>1, RowsOf, EndedRow
    <3> QED BY <2>1, <2>2, <3>2 DEF TypeInv, LinkInv
  <2>3. ASSUME NEW x \in Deliveries, alerts'[e].by = x, Present(alerts'[e].is),
               alerts'[e].is.inc # NoIncident
        PROVE  TicketOf(alerts'[e].is, Seen(x, incidents'[alerts'[e].is.inc]))
    <3> DEFINE i == alerts[e].is.inc
    <3>1. x # d /\ alerts'[e] = alerts[e]
      BY <1>1, <2>1, <2>3, EndedRow, AlertsAssumption DEF Clean
    <3>2. i \in Incidents /\ TicketOf(alerts[e].is, Seen(x, incidents[i]))
      BY <2>1, <2>3, <3>1, SeenTicket DEF Seen
    <3>3. Seen(x, incidents'[i]) = Seen(x, incidents[i])
      BY <1>1, <3>1, <3>2, RowsOf, EndedRow
    <3> QED BY <3>1, <3>2, <3>3
  <2> QED BY <2>2, <2>3
<1> QED BY <1>4, <1>5, <1>6, <1>7 DEF TypeInv

\* A new delivery has every message before it, and the others keep theirs.
LEMMA BegunType ==
  ASSUME TypeInv, NEW d \in Deliveries, NEW list \in Lists, Begin(d, list)
  PROVE  /\ tx' \in [Deliveries -> TxType] /\ \A x \in Deliveries : Delivery(tx'[x])
         /\ tx'[d].pc = "record" /\ tx'[d].inc = NoIncident /\ tx'[d].rest = list
         /\ tx'[d].start = begun + 1 /\ tx'[d].news = NoNews
         /\ \A x \in Deliveries \ {d} :
              /\ tx'[x].pc = tx[x].pc /\ tx'[x].rest = tx[x].rest
              /\ tx'[x].ep = tx[x].ep /\ tx'[x].inc = tx[x].inc
              /\ tx'[x].start = tx[x].start /\ tx'[x].fresh = tx[x].fresh
              /\ tx'[x].news = tx[x].news /\ tx'[x].about = tx[x].about
              /\ tx'[x].alone \subseteq tx[x].alone
         /\ tx'[d].about = {list[k].alarm : k \in DOMAIN list}
         /\ tx'[d].alone = tx'[d].about \ UNION {tx[x].about : x \in Deliveries \ {d}}
         /\ \A x \in Deliveries \ {d} : tx'[x].alone = tx[x].alone \ tx'[d].about
<1> DEFINE about == {list[k].alarm : k \in DOMAIN list}
           others == UNION {tx[x].about : x \in Deliveries \ {d}}
           t == [IdleTx EXCEPT !.pc = "record", !.rest = list, !.start = begun + 1,
                               !.about = about, !.alone = about \ others]
           u(x) == [tx[x] EXCEPT !.alone = @ \ about]
<1>1. /\ tx' = [x \in Deliveries |-> IF x = d THEN t ELSE u(x)]
  BY DEF Begin
<1>2. list \in Seq(Messages) /\ list # <<>> /\ about \subseteq Alarms
  BY AlertsAssumption
<1>3. begun + 1 \in Nat
  BY DEF TypeInv, TypeOK
<1>4. t \in TxType /\ Delivery(t)
  BY <1>2, <1>3, IdleType DEF Delivery, IdleTx, TxType, PCs, EpisodePCs, IncidentPCs
<1>5. /\ t.pc = "record" /\ t.inc = NoIncident /\ t.rest = list
      /\ t.start = begun + 1 /\ t.news = NoNews /\ t.about = about /\ t.alone = about \ others
  BY DEF IdleTx
<1>6. ASSUME NEW x \in Deliveries
      PROVE  /\ u(x) \in TxType /\ Delivery(u(x))
             /\ u(x).pc = tx[x].pc /\ u(x).rest = tx[x].rest
             /\ u(x).ep = tx[x].ep /\ u(x).inc = tx[x].inc
             /\ u(x).start = tx[x].start /\ u(x).fresh = tx[x].fresh
             /\ u(x).news = tx[x].news /\ u(x).about = tx[x].about
             /\ u(x).alone = tx[x].alone \ about
  <2>1. tx[x] \in TxType /\ Delivery(tx[x])
    BY RowsOf
  <2> HIDE DEF about
  <2> QED BY <2>1 DEF TxType, Delivery
<1> HIDE DEF t, u, about, others
<1>7. tx'[d] = t /\ \A x \in Deliveries \ {d} : tx'[x] = u(x)
  BY <1>1
<1>8. tx' \in [Deliveries -> TxType] /\ \A x \in Deliveries : Delivery(tx'[x])
  BY <1>1, <1>4, <1>6
<1>9. \A x \in Deliveries \ {d} :
        /\ tx'[x].pc = tx[x].pc /\ tx'[x].rest = tx[x].rest
        /\ tx'[x].ep = tx[x].ep /\ tx'[x].inc = tx[x].inc
        /\ tx'[x].start = tx[x].start /\ tx'[x].fresh = tx[x].fresh
        /\ tx'[x].news = tx[x].news /\ tx'[x].about = tx[x].about
        /\ tx'[x].alone = tx[x].alone \ about
  BY <1>6, <1>7
<1>10. tx'[d].about = {list[k].alarm : k \in DOMAIN list}
       /\ tx'[d].alone = about \ UNION {tx[x].about : x \in Deliveries \ {d}}
  BY <1>5, <1>7 DEF about, others
<1> QED BY <1>5, <1>7, <1>8, <1>9, <1>10

LEMMA BeginTypeInv ==
  ASSUME TypeInv, NEW d \in Deliveries, NEW list \in Lists, Begin(d, list)
  PROVE  TypeInv'
<1>1. UNCHANGED <<events, alerts, incidents, worked, covered, besides, settled, cancelled, disturbed>>
      /\ begun' = begun + 1
  BY DEF Begin, tables, history
<1>2. TypeOK'
  BY <1>1, BegunType DEF TypeInv, TypeOK, Delivery
<1>3. RowsInv' /\ LinkInv'
  BY <1>1 DEF TypeInv, RowsInv, LinkInv, EpisodeRow, TicketRow, TicketOf, Seen
<1>4. HoldInv'
  <2> SUFFICES ASSUME NEW x \in Deliveries PROVE HandsOK(x)'
    BY DEF HoldInv
  <2>1. CASE x = d
    BY <2>1, BegunType DEF HandsOK, EpisodePCs
  <2>2. CASE x # d
    <3>1. /\ tx'[x].pc = tx[x].pc /\ tx'[x].rest = tx[x].rest
          /\ tx'[x].ep = tx[x].ep /\ tx'[x].inc = tx[x].inc
      BY <2>2, BegunType
    <3>2. HandsOK(x)
      BY RowsOf
    <3> QED BY <1>1, <3>1, <3>2 DEF HandsOK, Holding, Seen, At, Alarm, Message
  <2> QED BY <2>1, <2>2
<1> QED BY <1>2, <1>3, <1>4 DEF TypeInv

\* An incident that people change stays the incident of its alarm.
LEMMA SetStatusRows ==
  ASSUME TypeInv, NEW i \in Incidents, NEW to \in IncidentStatuses, SetStatus(i, to)
  PROVE  LET w == [incidents[i].is EXCEPT !.status = to] IN
         /\ incidents' = [incidents EXCEPT ![i] = Clean(w)]
         /\ incidents'[i] = Clean(w) /\ \A j \in Incidents \ {i} : incidents'[j] = incidents[j]
         /\ w \in TicketType /\ Present(w) /\ w.status = to
         /\ incidents[i].by = Nobody /\ incidents[i].is = incidents[i].was
         /\ Present(incidents[i].was) /\ w.alarm = incidents[i].was.alarm
         /\ \A x \in Deliveries : /\ Seen(x, incidents[i]) = incidents[i].was
                                  /\ Seen(x, incidents'[i]) = w
<1> DEFINE w == [incidents[i].is EXCEPT !.status = to]
<1>1. incidents[i] \in Row(TicketType) /\ TicketRow(incidents[i])
      /\ incidents \in [Incidents -> Row(TicketType)]
  BY RowsOf DEF TypeInv, TypeOK
<1>2. incidents[i].by = Nobody /\ incidents[i].is # NoTicket
  BY DEF SetStatus, Committing
<1>3. incidents[i].is = incidents[i].was /\ incidents[i].is \in TicketType
  BY <1>1, <1>2 DEF TicketRow, Row
<1>4. incidents[i].is \in [status : IncidentStatuses, alarm : Alarms]
  BY <1>2, <1>3 DEF TicketType
<1>5. w \in TicketType /\ Present(w) /\ w.status = to /\ w.alarm = incidents[i].was.alarm
      /\ Present(incidents[i].was)
  BY <1>3, <1>4 DEF TicketType, Present, IncidentStatuses
<1>6. incidents' = [incidents EXCEPT ![i] = Clean(w)]
  BY <1>1 DEF SetStatus
<1> HIDE DEF w
<1>7. incidents'[i] = Clean(w) /\ \A j \in Incidents \ {i} : incidents'[j] = incidents[j]
  BY <1>1, <1>6
<1>8. ASSUME NEW x \in Deliveries
      PROVE  Seen(x, incidents[i]) = incidents[i].was /\ Seen(x, incidents'[i]) = w
  BY <1>2, <1>7, AlertsAssumption DEF Seen, Clean
<1> QED BY <1>2, <1>3, <1>5, <1>6, <1>7, <1>8 DEF w

LEMMA SetStatusTypeInv ==
  ASSUME TypeInv, NEW i \in Incidents, NEW to \in IncidentStatuses, SetStatus(i, to)
  PROVE  TypeInv'
<1> DEFINE w == [incidents[i].is EXCEPT !.status = to]
<1>1. UNCHANGED <<events, alerts, covered, tx, begun, settled, disturbed>>
      /\ worked' = worked \cup {i} /\ cancelled' \in {cancelled, cancelled \cup {i}}
      /\ besides' = besides + 1
  BY DEF SetStatus, Besides
<1>2. incidents' \in [Incidents -> Row(TicketType)] /\ \A j \in Incidents : TicketRow(incidents'[j])
  <2>1. Clean(w) \in Row(TicketType) /\ TicketRow(Clean(w))
    BY SetStatusRows DEF Clean, Row, TicketRow
  <2> HIDE DEF w
  <2>2. incidents \in [Incidents -> Row(TicketType)] /\ \A j \in Incidents : TicketRow(incidents[j])
    BY RowsOf DEF TypeInv, TypeOK
  <2>3. incidents' = [incidents EXCEPT ![i] = Clean(w)]
    BY SetStatusRows DEF w
  <2> QED BY <2>1, <2>2, <2>3
<1>3. TypeOK'
  BY <1>1, <1>2 DEF TypeInv, TypeOK
<1>4. RowsInv' /\ HoldInv'
  BY <1>1, <1>2 DEF TypeInv, RowsInv, EpisodeRow, HoldInv, HandsOK, Holding, At, Seen, Alarm, Message
<1>5. LinkInv'
  <2> SUFFICES ASSUME NEW e \in Episodes
               PROVE  /\ Present(alerts[e].was) /\ alerts[e].was.inc # NoIncident =>
                           TicketOf(alerts[e].was, incidents'[alerts[e].was.inc].was)
                      /\ \A x \in Deliveries :
                           alerts[e].by = x /\ Present(alerts[e].is)
                           /\ alerts[e].is.inc # NoIncident =>
                             TicketOf(alerts[e].is, Seen(x, incidents'[alerts[e].is.inc]))
    BY <1>1 DEF LinkInv, Seen
  <2>1. alerts[e].was \in EpisodeType /\ alerts[e].is \in EpisodeType
    BY RowsOf DEF Row
  <2>2. ASSUME NEW v \in EpisodeType, NEW j \in Incidents
        PROVE  /\ TicketOf(v, incidents[j].was) => TicketOf(v, incidents'[j].was)
               /\ \A x \in Deliveries :
                    TicketOf(v, Seen(x, incidents[j])) => TicketOf(v, Seen(x, incidents'[j]))
    <3>1. CASE j # i
      <4>1. incidents'[j] = incidents[j]
        BY <3>1, SetStatusRows
      <4> QED BY <4>1
    <3>2. CASE j = i
      <4>1. /\ incidents'[i] = Clean(w) /\ Present(w) /\ w.alarm = incidents[i].was.alarm
            /\ \A x \in Deliveries : /\ Seen(x, incidents[i]) = incidents[i].was
                                     /\ Seen(x, incidents'[i]) = w
        BY SetStatusRows
      <4> HIDE DEF w
      <4> QED BY <3>2, <4>1 DEF TicketOf, Clean
    <3> QED BY <3>1, <3>2
  <2>3. \A v \in EpisodeType : Present(v) /\ v.inc # NoIncident => v.inc \in Incidents
    BY DEF EpisodeType, NoEpisode, Present
  <2> QED BY <2>1, <2>2, <2>3 DEF TypeInv, LinkInv
<1> QED BY <1>3, <1>4, <1>5 DEF TypeInv

\* Rows and deliveries that do not change.
LEMMA AsideTypeInv ==
  ASSUME TypeInv, TypeOK', UNCHANGED <<alerts, incidents, tx>>
  PROVE  TypeInv'
BY DEF TypeInv, RowsInv, EpisodeRow, TicketRow, HoldInv, HandsOK, Holding, At, Seen, Alarm,
       Message, LinkInv, TicketOf

LEMMA NextTypeInv ==
  ASSUME TypeInv, [Next]_vars
  PROVE  TypeInv'
<1>1. ASSUME NEW d \in Deliveries, NEW list \in Lists, Begin(d, list) PROVE TypeInv'
  BY <1>1, BeginTypeInv
<1>2. ASSUME NEW d \in Deliveries, Statement(d) PROVE TypeInv'
  BY <1>2, StatementTypeInv
<1>3. ASSUME NEW d \in Deliveries, Commit(d) PROVE TypeInv'
  BY <1>3, CommitTypeInv
<1>4. ASSUME NEW d \in Deliveries, Abort(d) \/ BreakDeadlock(d) PROVE TypeInv'
  <2>1. Rollback(d) /\ besides' \in Nat
    BY <1>4 DEF Abort, BreakDeadlock, Besides, TypeInv, TypeOK
  <2> QED BY <2>1, RollbackTypeInv
<1>5. ASSUME NEW i \in Incidents, NEW to \in IncidentStatuses, SetStatus(i, to) PROVE TypeInv'
  BY <1>5, SetStatusTypeInv
<1>6. ASSUME NEW i \in Incidents, Comment(i) PROVE TypeInv'
  <2>1. UNCHANGED <<events, alerts, incidents, covered, tx, begun, settled, cancelled, disturbed>>
        /\ worked' = worked \cup {i} /\ besides' = besides + 1
    BY <1>6 DEF Comment, Besides, tables, history
  <2>2. TypeOK'
    BY <2>1 DEF TypeInv, TypeOK
  <2> QED BY <2>1, <2>2, AsideTypeInv
<1>7. ASSUME NEW a \in Alarms, Window(a) PROVE TypeInv'
  <2>1. UNCHANGED <<events, alerts, incidents, worked, tx, begun, settled, cancelled>>
        /\ covered' \in {covered \cup {a}, covered \ {a}}
        /\ disturbed' \in {disturbed, disturbed \cup {a}} /\ besides' = besides + 1
    BY <1>7 DEF Window, Besides, tables
  <2>2. TypeOK'
    BY <2>1 DEF TypeInv, TypeOK
  <2> QED BY <2>1, <2>2, AsideTypeInv
<1>8. CASE UNCHANGED vars
  <2>1. UNCHANGED <<events, alerts, incidents, worked, covered, tx, begun, besides, settled,
                    cancelled, disturbed>>
    BY <1>8 DEF vars, tables, bounds, history
  <2>2. TypeOK'
    BY <2>1 DEF TypeInv, TypeOK
  <2> QED BY <2>1, <2>2, AsideTypeInv
<1> QED BY <1>1, <1>2, <1>3, <1>4, <1>5, <1>6, <1>7, <1>8 DEF Next

LEMMA InitTypeInv == Init => TypeInv
<1> SUFFICES ASSUME Init PROVE TypeInv
  OBVIOUS
<1>1. /\ \A e \in Episodes : alerts[e] = Clean(NoEpisode)
      /\ \A i \in Incidents : incidents[i] = Clean(NoTicket)
      /\ \A d \in Deliveries : tx[d] = IdleTx
  BY DEF Init
<1>2. TypeOK
  <2>1. Clean(NoEpisode) \in Row(EpisodeType) /\ Clean(NoTicket) \in Row(TicketType)
    BY DEF Clean, Row, EpisodeType, TicketType
  <2>2. tx \in [Deliveries -> TxType] /\ \A d \in Deliveries : Delivery(tx[d])
    BY IdleType DEF Init, Delivery
  <2> QED BY <2>1, <2>2 DEF Init, TypeOK, Delivery
<1>3. RowsInv
  BY <1>1 DEF RowsInv, EpisodeRow, TicketRow, Clean, Present, NoEpisode, NoTicket
<1>4. HoldInv
  BY <1>1, IdleType DEF HoldInv, HandsOK, EpisodePCs
<1>5. LinkInv
  BY <1>1 DEF LinkInv, Clean, Present, NoEpisode
<1> QED BY <1>2, <1>3, <1>4, <1>5 DEF TypeInv

\* TypeInv is an invariant: whatever the deliveries do to each other's rows, what is
\* committed of an alert or an incident neither vanishes nor changes its alarm, an
\* episode keeps its incident, each delivery still holds the episode it works on,
\* and whoever sees an episode sees its incident.
THEOREM AlertRowsKept == Spec => []TypeInv
<1>1. TypeInv /\ [Next]_vars => TypeInv'
  BY NextTypeInv
<1> QED BY <1>1, InitTypeInv, PTL DEF Spec

\* Every variable keeps its type, and a delivery that is under way has a message
\* before it, and an episode and an incident in hand where it uses them.
THEOREM AlertsTypeCorrect == Spec => []TypeOK
<1>1. TypeInv => TypeOK
  BY DEF TypeInv
<1> QED BY <1>1, AlertRowsKept, PTL

-----------------------------------------------------------------------------
(***************************************************************************)
(* No incident is opened twice, or for no alert.                           *)
(***************************************************************************)

\* Only applying a definition opens an incident, and it links it at once.
LEMMA OpenedByApply ==
  ASSUME TypeInv, NEW d \in Deliveries, Statement(d), NEW i \in Incidents,
         ~Present(incidents[i].is), Present(incidents'[i].is)
  PROVE  \E e \in Episodes : /\ alerts'[e].by = d
                             /\ Present(alerts'[e].is) /\ alerts'[e].is.inc = i
<1>1. incidents \in [Incidents -> Row(TicketType)]
  BY DEF TypeInv, TypeOK
<1>2. ASSUME UNCHANGED incidents PROVE FALSE
  BY <1>2
<1>3. ASSUME Resolve(d) PROVE FALSE
  <2>1. /\ tx[d].inc \in Incidents /\ Present(incidents[tx[d].inc].is)
    BY <1>3, TicketInHand DEF Resolve, At, IncidentPCs
  <2>2. i # tx[d].inc
    BY <2>1
  <2>3. incidents'[i] = incidents[i]
    BY <1>1, <1>3, <2>2 DEF Resolve
  <2> QED BY <2>3
<1>4. ASSUME Reopen(d) PROVE FALSE
  <2>1. CASE UNCHANGED incidents
    BY <1>2, <2>1
  <2>2. CASE /\ Free(d, incidents[tx[d].inc])
             /\ incidents' = [incidents EXCEPT
                  ![tx[d].inc] = Write(d, @, [@.is EXCEPT !.status = "in_progress"])]
    <3>1. /\ tx[d].inc \in Incidents /\ Present(incidents[tx[d].inc].is)
      BY <1>4, <2>2, TicketInHand DEF Reopen, At, IncidentPCs
    <3>2. i # tx[d].inc
      BY <3>1
    <3>3. incidents'[i] = incidents[i]
      BY <1>1, <2>2, <3>2
    <3> QED BY <3>3
  <2> QED BY <1>4, <2>1, <2>2 DEF Reopen
<1>5. CASE Apply(d)
  <2> DEFINE e == tx[d].ep
  <2>1. tx[d].pc = "apply"
    BY <1>5 DEF Apply, At
  <2>2. alerts[e].by = d /\ Free(d, alerts[e])
    BY <2>1, RowsOf DEF HandsOK, Holding, At, EpisodePCs, Free
  <2>3. e \in Episodes /\ alerts[e].is \in EpisodeType /\ Present(alerts[e].is)
    BY <2>1, <2>2, InHand DEF EpisodePCs
  <2>4. PICK j \in Incidents :
          /\ incidents' = [incidents EXCEPT
                             ![j] = Write(d, @, [status |-> "new", alarm |-> Alarm(d)])]
          /\ Touch(d, e, [alerts[e].is EXCEPT !.inc = j])
    BY <1>2, <1>5 DEF Apply
  <2>5. j = i
    BY <1>1, <2>4
  <2>6. tx[d].start \in Nat
    BY RowsOf DEF TxType
  <2>7. alerts'[e].by = d /\ alerts'[e].is = [alerts[e].is EXCEPT !.inc = j]
    BY <2>3, <2>4, Touched
  <2>8. alerts'[e].is.inc = j /\ alerts'[e].is.status = alerts[e].is.status
    <3> DEFINE v == [alerts[e].is EXCEPT !.inc = j]
    <3>1. v.inc = j /\ v.status = alerts[e].is.status
      BY <2>3, <2>6, EditedType
    <3> QED BY <2>7, <3>1
  <2> QED BY <2>3, <2>5, <2>7, <2>8 DEF Present
<1> QED BY <1>2, <1>3, <1>4, <1>5
        DEF Statement, Record, Find, Close, Judge, Upsert, Reuse, tables

LEMMA StatementLinked ==
  ASSUME LinkedInv, NEW d \in Deliveries, Statement(d)
  PROVE  OpenedInv' /\ IncidentsAreLinked'
<1>1. TypeInv /\ OpenedInv /\ IncidentsAreLinked
  BY DEF LinkedInv
<1>2. Orderly(d)
  BY <1>1, StatementStep
<1>3. OpenedInv'
  <2> SUFFICES ASSUME NEW i \in Incidents, NEW x \in Deliveries, incidents'[i].by = x,
                      ~Present(incidents'[i].was), Present(incidents'[i].is)
               PROVE  \E e \in Episodes : /\ alerts'[e].by = x
                                          /\ Present(alerts'[e].is) /\ alerts'[e].is.inc = i
    BY DEF OpenedInv
  <2>1. /\ TicketRow(incidents[i]) /\ ~Present(incidents[i].was)
        /\ incidents'[i] = incidents[i] \/ (Free(d, incidents[i]) /\ x = d)
    BY <1>1, <1>2, RowsOf, StatementRows
  <2>2. CASE ~Present(incidents[i].is)
    <3>1. x = d
      BY <2>1, <2>2
    <3> QED BY <1>1, <2>2, <3>1, OpenedByApply
  <2>3. CASE Present(incidents[i].is)
    <3>1. incidents[i].by = x
      BY <2>1, <2>3 DEF TicketRow, Free
    <3>2. PICK e \in Episodes : alerts[e].by = x /\ Present(alerts[e].is) /\ alerts[e].is.inc = i
      BY <1>1, <2>1, <2>3, <3>1 DEF OpenedInv
    <3>3. CASE alerts'[e] = alerts[e]
      BY <3>2, <3>3
    <3>4. CASE alerts'[e] # alerts[e]
      <4>1. /\ Free(d, alerts[e]) /\ alerts'[e].by = d
            /\ Follows(alerts'[e].is, alerts[e].is)
        BY <1>1, <1>2, <3>4, StatementRows
      <4>2. x = d
        BY <3>2, <4>1, AlertsAssumption DEF Free
      <4>3. i # NoIncident
        BY DEF Incidents, NoIncident
      <4> QED BY <3>2, <4>1, <4>2, <4>3 DEF Follows
    <3> QED BY <3>3, <3>4
  <2> QED BY <2>2, <2>3
<1>4. IncidentsAreLinked'
  <2>1. /\ \A e \in Episodes : alerts'[e].was = alerts[e].was
        /\ \A i \in Incidents : incidents'[i].was = incidents[i].was
    BY <1>1, <1>2, StatementRows
  <2> QED BY <1>1, <2>1 DEF IncidentsAreLinked
<1> QED BY <1>3, <1>4

LEMMA CommitLinked ==
  ASSUME LinkedInv, NEW d \in Deliveries, Commit(d)
  PROVE  OpenedInv' /\ IncidentsAreLinked'
<1>1. TypeInv /\ OpenedInv /\ IncidentsAreLinked
  BY DEF LinkedInv
<1>2. /\ \A e \in Episodes : alerts'[e] = Committed(d, alerts[e])
      /\ \A i \in Incidents : incidents'[i] = Committed(d, incidents[i])
  BY DEF Commit
<1>3. OpenedInv'
  <2> SUFFICES ASSUME NEW i \in Incidents, NEW x \in Deliveries, incidents'[i].by = x,
                      ~Present(incidents'[i].was), Present(incidents'[i].is)
               PROVE  \E e \in Episodes : /\ alerts'[e].by = x
                                          /\ Present(alerts'[e].is) /\ alerts'[e].is.inc = i
    BY DEF OpenedInv
  <2>1. x # d /\ incidents'[i] = incidents[i]
    BY <1>1, <1>2, RowsOf, EndedRow, AlertsAssumption DEF Clean
  <2>2. PICK e \in Episodes : alerts[e].by = x /\ Present(alerts[e].is) /\ alerts[e].is.inc = i
    BY <1>1, <2>1 DEF OpenedInv
  <2>3. alerts'[e] = alerts[e]
    BY <1>1, <1>2, <2>1, <2>2, RowsOf, EndedRow
  <2> QED BY <2>2, <2>3
<1>4. IncidentsAreLinked'
  <2> SUFFICES ASSUME NEW i \in Incidents, Present(incidents'[i].was)
               PROVE  \E e \in Episodes : /\ Present(alerts'[e].was) /\ alerts'[e].was.inc = i
                                          /\ alerts'[e].was.alarm = incidents'[i].was.alarm
    BY DEF IncidentsAreLinked, Present
  <2>1. TicketRow(incidents[i]) /\ incidents'[i].was = Seen(d, incidents[i]) /\ i # NoIncident
    BY <1>1, <1>2, RowsOf, EndedRow DEF Incidents, NoIncident
  <2>2. CASE Present(incidents[i].was)
    <3>1. PICK e \in Episodes : /\ Present(alerts[e].was) /\ alerts[e].was.inc = i
                                /\ alerts[e].was.alarm = incidents[i].was.alarm
      BY <1>1, <2>2 DEF IncidentsAreLinked, Present
    <3>2. EpisodeRow(alerts[e]) /\ alerts'[e].was = Seen(d, alerts[e])
      BY <1>1, <1>2, RowsOf, EndedRow
    <3>3. incidents'[i].was.alarm = incidents[i].was.alarm
      BY <2>1, <2>2 DEF TicketRow, Seen
    <3> QED BY <2>1, <3>1, <3>2, <3>3 DEF EpisodeRow, Seen
  <2>3. CASE ~Present(incidents[i].was)
    <3>1. incidents[i].by = d /\ incidents'[i].was = incidents[i].is
      BY <2>1, <2>3 DEF Seen
    <3>2. PICK e \in Episodes : alerts[e].by = d /\ Present(alerts[e].is) /\ alerts[e].is.inc = i
      BY <1>1, <2>3, <3>1 DEF OpenedInv
    <3>3. alerts'[e].was = alerts[e].is
      BY <1>1, <1>2, <3>2, RowsOf, EndedRow DEF Clean
    <3>4. TicketOf(alerts[e].is, Seen(d, incidents[i]))
      BY <1>1, <2>1, <3>2 DEF TypeInv, LinkInv
    <3> QED BY <2>1, <3>2, <3>3, <3>4 DEF TicketOf
  <2> QED BY <2>2, <2>3
<1> QED BY <1>3, <1>4

LEMMA RollbackLinked ==
  ASSUME LinkedInv, NEW d \in Deliveries, Rollback(d)
  PROVE  OpenedInv' /\ IncidentsAreLinked'
<1>1. TypeInv /\ OpenedInv /\ IncidentsAreLinked
  BY DEF LinkedInv
<1>2. /\ \A e \in Episodes : alerts'[e] = Reverted(d, alerts[e])
      /\ \A i \in Incidents : incidents'[i] = Reverted(d, incidents[i])
  BY DEF Rollback, TicketsReverted
<1>3. OpenedInv'
  <2> SUFFICES ASSUME NEW i \in Incidents, NEW x \in Deliveries, incidents'[i].by = x,
                      ~Present(incidents'[i].was), Present(incidents'[i].is)
               PROVE  \E e \in Episodes : /\ alerts'[e].by = x
                                          /\ Present(alerts'[e].is) /\ alerts'[e].is.inc = i
    BY DEF OpenedInv
  <2>1. x # d /\ incidents'[i] = incidents[i]
    BY <1>1, <1>2, RowsOf, EndedRow, AlertsAssumption DEF Clean
  <2>2. PICK e \in Episodes : alerts[e].by = x /\ Present(alerts[e].is) /\ alerts[e].is.inc = i
    BY <1>1, <2>1 DEF OpenedInv
  <2>3. alerts'[e] = alerts[e]
    BY <1>1, <1>2, <2>1, <2>2, RowsOf, EndedRow
  <2> QED BY <2>2, <2>3
<1>4. IncidentsAreLinked'
  <2>1. /\ \A e \in Episodes : alerts'[e].was = alerts[e].was
        /\ \A i \in Incidents : incidents'[i].was = incidents[i].was
    BY <1>1, <1>2, RowsOf, EndedRow
  <2> QED BY <1>1, <2>1 DEF IncidentsAreLinked
<1> QED BY <1>3, <1>4

LEMMA SetStatusLinked ==
  ASSUME LinkedInv, NEW i \in Incidents, NEW to \in IncidentStatuses, SetStatus(i, to)
  PROVE  OpenedInv' /\ IncidentsAreLinked'
<1>1. TypeInv /\ OpenedInv /\ IncidentsAreLinked /\ UNCHANGED alerts
  BY DEF LinkedInv, SetStatus
<1> DEFINE w == [incidents[i].is EXCEPT !.status = to]
<1>2. /\ incidents'[i] = Clean(w) /\ \A j \in Incidents \ {i} : incidents'[j] = incidents[j]
      /\ Present(incidents[i].was) /\ w.alarm = incidents[i].was.alarm
  BY <1>1, SetStatusRows
<1> HIDE DEF w
<1>3. incidents'[i].by = Nobody /\ incidents'[i].was = w
  BY <1>2 DEF Clean
<1>4. OpenedInv'
  BY <1>1, <1>2, <1>3, AlertsAssumption DEF OpenedInv
<1>5. IncidentsAreLinked'
  <2> SUFFICES ASSUME NEW j \in Incidents, Present(incidents'[j].was)
               PROVE  \E e \in Episodes : /\ Present(alerts[e].was) /\ alerts[e].was.inc = j
                                          /\ alerts[e].was.alarm = incidents'[j].was.alarm
    BY <1>1 DEF IncidentsAreLinked, Present
  <2>1. Present(incidents[j].was) /\ incidents'[j].was.alarm = incidents[j].was.alarm
    BY <1>2, <1>3
  <2> QED BY <1>1, <2>1 DEF IncidentsAreLinked, Present
<1> QED BY <1>4, <1>5

\* No incident is opened twice for one episode, or for none: every incident that is
\* there to see is the incident of an alert of its alarm that is there to see,
\* however many deliveries bring the first firing at once, wait, or roll back.
THEOREM AlertIncidentsLinked == Spec => []IncidentsAreLinked
<1>1. Init => LinkedInv
  <2> SUFFICES ASSUME Init PROVE LinkedInv
    OBVIOUS
  <2>1. \A i \in Incidents : incidents[i] = Clean(NoTicket)
    BY DEF Init
  <2> QED BY <2>1, InitTypeInv
          DEF LinkedInv, OpenedInv, IncidentsAreLinked, Clean, NoTicket, Present
<1>2. LinkedInv /\ [Next]_vars => LinkedInv'
  <2> SUFFICES ASSUME LinkedInv, [Next]_vars PROVE OpenedInv' /\ IncidentsAreLinked'
    BY NextTypeInv DEF LinkedInv
  <2>1. ASSUME NEW d \in Deliveries, Statement(d) PROVE OpenedInv' /\ IncidentsAreLinked'
    BY <2>1, StatementLinked
  <2>2. ASSUME NEW d \in Deliveries, Commit(d) PROVE OpenedInv' /\ IncidentsAreLinked'
    BY <2>2, CommitLinked
  <2>3. ASSUME NEW d \in Deliveries, Abort(d) \/ BreakDeadlock(d)
        PROVE  OpenedInv' /\ IncidentsAreLinked'
    BY <2>3, RollbackLinked DEF Abort, BreakDeadlock
  <2>4. ASSUME NEW i \in Incidents, NEW to \in IncidentStatuses, SetStatus(i, to)
        PROVE  OpenedInv' /\ IncidentsAreLinked'
    BY <2>4, SetStatusLinked
  <2>5. ASSUME UNCHANGED <<alerts, incidents>> PROVE OpenedInv' /\ IncidentsAreLinked'
    BY <2>5 DEF LinkedInv, OpenedInv, IncidentsAreLinked
  <2> QED BY <2>1, <2>2, <2>3, <2>4, <2>5 DEF Next, Begin, Comment, Window, vars, tables
<1>3. LinkedInv => IncidentsAreLinked
  BY DEF LinkedInv
<1> QED BY <1>1, <1>2, <1>3, PTL DEF Spec

\* What people took up or cancelled stays as they left it: only people change a
\* committed incident that is being worked on or cancelled, and an alert that
\* clears, refires or rolls back does not, also after it has looked at it.
THEOREM AlertWorkKept == Spec => WorkIsKept
<1>1. TypeInv /\ [Next]_vars =>
        [\A i \in Incidents :
           incidents[i].was.status \in {"in_progress", "cancelled"} /\ besides' = besides
             => incidents'[i].was = incidents[i].was]_vars
  <2> SUFFICES ASSUME TypeInv, [Next]_vars, NEW i \in Incidents, besides' = besides,
                      incidents[i].was.status \in {"in_progress", "cancelled"}
               PROVE  incidents'[i].was = incidents[i].was
    OBVIOUS
  <2>1. incidents[i] \in Row(TicketType) /\ TicketRow(incidents[i]) /\ Present(incidents[i].was)
    BY RowsOf DEF Present
  <2>2. ASSUME NEW d \in Deliveries, Statement(d) PROVE incidents'[i].was = incidents[i].was
    BY <2>2, StatementStep, StatementRows
  <2>3. ASSUME NEW d \in Deliveries, Commit(d) PROVE incidents'[i].was = incidents[i].was
    <3>1. incidents'[i].was = Seen(d, incidents[i])
      BY <2>1, <2>3, EndedRow DEF Commit
    <3> QED BY <2>1, <3>1 DEF TicketRow, Seen
  <2>4. ASSUME NEW d \in Deliveries, Rollback(d) PROVE incidents'[i].was = incidents[i].was
    BY <2>1, <2>4, EndedRow DEF Rollback, TicketsReverted
  <2>5. ASSUME Besides PROVE FALSE
    BY <2>5 DEF Besides, TypeInv, TypeOK
  <2>6. ASSUME UNCHANGED incidents PROVE incidents'[i].was = incidents[i].was
    BY <2>6
  <2> QED BY <2>2, <2>3, <2>4, <2>5, <2>6
          DEF Next, Begin, Abort, BreakDeadlock, Comment, SetStatus, Window, vars, tables
<1> QED BY <1>1, AlertRowsKept, PTL DEF Spec, WorkIsKept

-----------------------------------------------------------------------------
(***************************************************************************)
(* What each statement does to the episode it is about.                    *)
(***************************************************************************)

\* d writes to e, which is about the alarm of its message, and to no other episode.
Alters(d, e) ==
  /\ e \in Episodes /\ Free(d, alerts[e])
  /\ alerts'[e].by = d /\ alerts'[e].was = alerts[e].was
  /\ alerts'[e].is \in EpisodeType /\ Present(alerts'[e].is)
  /\ alerts'[e].is.alarm = Alarm(d)
  /\ \A f \in Episodes \ {e} : alerts'[f] = alerts[f]

\* The episode was there before.
Renews(d, e) ==
  /\ Alters(d, e)
  /\ alerts[e].is \in EpisodeType /\ Present(alerts[e].is)
  /\ alerts[e].is.alarm = Alarm(d)

Closes(d) ==
  LET e == tx[d].ep IN
  /\ Renews(d, e) /\ Disturb(d, Alarm(d), e)
  /\ alerts'[e].is.status = "resolved"
  /\ alerts'[e].is.inc = alerts[e].is.inc /\ alerts'[e].is.seen = tx[d].start

\* An open episode is seen again, or a new one is inserted.
SeesAgain(d, e) ==
  /\ Renews(d, e)
  /\ Firing(alerts[e].is) /\ Firing(alerts'[e].is)
  /\ alerts'[e].is.inc = alerts[e].is.inc

Inserts(d, e) ==
  /\ Alters(d, e)
  /\ alerts[e] = Clean(NoEpisode) /\ OpenEpisodes(d, Alarm(d)) = {}
  /\ Firing(alerts'[e].is) /\ alerts'[e].is.inc = NoIncident

\* The episode of d is given an incident.
Links(d, i) ==
  LET e == tx[d].ep IN
  /\ Renews(d, e) /\ alerts[e].by = d
  /\ alerts[e].is.inc = NoIncident /\ alerts'[e].is.inc = i /\ i \in Incidents
  /\ alerts'[e].is.status = alerts[e].is.status /\ alerts'[e].is.seen = alerts[e].is.seen

LEMMA CloseRow ==
  ASSUME TypeInv, NEW d \in Deliveries, Close(d)
  PROVE  Closes(d)
<1> DEFINE e == tx[d].ep
           v == [alerts[e].is EXCEPT !.status = "resolved", !.seen = tx[d].start]
<1>1. /\ tx[d].pc = "close" /\ Free(d, alerts[e]) /\ Touch(d, e, v)
      /\ Disturb(d, Alarm(d), e)
  BY DEF Close, At
<1>2. /\ e \in Episodes /\ alerts[e].is \in EpisodeType /\ Present(alerts[e].is)
      /\ alerts[e].is.alarm = Alarm(d)
  BY <1>1, InHand DEF EpisodePCs
<1>3. tx[d].start \in Nat /\ alerts \in [Episodes -> Row(EpisodeType)]
  BY RowsOf DEF TypeInv, TypeOK, TxType
<1>4. /\ v \in EpisodeType /\ v.status = "resolved" /\ v.alarm = alerts[e].is.alarm
      /\ v.inc = alerts[e].is.inc /\ v.seen = tx[d].start
  BY <1>2, <1>3, EditedType
<1>5. /\ alerts'[e].by = d /\ alerts'[e].is = v /\ alerts'[e].was = alerts[e].was
      /\ alerts' = [alerts EXCEPT ![e] = Write(d, alerts[e], v)]
  BY <1>1, <1>2, Touched
<1> HIDE DEF v
<1>6. Present(v)
  BY <1>4 DEF Present
<1>7. \A f \in Episodes \ {e} : alerts'[f] = alerts[f]
  BY <1>3, <1>5
<1> QED BY <1>1, <1>2, <1>4, <1>5, <1>6, <1>7 DEF Closes, Renews, Alters

LEMMA UpsertRow ==
  ASSUME TypeInv, NEW d \in Deliveries, Upsert(d)
  PROVE  /\ tx[d].pc = "upsert" /\ SlotIsFree(d, Alarm(d))
         /\ \E e \in Episodes :
              /\ SeesAgain(d, e) \/ Inserts(d, e)
              /\ alerts'[e].is.seen = tx[d].start
              /\ Disturb(d, Alarm(d), e)
<1> DEFINE a == Alarm(d)
           now == tx[d].start
<1>1. tx[d].pc = "upsert" /\ SlotIsFree(d, a)
  BY DEF Upsert, At
<1>2. now \in Nat /\ a \in Alarms /\ alerts \in [Episodes -> Row(EpisodeType)]
  BY <1>1, RowsOf, MessageType DEF TypeInv, TypeOK, TxType
<1>3. ASSUME NEW e \in OpenEpisodes(d, a),
             Touch(d, e, [alerts[e].is EXCEPT !.seen = now])
      PROVE  e \in Episodes /\ SeesAgain(d, e) /\ alerts'[e].is.seen = now
  <2> DEFINE v == [alerts[e].is EXCEPT !.seen = now]
  <2>1. /\ e \in Episodes /\ Free(d, alerts[e])
        /\ alerts[e].is \in EpisodeType /\ Present(alerts[e].is) /\ alerts[e].is.alarm = a
        /\ Firing(alerts[e].is)
    BY <1>1, OpenEpisode
  <2>2. /\ v \in EpisodeType /\ v.status = alerts[e].is.status /\ v.alarm = a
        /\ v.inc = alerts[e].is.inc /\ v.seen = now
    BY <1>2, <2>1, EditedType
  <2>3. /\ alerts'[e].by = d /\ alerts'[e].is = v /\ alerts'[e].was = alerts[e].was
        /\ alerts' = [alerts EXCEPT ![e] = Write(d, alerts[e], v)]
    BY <1>3, <2>1, Touched
  <2> HIDE DEF v
  <2>4. Present(v) /\ Firing(v)
    BY <2>1, <2>2 DEF Present, Firing
  <2>5. \A f \in Episodes \ {e} : alerts'[f] = alerts[f]
    BY <1>2, <2>3
  <2> QED BY <2>1, <2>2, <2>3, <2>4, <2>5 DEF SeesAgain, Renews, Alters
<1>4. ASSUME NEW e \in Episodes, alerts[e] = Clean(NoEpisode), OpenEpisodes(d, a) = {},
             Touch(d, e, [status |-> "firing", alarm |-> a, inc |-> NoIncident, seen |-> now])
      PROVE  Inserts(d, e) /\ alerts'[e].is.seen = now
  <2> DEFINE v == [status |-> "firing", alarm |-> a, inc |-> NoIncident, seen |-> now]
  <2>1. v \in EpisodeType /\ Present(v) /\ Firing(v) /\ v.inc = NoIncident /\ v.alarm = a
        /\ v.seen = now
    BY <1>2 DEF EpisodeType, Present, Firing
  <2>2. Touch(d, e, v)
    BY <1>4
  <2> HIDE DEF v
  <2>3. /\ alerts'[e].by = d /\ alerts'[e].is = v /\ alerts'[e].was = alerts[e].was
        /\ alerts' = [alerts EXCEPT ![e] = Write(d, alerts[e], v)]
    BY <2>2, Touched
  <2>4. \A f \in Episodes \ {e} : alerts'[f] = alerts[f]
    BY <1>2, <2>3
  <2>5. Free(d, alerts[e])
    BY <1>4 DEF Free, Clean
  <2> QED BY <1>4, <2>1, <2>3, <2>4, <2>5 DEF Inserts, Alters
<1>5. \E e \in Episodes : /\ SeesAgain(d, e) \/ Inserts(d, e)
                          /\ alerts'[e].is.seen = tx[d].start
                          /\ Disturb(d, Alarm(d), e)
  BY <1>3, <1>4 DEF Upsert
<1> QED BY <1>1, <1>5

\* Linking the episode in hand.
LEMMA LinkRow ==
  ASSUME TypeInv, NEW d \in Deliveries, tx[d].pc \in {"reuse", "apply"}, NEW i \in Incidents,
         Touch(d, tx[d].ep, [alerts[tx[d].ep].is EXCEPT !.inc = i])
  PROVE  Links(d, i)
<1> DEFINE e == tx[d].ep
           v == [alerts[e].is EXCEPT !.inc = i]
<1>1. alerts[e].by = d /\ Free(d, alerts[e])
  BY RowsOf DEF HandsOK, Holding, At, EpisodePCs, Free
<1>2. /\ e \in Episodes /\ alerts[e].is \in EpisodeType /\ Present(alerts[e].is)
      /\ alerts[e].is.alarm = Alarm(d) /\ alerts[e].is.inc = NoIncident
  BY <1>1, InHand DEF EpisodePCs
<1>3. tx[d].start \in Nat /\ alerts \in [Episodes -> Row(EpisodeType)]
  BY RowsOf DEF TypeInv, TypeOK, TxType
<1>4. /\ v \in EpisodeType /\ v.status = alerts[e].is.status /\ v.alarm = alerts[e].is.alarm
      /\ v.inc = i /\ v.seen = alerts[e].is.seen
  BY <1>2, <1>3, EditedType
<1>5. /\ alerts'[e].by = d /\ alerts'[e].is = v /\ alerts'[e].was = alerts[e].was
      /\ alerts' = [alerts EXCEPT ![e] = Write(d, alerts[e], v)]
  BY <1>2, Touched
<1> HIDE DEF v
<1>6. Present(v)
  BY <1>2, <1>4 DEF Present
<1>7. \A f \in Episodes \ {e} : alerts'[f] = alerts[f]
  BY <1>3, <1>5
<1> QED BY <1>1, <1>2, <1>4, <1>5, <1>6, <1>7 DEF Links, Renews, Alters

LEMMA ReuseRow ==
  ASSUME TypeInv, NEW d \in Deliveries, Reuse(d)
  PROVE  /\ tx[d].pc = "reuse"
         /\ \/ UNCHANGED alerts /\ Goto(d, "apply")
            \/ \E i \in Reusable(d, Alarm(d), tx[d].ep) : Links(d, i)
<1>1. tx[d].pc = "reuse"
  BY DEF Reuse, At
<1>2. ASSUME NEW i \in Reusable(d, Alarm(d), tx[d].ep),
             Touch(d, tx[d].ep, [alerts[tx[d].ep].is EXCEPT !.inc = i])
      PROVE  Links(d, i)
  <2>1. PICK f \in Episodes : /\ Present(Seen(d, alerts[f]))
                              /\ Seen(d, alerts[f]).inc # NoIncident
                              /\ Seen(d, alerts[f]).inc = i
    BY DEF Reusable, PreviousIncidents, PreviousEpisodes, EpisodesOf, Present
  <2>2. i \in Incidents
    BY <2>1, SeenTicket
  <2> QED BY <1>1, <1>2, <2>2, LinkRow
<1> QED BY <1>1, <1>2 DEF Reuse

LEMMA ApplyRow ==
  ASSUME TypeInv, NEW d \in Deliveries, Apply(d)
  PROVE  /\ tx[d].pc = "apply"
         /\ \/ UNCHANGED <<alerts, incidents>>
            \/ /\ Alarm(d) \notin covered
               /\ \E i \in Incidents : incidents[i] = Clean(NoTicket) /\ Links(d, i)
<1>1. tx[d].pc = "apply"
  BY DEF Apply, At
<1> QED BY <1>1, LinkRow DEF Apply

\* The statements that write to no episode.
LEMMA OtherRows ==
  ASSUME NEW d \in Deliveries, Record(d) \/ Find(d) \/ Judge(d) \/ Resolve(d) \/ Reopen(d)
  PROVE  UNCHANGED <<alerts, disturbed>>
BY DEF Record, Find, Judge, Resolve, Reopen, tables, history

-----------------------------------------------------------------------------
(***************************************************************************)
(* One episode of an alarm fires.                                          *)
(***************************************************************************)

\* Nothing opens or closes.
Restates(d) ==
  \A e \in Episodes :
    \/ alerts'[e] = alerts[e]
    \/ Renews(d, e) /\ alerts'[e].is.status = alerts[e].is.status

LEMMA StatementStatus ==
  ASSUME TypeInv, NEW d \in Deliveries, Statement(d)
  PROVE  \/ Restates(d) /\ ~At(d, "close")
         \/ At(d, "close") /\ Close(d) /\ Closes(d)
         \/ At(d, "upsert") /\ SlotIsFree(d, Alarm(d)) /\ \E e \in Episodes : Inserts(d, e)
<1>1. CASE Record(d) \/ Find(d) \/ Judge(d) \/ Resolve(d) \/ Reopen(d)
  BY <1>1, OtherRows DEF Restates, Record, Find, Judge, Resolve, Reopen, At
<1>2. CASE Close(d)
  BY <1>2, CloseRow DEF Close
<1>3. CASE Upsert(d)
  <2>1. PICK e \in Episodes : SeesAgain(d, e) \/ Inserts(d, e)
    BY <1>3, UpsertRow
  <2>2. CASE SeesAgain(d, e)
    BY <1>3, <2>2, UpsertRow DEF SeesAgain, Renews, Alters, Restates, Firing, At
  <2> QED BY <1>3, <2>1, <2>2, UpsertRow DEF At
<1>4. CASE Reuse(d)
  BY <1>4, ReuseRow DEF Links, Renews, Alters, Restates, At
<1>5. CASE Apply(d)
  BY <1>5, ApplyRow DEF Links, Renews, Alters, Restates, At
<1> QED BY <1>1, <1>2, <1>3, <1>4, <1>5 DEF Statement

\* While the slot is free and nothing is open, no episode of the alarm fires.
LEMMA NothingOpen ==
  ASSUME TypeInv, NEW d \in Deliveries, NEW a, SlotIsFree(d, a), OpenEpisodes(d, a) = {},
         NEW e \in Episodes, Present(alerts[e].is), alerts[e].is.alarm = a
  PROVE  /\ ~Firing(alerts[e].is)
         /\ Firing(alerts[e].was) => alerts[e].by = d
<1>1. EpisodeRow(alerts[e])
  BY RowsOf
<1>2. ASSUME Free(d, alerts[e]) PROVE ~Firing(alerts[e].is)
  BY <1>1, <1>2, SeenFree DEF OpenEpisodes, EpisodesOf, Present, Firing
<1>3. ASSUME ~Free(d, alerts[e]) PROVE alerts[e].was.status = "resolved"
  BY <1>3 DEF SlotIsFree, OpenWriters
<1> QED BY <1>1, <1>2, <1>3 DEF EpisodeRow, Present, Firing, Free

LEMMA StatementOneFires ==
  ASSUME TypeInv, OneFires, NEW d \in Deliveries, Statement(d)
  PROVE  OneFires'
<1> SUFFICES ASSUME NEW e \in Episodes, NEW f \in Episodes, Alike(e, f)'
             PROVE  /\ ~(Firing(alerts'[e].was) /\ Firing(alerts'[f].was))
                    /\ ~(Firing(alerts'[e].is) /\ Firing(alerts'[f].is))
                    /\ Firing(alerts'[e].was) /\ Firing(alerts'[f].is)
                         => alerts'[e].by = alerts'[f].by
  BY DEF OneFires
<1>1. /\ e # f /\ Present(alerts'[e].is) /\ Present(alerts'[f].is)
      /\ alerts'[e].is.alarm = alerts'[f].is.alarm
  BY DEF Alike
<1>2. EpisodeRow(alerts[e]) /\ EpisodeRow(alerts[f])
  BY RowsOf
<1>3. CASE Restates(d) \/ Closes(d)
  <2>1. ASSUME NEW g \in Episodes, Present(alerts'[g].is)
        PROVE  /\ Present(alerts[g].is) /\ alerts'[g].is.alarm = alerts[g].is.alarm
               /\ alerts'[g].was = alerts[g].was
               /\ Firing(alerts'[g].is) => Firing(alerts[g].is)
               /\ alerts'[g].by = alerts[g].by \/ (alerts[g].by = Nobody /\ alerts'[g].by = d)
    <3>1. CASE alerts'[g] = alerts[g]
      BY <2>1, <3>1
    <3>2. CASE alerts'[g] # alerts[g]
      <4>1. Renews(d, g) /\ (Firing(alerts'[g].is) => Firing(alerts[g].is))
        BY <1>3, <3>2 DEF Restates, Closes, Renews, Alters, Firing
      <4> QED BY <4>1 DEF Renews, Alters, Free
    <3> QED BY <3>1, <3>2
  <2>2. Alike(e, f)
    BY <1>1, <2>1 DEF Alike
  <2>3. /\ ~(Firing(alerts[e].was) /\ Firing(alerts[f].was))
        /\ ~(Firing(alerts[e].is) /\ Firing(alerts[f].is))
        /\ Firing(alerts[e].was) /\ Firing(alerts[f].is) => alerts[e].by = alerts[f].by
    BY <2>2 DEF OneFires
  <2>4. ASSUME Firing(alerts[e].was), Firing(alerts[f].is) PROVE alerts[e].by # Nobody
    BY <1>2, <2>3, <2>4 DEF EpisodeRow
  <2> QED BY <1>1, <2>1, <2>3, <2>4
<1>4. ASSUME NEW g \in Episodes, At(d, "upsert"), SlotIsFree(d, Alarm(d)), Inserts(d, g)
      PROVE  /\ ~(Firing(alerts'[e].was) /\ Firing(alerts'[f].was))
             /\ ~(Firing(alerts'[e].is) /\ Firing(alerts'[f].is))
             /\ Firing(alerts'[e].was) /\ Firing(alerts'[f].is)
                  => alerts'[e].by = alerts'[f].by
  <2>1. /\ OpenEpisodes(d, Alarm(d)) = {} /\ alerts'[g].by = d /\ alerts'[g].is.alarm = Alarm(d)
        /\ ~Firing(alerts'[g].was)
        /\ \A h \in Episodes \ {g} : alerts'[h] = alerts[h]
    BY <1>4 DEF Inserts, Alters, Clean, NoEpisode, Firing
  <2>2. ASSUME NEW h \in Episodes \ {g}, Present(alerts[h].is), alerts[h].is.alarm = Alarm(d)
        PROVE  /\ ~Firing(alerts[h].is)
               /\ Firing(alerts[h].was) => alerts[h].by = d
    BY <1>4, <2>1, <2>2, NothingOpen
  <2>3. CASE e = g
    BY <1>1, <2>1, <2>2, <2>3
  <2>4. CASE f = g
    BY <1>1, <2>1, <2>2, <2>4
  <2>5. CASE e # g /\ f # g
    <3>1. alerts'[e] = alerts[e] /\ alerts'[f] = alerts[f]
      BY <2>1, <2>5
    <3> QED BY <1>1, <3>1 DEF OneFires, Alike
  <2> QED BY <2>3, <2>4, <2>5
<1> QED BY <1>3, <1>4, StatementStatus

LEMMA CommitOneFires ==
  ASSUME TypeInv, OneFires, NEW d \in Deliveries, Commit(d)
  PROVE  OneFires'
<1> SUFFICES ASSUME NEW e \in Episodes, NEW f \in Episodes, Alike(e, f)'
             PROVE  /\ ~(Firing(alerts'[e].was) /\ Firing(alerts'[f].was))
                    /\ ~(Firing(alerts'[e].is) /\ Firing(alerts'[f].is))
                    /\ Firing(alerts'[e].was) /\ Firing(alerts'[f].is)
                         => alerts'[e].by = alerts'[f].by
  BY DEF OneFires
<1>1. ASSUME NEW g \in Episodes
      PROVE  /\ alerts'[g].is = alerts[g].is
             /\ alerts[g].by = d => alerts'[g].was = alerts[g].is /\ alerts'[g].by = Nobody
             /\ alerts[g].by # d => alerts'[g] = alerts[g]
  BY RowsOf, EndedRow DEF Commit, Clean
<1>2. Alike(e, f) /\ Alike(f, e)
  BY <1>1 DEF Alike
<1>3. /\ ~(Firing(alerts[e].was) /\ Firing(alerts[f].was))
      /\ ~(Firing(alerts[e].is) /\ Firing(alerts[f].is))
      /\ Firing(alerts[e].was) /\ Firing(alerts[f].is) => alerts[e].by = alerts[f].by
      /\ Firing(alerts[f].was) /\ Firing(alerts[e].is) => alerts[e].by = alerts[f].by
  BY <1>2 DEF OneFires
<1> QED BY <1>1, <1>3

LEMMA RollbackOneFires ==
  ASSUME TypeInv, OneFires, NEW d \in Deliveries, Rollback(d)
  PROVE  OneFires'
<1> SUFFICES ASSUME NEW e \in Episodes, NEW f \in Episodes, Alike(e, f)'
             PROVE  /\ ~(Firing(alerts'[e].was) /\ Firing(alerts'[f].was))
                    /\ ~(Firing(alerts'[e].is) /\ Firing(alerts'[f].is))
                    /\ Firing(alerts'[e].was) /\ Firing(alerts'[f].is)
                         => alerts'[e].by = alerts'[f].by
  BY DEF OneFires
<1>1. ASSUME NEW g \in Episodes
      PROVE  /\ alerts'[g].was = alerts[g].was
             /\ alerts[g].by = d => alerts'[g].is = alerts[g].was /\ alerts'[g].by = Nobody
             /\ alerts[g].by # d => alerts'[g] = alerts[g]
             /\ Present(alerts'[g].is) => /\ Present(alerts[g].is)
                                          /\ alerts'[g].is.alarm = alerts[g].is.alarm
  BY RowsOf, EndedRow DEF Rollback, Clean, EpisodeRow
<1>2. Alike(e, f) /\ Alike(f, e)
  BY <1>1 DEF Alike
<1>3. /\ ~(Firing(alerts[e].was) /\ Firing(alerts[f].was))
      /\ ~(Firing(alerts[e].is) /\ Firing(alerts[f].is))
      /\ Firing(alerts[e].was) /\ Firing(alerts[f].is) => alerts[e].by = alerts[f].by
      /\ Firing(alerts[f].was) /\ Firing(alerts[e].is) => alerts[e].by = alerts[f].by
  BY <1>2 DEF OneFires
<1> QED BY <1>1, <1>3

-----------------------------------------------------------------------------
(***************************************************************************)
(* What a delivery has said, and what it has in hand.                      *)
(***************************************************************************)

\* A message is about an alarm of its delivery.
LEMMA MessageAbout ==
  ASSUME TypeInv, DeskInv, NEW d \in Deliveries, tx[d].pc \notin {"idle", "commit"}
  PROVE  Alarm(d) \in tx[d].about
<1>1. tx[d].rest \in Seq(Messages) /\ tx[d].rest # <<>>
  BY RowsOf DEF Delivery, TxType
<1>2. 1 \in DOMAIN tx[d].rest /\ Message(d) = tx[d].rest[1]
  BY <1>1 DEF Message
<1> QED BY <1>2 DEF DeskInv, Desk, Alarm

\* An episode that a delivery has written to is about an alarm of its own.
LEMMA WrittenAbout ==
  ASSUME TypeInv, DeskInv, NEW d \in Deliveries, NEW e \in Episodes, alerts[e].by = d,
         Present(alerts[e].is)
  PROVE  alerts[e].is.alarm \in tx[d].about
<1>1. alerts[e].is \in EpisodeType
  BY RowsOf DEF Row
<1>2. alerts[e].is.alarm \in Alarms
  BY <1>1 DEF EpisodeType, NoEpisode, Present
<1> QED BY <1>2 DEF DeskInv, Desk

\* What a statement does to its own delivery.
LEMMA StatementDesk ==
  ASSUME TypeInv, NEW d \in Deliveries, Statement(d)
  PROVE  /\ tx'[d].start = tx[d].start /\ tx'[d].about = tx[d].about
         /\ tx'[d].alone = tx[d].alone
         /\ tx'[d].pc # "idle"
         /\ \/ /\ tx'[d].rest = tx[d].rest /\ tx'[d].news = tx[d].news
               /\ tx[d].pc \in Clearing /\ tx'[d].pc \in Clearing
            \/ /\ tx'[d].rest = tx[d].rest /\ tx'[d].news = tx[d].news
               /\ tx[d].pc \in Raising /\ tx'[d].pc \in Raising
            \/ /\ tx'[d].rest = Tail(tx[d].rest) /\ tx'[d].news = tx[d].news
               /\ tx'[d].pc \in {"record", "commit"}
            \/ /\ tx[d].pc = "record" /\ tx'[d].rest = tx[d].rest
               /\ tx'[d].news = [tx[d].news EXCEPT ![Alarm(d)] = Message(d).status]
               /\ tx'[d].pc = IF Message(d).status = "resolved" THEN "find" ELSE "upsert"
<1>1. tx[d] \in TxType /\ Delivery(tx[d]) /\ tx \in [Deliveries -> TxType]
  BY RowsOf DEF TypeInv, TypeOK
<1>2. tx[d].pc \notin {"idle", "commit"}
  BY StatementFrame
<1>3. ASSUME Advance(d)
      PROVE  /\ tx'[d].start = tx[d].start /\ tx'[d].about = tx[d].about
             /\ tx'[d].alone = tx[d].alone /\ tx'[d].rest = Tail(tx[d].rest)
             /\ tx'[d].news = tx[d].news /\ tx'[d].pc \in {"record", "commit"}
  <2>1. tx'[d] = Advanced(tx[d])
    BY <1>1, <1>3 DEF Advance
  <2>2. tx[d].rest # <<>>
    BY <1>1, <1>2 DEF Delivery
  <2> QED BY <1>1, <2>1, <2>2, AdvancedType
<1>4. ASSUME NEW pc, Goto(d, pc)
      PROVE  /\ tx'[d].start = tx[d].start /\ tx'[d].about = tx[d].about
             /\ tx'[d].alone = tx[d].alone /\ tx'[d].rest = tx[d].rest
             /\ tx'[d].news = tx[d].news /\ tx'[d].pc = pc
  BY <1>1, <1>4 DEF Goto, TxType
<1>5. CASE Record(d)
  <2> DEFINE m == Message(d)
  <2>1. CASE IsNew(d, m)
    <3>1. m.status \in {"firing", "resolved"} /\ m.alarm = Alarm(d) /\ Alarm(d) \in Alarms
      BY <1>2, MessageType, AlertsAssumption DEF TypeInv, Alarm
    <3>2. tx' = [tx EXCEPT ![d].pc = IF m.status = "resolved" THEN "find" ELSE "upsert",
                           ![d].news[m.alarm] = m.status]
      BY <1>5, <2>1 DEF Record, IsNew, First
    <3> DEFINE pc == IF m.status = "resolved" THEN "find" ELSE "upsert"
    <3>3. tx'[d] = [tx[d] EXCEPT !.pc = pc, !.news[m.alarm] = m.status]
      BY <1>1, <3>2
    <3>4. tx'[d] = [tx[d] EXCEPT !.pc = pc, !.news = [tx[d].news EXCEPT ![Alarm(d)] = m.status]]
      BY <1>1, <3>1, <3>3 DEF TxType
    <3>5. tx'[d].news = [tx[d].news EXCEPT ![Alarm(d)] = m.status] /\ tx'[d].pc = pc
          /\ tx'[d].start = tx[d].start /\ tx'[d].about = tx[d].about
          /\ tx'[d].alone = tx[d].alone /\ tx'[d].rest = tx[d].rest
      BY <1>1, <3>4 DEF TxType
    <3> QED BY <1>5, <3>5 DEF Record, At
  <2>2. CASE Advance(d)
    BY <1>3, <2>2
  <2> QED BY <1>5, <2>1, <2>2 DEF Record
<1>6. CASE Find(d)
  <2>1. CASE Advance(d)
    BY <1>3, <2>1
  <2>2. ASSUME NEW e,
               tx' = [tx EXCEPT ![d].pc = "close", ![d].ep = e,
                                ![d].inc = Seen(d, alerts[e]).inc]
        PROVE  /\ tx'[d].start = tx[d].start /\ tx'[d].about = tx[d].about
               /\ tx'[d].alone = tx[d].alone /\ tx'[d].rest = tx[d].rest
               /\ tx'[d].news = tx[d].news /\ tx'[d].pc = "close"
    BY <1>1, <2>2 DEF TxType
  <2>3. \/ Advance(d)
        \/ \E e : tx' = [tx EXCEPT ![d].pc = "close", ![d].ep = e,
                                   ![d].inc = Seen(d, alerts[e]).inc]
    BY <1>6 DEF Find
  <2> QED BY <1>6, <2>1, <2>2, <2>3 DEF Find, At, Clearing
<1>7. CASE Close(d)
  BY <1>3, <1>4, <1>7 DEF Close, At, Clearing
<1>8. CASE Judge(d)
  BY <1>3, <1>4, <1>8 DEF Judge, At, Clearing
<1>9. CASE Resolve(d) \/ Apply(d) \/ Reopen(d)
  BY <1>3, <1>9 DEF Resolve, Apply, Reopen
<1>10. CASE Upsert(d)
  <2> DEFINE linked(e) == tx' = [tx EXCEPT ![d].ep = e, ![d].inc = alerts[e].is.inc,
                           ![d].fresh = FALSE,
                           ![d].pc = IF alerts[e].is.inc = NoIncident THEN "reuse" ELSE "reopen"]
             alone(e) == tx' = [tx EXCEPT ![d].ep = e, ![d].fresh = TRUE, ![d].pc = "reuse"]
  <2>1. PICK e : linked(e) \/ alone(e)
    BY <1>10 DEF Upsert
  <2>2. /\ tx'[d].start = tx[d].start /\ tx'[d].about = tx[d].about
        /\ tx'[d].alone = tx[d].alone /\ tx'[d].rest = tx[d].rest
        /\ tx'[d].news = tx[d].news /\ tx'[d].pc \in {"reuse", "reopen"}
    BY <1>1, <2>1 DEF TxType
  <2> QED BY <1>10, <2>2 DEF Upsert, At, Raising
<1>11. CASE Reuse(d)
  <2>1. ASSUME NEW i, tx' = [tx EXCEPT ![d].inc = i, ![d].pc = "reopen"]
        PROVE  /\ tx'[d].start = tx[d].start /\ tx'[d].about = tx[d].about
               /\ tx'[d].alone = tx[d].alone /\ tx'[d].rest = tx[d].rest
               /\ tx'[d].news = tx[d].news /\ tx'[d].pc = "reopen"
    BY <1>1, <2>1 DEF TxType
  <2>2. Goto(d, "apply") \/ \E i : tx' = [tx EXCEPT ![d].inc = i, ![d].pc = "reopen"]
    BY <1>11 DEF Reuse
  <2>3. tx[d].pc = "reuse"
    BY <1>11 DEF Reuse, At
  <2>4. /\ tx'[d].start = tx[d].start /\ tx'[d].about = tx[d].about
        /\ tx'[d].alone = tx[d].alone /\ tx'[d].rest = tx[d].rest
        /\ tx'[d].news = tx[d].news /\ tx'[d].pc \in {"apply", "reopen"}
    <3>1. CASE Goto(d, "apply")
      BY <1>1, <3>1 DEF Goto, TxType
    <3> QED BY <2>1, <2>2, <3>1
  <2> QED BY <2>3, <2>4 DEF Raising
<1> QED BY <1>5, <1>6, <1>7, <1>8, <1>9, <1>10, <1>11 DEF Statement

\* Only a message in hand makes a delivery write to an episode.
LEMMA WritesInHand ==
  ASSUME TypeInv, NEW d \in Deliveries, Statement(d)
  PROVE  tx[d].pc \in Clearing \cup Raising \/ UNCHANGED alerts
<1>1. tx[d].pc \in PCs /\ tx[d].pc \notin {"idle", "commit"}
  BY RowsOf, StatementFrame DEF TxType
<1>2. ASSUME tx[d].pc = "record" PROVE UNCHANGED alerts
  BY <1>2 DEF Statement, Record, Find, Close, Judge, Resolve, Upsert, Reuse, Apply, Reopen, At
<1> QED BY <1>1, <1>2 DEF PCs, Clearing, Raising

LEMMA StatementDeskInv ==
  ASSUME TypeInv, DeskInv, NEW d \in Deliveries, Statement(d)
  PROVE  DeskInv'
<1>1. Orderly(d)
  BY StatementStep
<1> SUFFICES ASSUME NEW x \in Deliveries PROVE Desk(x)'
  BY DEF DeskInv
<1>2. \A y \in Deliveries \ {d} : tx'[y] = tx[y]
  BY <1>1, DeliveriesType DEF Orderly, Moves
<1>3. Desk(x) /\ tx[x] \in TxType /\ Delivery(tx[x])
  BY RowsOf DEF DeskInv
<1>4. ASSUME NEW e \in Episodes
      PROVE  \/ alerts'[e] = alerts[e]
             \/ /\ alerts'[e].by = d /\ alerts'[e].is.alarm = Alarm(d)
                /\ tx[d].pc \in Clearing \cup Raising
  BY StatementStatus, WritesInHand DEF Restates, Closes, Inserts, Renews, Alters
<1>5. CASE x # d
  BY <1>2, <1>3, <1>4, <1>5 DEF Desk, At, Alarm, Message
<1>6. CASE x = d
  <2> DEFINE t == tx[d]
             u == tx'[d]
  <2>1. /\ t.rest \in Seq(Messages) /\ t.rest # <<>>
        /\ t.news \in [Alarms -> {"none", "firing", "resolved"}] /\ t.pc \in PCs
    BY <1>3, <1>6, StatementFrame DEF Delivery, TxType
  <2>2. /\ Alarm(d) \in Alarms /\ Alarm(d) \in t.about
        /\ Message(d).status \in {"firing", "resolved"}
    BY MessageAbout, MessageType, StatementFrame, AlertsAssumption DEF TypeInv
  <2>3. /\ u.about = t.about /\ u.alone = t.alone /\ u.pc # "idle"
        /\ u.rest = t.rest \/ u.rest = Tail(t.rest)
        /\ \/ u.news = t.news
           \/ t.pc = "record" /\ u.news = [t.news EXCEPT ![Alarm(d)] = Message(d).status]
    BY StatementDesk
  <2>4. \A k \in DOMAIN u.rest : u.rest[k].alarm \in u.about
    <3>1. CASE u.rest = t.rest
      BY <1>3, <1>6, <2>3, <3>1 DEF Desk
    <3>2. CASE u.rest = Tail(t.rest)
      <4> SUFFICES ASSUME NEW k \in DOMAIN u.rest PROVE u.rest[k].alarm \in t.about
        BY <2>3
      <4>1. /\ Tail(t.rest) \in Seq(Messages) /\ Len(Tail(t.rest)) = Len(t.rest) - 1
            /\ \A j \in 1..Len(Tail(t.rest)) : Tail(t.rest)[j] = t.rest[j + 1]
        BY <2>1, HeadTailProperties
      <4>2. k \in 1..(Len(t.rest) - 1) /\ u.rest[k] = t.rest[k + 1] /\ Len(t.rest) \in Nat
        BY <2>1, <3>2, <4>1
      <4>3. k + 1 \in DOMAIN t.rest
        BY <2>1, <4>2
      <4> QED BY <1>3, <1>6, <4>2, <4>3 DEF Desk
    <3> QED BY <2>3, <3>1, <3>2
  <2>5. \A a \in Alarms : u.news[a] # "none" => a \in u.about
    BY <1>3, <1>6, <2>1, <2>2, <2>3 DEF Desk
  <2>6. \A a \in Alarms : t.news[a] # "none" => u.news[a] # "none"
    BY <2>1, <2>2, <2>3
  <2>7. ASSUME u.rest = t.rest PROVE Alarm(d)' = Alarm(d)
    BY <2>7 DEF Alarm, Message
  <2>8. /\ u.pc \in Clearing => u.news[Alarm(d)'] = "resolved"
        /\ u.pc \in Raising => u.news[Alarm(d)'] = "firing"
    <3>1. CASE /\ u.rest = t.rest /\ u.news = t.news
               /\ \/ t.pc \in Clearing /\ u.pc \in Clearing
                  \/ t.pc \in Raising /\ u.pc \in Raising
      BY <1>3, <1>6, <2>7, <3>1 DEF Desk, Clearing, Raising
    <3>2. CASE u.pc \in {"record", "commit"}
      BY <3>2 DEF Clearing, Raising
    <3>3. CASE /\ u.rest = t.rest /\ u.news = [t.news EXCEPT ![Alarm(d)] = Message(d).status]
               /\ u.pc = IF Message(d).status = "resolved" THEN "find" ELSE "upsert"
      BY <2>1, <2>2, <2>7, <3>3 DEF Clearing, Raising
    <3> QED BY <3>1, <3>2, <3>3, StatementDesk
  <2>9. ASSUME NEW e \in Episodes, alerts'[e].by = d, Present(alerts'[e].is)
        PROVE  u.news[alerts'[e].is.alarm] # "none"
    <3>1. alerts'[e].is.alarm \in Alarms
      <4>1. alerts'[e].is \in EpisodeType
        BY <1>1, StatementRows DEF Row
      <4> QED BY <2>9, <4>1 DEF EpisodeType, NoEpisode, Present
    <3>2. t.news[alerts'[e].is.alarm] # "none"
      <4>1. CASE alerts'[e] = alerts[e]
        BY <1>3, <1>6, <2>9, <4>1 DEF Desk
      <4>2. CASE alerts'[e] # alerts[e]
        BY <1>3, <1>4, <1>6, <4>2 DEF Desk
      <4> QED BY <4>1, <4>2
    <3> QED BY <2>6, <3>1, <3>2
  <2>10. u.alone \subseteq u.about
    BY <1>3, <1>6, <2>3 DEF Desk
  <2> QED BY <1>6, <2>3, <2>4, <2>5, <2>8, <2>9, <2>10 DEF Desk, At
<1> QED BY <1>5, <1>6

LEMMA EndDeskInv ==
  ASSUME TypeInv, DeskInv, NEW d \in Deliveries, Commit(d) \/ Rollback(d)
  PROVE  DeskInv'
<1> SUFFICES ASSUME NEW x \in Deliveries PROVE Desk(x)'
  BY DEF DeskInv
<1>1. /\ tx'[d] = IdleTx /\ \A y \in Deliveries \ {d} : tx'[y] = tx[y]
  BY EndedType DEF Commit, Rollback
<1>2. ASSUME NEW e \in Episodes
      PROVE  alerts'[e].by # d /\ (alerts'[e].by \in Deliveries => alerts'[e] = alerts[e])
  <2>1. alerts[e] \in Row(EpisodeType)
    BY RowsOf
  <2> QED BY <2>1, EndedRow, AlertsAssumption DEF Commit, Rollback, Clean
<1>3. CASE x # d
  BY <1>1, <1>2, <1>3 DEF DeskInv, Desk, At, Alarm, Message
<1>4. CASE x = d
  BY <1>1, <1>2, <1>4
     DEF Desk, IdleTx, NoNews, At, Clearing, Raising
<1> QED BY <1>3, <1>4

LEMMA BeginDeskInv ==
  ASSUME TypeInv, DeskInv, NEW d \in Deliveries, NEW list \in Lists, Begin(d, list)
  PROVE  DeskInv'
<1> SUFFICES ASSUME NEW x \in Deliveries PROVE Desk(x)'
  BY DEF DeskInv
<1>1. UNCHANGED alerts /\ tx[d].pc = "idle"
  BY DEF Begin, tables, At
<1>2. CASE x # d
  <2>1. /\ tx'[x].pc = tx[x].pc /\ tx'[x].rest = tx[x].rest
        /\ tx'[x].news = tx[x].news /\ tx'[x].about = tx[x].about
        /\ tx'[x].alone \subseteq tx[x].alone
    BY <1>2, BegunType
  <2> QED BY <1>1, <2>1 DEF DeskInv, Desk, At, Alarm, Message
<1>3. CASE x = d
  <2>1. /\ tx'[d].pc = "record" /\ tx'[d].rest = list /\ tx'[d].news = NoNews
        /\ tx'[d].about = {list[k].alarm : k \in DOMAIN list}
        /\ tx'[d].alone \subseteq tx'[d].about
    BY BegunType
  <2>2. ASSUME NEW e \in Episodes, alerts[e].by = d, Present(alerts[e].is) PROVE FALSE
    BY <1>1, <2>2, WrittenAbout DEF DeskInv, Desk, At
  <2> QED BY <1>1, <1>3, <2>1, <2>2 DEF Desk, At, NoNews, Clearing, Raising
<1> QED BY <1>2, <1>3

-----------------------------------------------------------------------------
(***************************************************************************)
(* The last message decides.                                               *)
(***************************************************************************)

\* Nobody else has written about an alarm that only d is about.
LEMMA OthersAway ==
  ASSUME TypeInv, DeskInv, AloneInv, NEW d \in Deliveries, NEW a \in tx[d].alone
  PROVE  /\ \A x \in Deliveries \ {d} : a \notin tx[x].about
         /\ \A e \in Episodes : Present(alerts[e].is) /\ alerts[e].is.alarm = a
                                  => Free(d, alerts[e])
<1>1. \A x \in Deliveries \ {d} : a \notin tx[x].about
  BY DEF AloneInv
<1>2. ASSUME NEW e \in Episodes, Present(alerts[e].is), alerts[e].is.alarm = a
      PROVE  Free(d, alerts[e])
  <2>1. alerts[e].by \in Deliveries \cup {Nobody}
    BY RowsOf DEF Row
  <2> QED BY <1>1, <1>2, <2>1, WrittenAbout DEF Free
<1> QED BY <1>1, <1>2

\* A statement changes what fires of the alarm of its message only.
LEMMA OtherAlarms ==
  ASSUME TypeInv, NEW d \in Deliveries, Statement(d), NEW a, a # Alarm(d)
  PROVE  /\ Fires(a)' <=> Fires(a)
         /\ \A e \in Episodes : Present(alerts[e].is) /\ alerts[e].is.alarm = a
                                  => alerts'[e] = alerts[e]
<1>1. ASSUME NEW e \in Episodes
      PROVE  \/ alerts'[e] = alerts[e]
             \/ /\ alerts'[e].is.alarm = Alarm(d)
                /\ ~Present(alerts[e].is) \/ alerts[e].is.alarm = Alarm(d)
  BY StatementStatus DEF Restates, Closes, Inserts, Renews, Alters, Clean, NoEpisode, Present
<1>2. ASSUME NEW e \in Episodes, Present(alerts[e].is), alerts[e].is.alarm = a
      PROVE  alerts'[e] = alerts[e]
  BY <1>1, <1>2
<1>3. \A e \in Episodes : /\ Firing(alerts'[e].is) /\ alerts'[e].is.alarm = a
                          <=> Firing(alerts[e].is) /\ alerts[e].is.alarm = a
  BY <1>1, <1>2 DEF Firing, Present
<1> QED BY <1>2, <1>3 DEF Fires

LEMMA RestatesFires ==
  ASSUME NEW d \in Deliveries, Restates(d), NEW a
  PROVE  Fires(a)' <=> Fires(a)
<1>1. \A e \in Episodes : /\ Firing(alerts'[e].is) /\ alerts'[e].is.alarm = a
                          <=> Firing(alerts[e].is) /\ alerts[e].is.alarm = a
  BY DEF Restates, Renews, Alters, Firing
<1> QED BY <1>1 DEF Fires

\* The episode in hand is one of the alarm.
LEMMA HeldAlarm ==
  ASSUME TypeInv, NEW d \in Deliveries, tx[d].pc \in EpisodePCs
  PROVE  /\ tx[d].ep \in Episodes
         /\ Present(alerts[tx[d].ep].is) /\ alerts[tx[d].ep].is.alarm = Alarm(d)
<1>1. Holding(d) /\ tx[d].ep \in Episodes
  BY RowsOf DEF HandsOK, Delivery, TxType
<1>2. EpisodeRow(alerts[tx[d].ep])
  BY <1>1, RowsOf
<1> QED BY <1>1, <1>2 DEF Holding, EpisodeRow, Seen

\* The alarm of the message in hand, when d alone is about it.
LEMMA OwnNews ==
  ASSUME TypeInv, OneFires, DeskInv, AloneInv, NEW d \in Deliveries, Statement(d),
         Alarm(d) \in tx[d].alone, AsSaid(d, Alarm(d)), NEW a, a = Alarm(d)
  PROVE  /\ tx'[d].news[a] = "firing" /\ tx'[d].pc # "upsert" => Fires(a)'
         /\ tx'[d].news[a] = "resolved" /\ tx'[d].pc \notin {"find", "close"} => ~Fires(a)'
         /\ tx'[d].pc = "close" => Firing(alerts'[tx'[d].ep].is)
<1>1. tx[d].news[a] = "firing" /\ tx[d].pc # "upsert" => Fires(a)
  BY DEF AsSaid, At
<1>2. tx[d].news[a] = "resolved" /\ tx[d].pc \notin {"find", "close"} => ~Fires(a)
  BY DEF AsSaid
<1>3. tx[d].pc = "close" => Firing(alerts[tx[d].ep].is)
  BY DEF AsSaid, At
<1>4. /\ tx[d].pc \in Clearing => tx[d].news[a] = "resolved"
      /\ tx[d].pc \in Raising => tx[d].news[a] = "firing"
  BY DEF DeskInv, Desk
<1>5. /\ tx[d] \in TxType /\ tx \in [Deliveries -> TxType]
  BY RowsOf DEF TypeInv, TypeOK
<1>6. \A e \in Episodes : Present(alerts[e].is) /\ alerts[e].is.alarm = a => Free(d, alerts[e])
  BY OthersAway
<1>7. a \in Alarms
  BY StatementFrame, MessageType DEF TypeInv
<1>8. CASE Record(d)
  <2>1. UNCHANGED alerts /\ tx[d].pc = "record"
    BY <1>8 DEF Record, At
  <2>2. CASE tx'[d].news = tx[d].news /\ tx'[d].pc \in {"record", "commit"}
    BY <1>1, <1>2, <2>1, <2>2 DEF Fires
  <2>3. CASE /\ tx'[d].news = [tx[d].news EXCEPT ![a] = Message(d).status]
             /\ tx'[d].pc = IF Message(d).status = "resolved" THEN "find" ELSE "upsert"
    BY <1>5, <1>7, <2>3 DEF TxType
  <2> QED BY <2>1, <2>2, <2>3, StatementDesk DEF Clearing, Raising
<1>9. CASE Find(d)
  <2>1. UNCHANGED alerts /\ tx[d].pc = "find" /\ tx[d].news[a] = "resolved"
    BY <1>4, <1>9 DEF Find, tables, At, Clearing
  <2>2. \A e \in Episodes : Firing(alerts[e].is) /\ alerts[e].is.alarm = a
                              => e \in OpenEpisodes(d, a)
    BY <1>6, RowsOf, SeenFree DEF OpenEpisodes, EpisodesOf, Firing, Present
  <2>3. CASE OpenEpisodes(d, a) = {} /\ Advance(d)
    <3>1. ~Fires(a)
      BY <2>2, <2>3 DEF Fires
    <3>2. tx'[d].news = tx[d].news /\ tx'[d].pc \in {"record", "commit"}
      BY <2>1, <2>3, AdvanceStep, StatementDesk DEF TypeInv
    <3> QED BY <2>1, <3>1, <3>2 DEF Fires
  <2>4. ASSUME NEW e \in OpenEpisodes(d, a),
               tx' = [tx EXCEPT ![d].pc = "close", ![d].ep = e, ![d].inc = Seen(d, alerts[e]).inc]
        PROVE  tx'[d].pc = "close" /\ tx'[d].news = tx[d].news /\ Firing(alerts'[tx'[d].ep].is)
    <3>1. tx'[d].pc = "close" /\ tx'[d].ep = e /\ tx'[d].news = tx[d].news
      BY <1>5, <2>4 DEF TxType
    <3>2. e \in Episodes /\ Firing(Seen(d, alerts[e])) /\ Seen(d, alerts[e]).alarm = a
      BY <2>4 DEF OpenEpisodes, EpisodesOf, Firing
    <3>3. EpisodeRow(alerts[e])
      BY <3>2, RowsOf
    <3>4. Present(alerts[e].is) /\ alerts[e].is.alarm = a
      BY <3>2, <3>3 DEF EpisodeRow, Seen, Present, Firing
    <3>5. Seen(d, alerts[e]) = alerts[e].is
      BY <1>6, <3>2, <3>3, <3>4, SeenFree
    <3> QED BY <2>1, <3>1, <3>2, <3>5
  <2>5. \/ OpenEpisodes(d, a) = {} /\ Advance(d)
        \/ \E e \in OpenEpisodes(d, a) :
             tx' = [tx EXCEPT ![d].pc = "close", ![d].ep = e, ![d].inc = Seen(d, alerts[e]).inc]
    BY <1>9 DEF Find
  <2>6. CASE \E e \in OpenEpisodes(d, a) :
             tx' = [tx EXCEPT ![d].pc = "close", ![d].ep = e, ![d].inc = Seen(d, alerts[e]).inc]
    <3>1. tx'[d].pc = "close" /\ tx'[d].news = tx[d].news /\ Firing(alerts'[tx'[d].ep].is)
      BY <2>4, <2>6
    <3> QED BY <2>1, <3>1
  <2> QED BY <2>3, <2>5, <2>6
<1>10. CASE Close(d)
  <2> DEFINE e == tx[d].ep
  <2>1. tx[d].pc = "close" /\ tx[d].news[a] = "resolved" /\ tx'[d].news = tx[d].news
    BY <1>4, <1>10, StatementDesk DEF Close, At, Clearing
  <2>2. tx'[d].pc \in {"judge", "record", "commit"}
    <3>1. CASE Advance(d)
      BY <2>1, <3>1, AdvanceStep DEF TypeInv
    <3>2. CASE Goto(d, "judge")
      BY <1>5, <3>2 DEF Goto, TxType
    <3> QED BY <1>10, <3>1, <3>2 DEF Close
  <2>3. /\ alerts'[e].is.status = "resolved" /\ Firing(alerts[e].is)
        /\ Present(alerts[e].is) /\ alerts[e].is.alarm = a /\ e \in Episodes
        /\ \A f \in Episodes \ {e} : alerts'[f] = alerts[f]
    BY <1>3, <1>10, <2>1, CloseRow DEF Closes, Renews, Alters
  <2>4. ASSUME NEW f \in Episodes, Firing(alerts'[f].is), alerts'[f].is.alarm = a PROVE FALSE
    <3>1. f # e
      BY <2>3, <2>4 DEF Firing
    <3>2. alerts'[f] = alerts[f]
      BY <2>3, <3>1
    <3>3. Alike(e, f)
      BY <2>3, <2>4, <3>1, <3>2 DEF Alike, Firing, Present
    <3> QED BY <2>3, <2>4, <3>2, <3>3 DEF OneFires
  <2>5. ~Fires(a)'
    BY <2>4 DEF Fires
  <2> QED BY <2>1, <2>2, <2>5
<1>11. CASE Judge(d) \/ Resolve(d) \/ Reuse(d) \/ Apply(d) \/ Reopen(d)
  <2>1. /\ tx[d].pc \in {"judge", "resolve", "reuse", "apply", "reopen"}
    BY <1>11 DEF Judge, Resolve, Reuse, Apply, Reopen, At
  <2>2. Restates(d) /\ tx'[d].news = tx[d].news
    BY <2>1, StatementStatus, StatementDesk DEF At
  <2>3. Fires(a)' <=> Fires(a)
    BY <2>2, RestatesFires
  <2>4. tx'[d].pc # "close"
    <3>1. CASE Advance(d)
      BY <2>1, <3>1, AdvanceStep DEF TypeInv
    <3>2. ASSUME NEW pc \in {"resolve", "apply"}, Goto(d, pc) PROVE tx'[d].pc = pc
      BY <1>5, <3>2 DEF Goto, TxType
    <3>3. ASSUME Reuse(d) PROVE tx'[d].pc \in Raising \cup {"record", "commit"}
      BY <2>1, <3>3, StatementDesk DEF Reuse, At, Clearing
    <3> QED BY <1>11, <3>1, <3>2, <3>3 DEF Judge, Resolve, Apply, Reopen, Raising
  <2> QED BY <1>1, <1>2, <2>1, <2>2, <2>3, <2>4
<1>12. CASE Upsert(d)
  <2>1. tx[d].pc = "upsert" /\ tx[d].news[a] = "firing" /\ tx'[d].news = tx[d].news
    BY <1>4, <1>12, StatementDesk DEF Upsert, At, Raising
  <2>2. tx'[d].pc \in Raising \cup {"record", "commit"}
    BY <2>1, StatementDesk DEF Clearing
  <2>3. Fires(a)'
    BY <1>12, UpsertRow DEF SeesAgain, Inserts, Renews, Alters, Fires
  <2> QED BY <2>1, <2>2, <2>3 DEF Raising
<1> QED BY <1>8, <1>9, <1>10, <1>11, <1>12 DEF Statement

LEMMA StatementNewsInv ==
  ASSUME TypeInv, OneFires, DeskInv, AloneInv, NewsInv, NEW d \in Deliveries, Statement(d)
  PROVE  NewsInv'
<1>1. /\ tx'[d].alone = tx[d].alone /\ \A y \in Deliveries \ {d} : tx'[y] = tx[y]
  BY StatementDesk, StatementStep, DeliveriesType DEF Orderly, Moves
<1>2. Alarm(d) \in tx[d].about
  BY StatementFrame, MessageAbout
<1> SUFFICES ASSUME NEW x \in Deliveries, NEW a \in tx'[x].alone PROVE AsSaid(x, a)'
  BY DEF NewsInv
<1>3. a \in tx[x].alone /\ AsSaid(x, a)
  BY <1>1 DEF NewsInv
<1>4. CASE x # d
  <2>1. a # Alarm(d) /\ tx'[x] = tx[x]
    BY <1>1, <1>2, <1>3, <1>4, OthersAway
  <2>2. Fires(a)' <=> Fires(a)
    BY <2>1, OtherAlarms
  <2>3. ASSUME At(x, "close"), Alarm(x) = a
        PROVE  Firing(alerts'[tx'[x].ep].is)
    <3>1. alerts'[tx[x].ep] = alerts[tx[x].ep]
      BY <2>1, <2>3, HeldAlarm, OtherAlarms DEF At, EpisodePCs
    <3> QED BY <1>3, <2>1, <2>3, <3>1 DEF AsSaid
  <2> QED BY <1>3, <2>1, <2>2, <2>3 DEF AsSaid, At, Alarm, Message
<1>5. CASE x = d /\ a = Alarm(d)
  <2>1. /\ tx'[d].news[a] = "firing" /\ tx'[d].pc # "upsert" => Fires(a)'
        /\ tx'[d].news[a] = "resolved" /\ tx'[d].pc \notin {"find", "close"} => ~Fires(a)'
        /\ tx'[d].pc = "close" => Firing(alerts'[tx'[d].ep].is)
    BY <1>3, <1>5, OwnNews
  <2>2. tx'[d].pc \in {"upsert", "find", "close"} => Alarm(d)' = a
    BY <1>5, StatementDesk DEF Alarm, Message, Clearing, Raising
  <2> QED BY <1>5, <2>1, <2>2 DEF AsSaid, At
<1>6. CASE x = d /\ a # Alarm(d)
  <2>1. Fires(a)' <=> Fires(a)
    BY <1>6, OtherAlarms
  <2>2. tx'[d].news[a] = tx[d].news[a]
    <3>1. tx[d].news \in [Alarms -> {"none", "firing", "resolved"}] /\ a \in Alarms
      BY <1>3, <1>6, RowsOf DEF TxType
    <3> QED BY <1>6, <3>1, StatementDesk
  <2>3. tx'[d].pc = "close" => Alarm(d)' # a
    BY <1>6, StatementDesk DEF Alarm, Message, Raising
  <2>4. /\ tx[d].news[a] = "firing" => Fires(a)
        /\ tx[d].news[a] = "resolved" => ~Fires(a)
    BY <1>3, <1>6 DEF AsSaid
  <2> QED BY <1>6, <2>1, <2>2, <2>3, <2>4 DEF AsSaid, At
<1> QED BY <1>4, <1>5, <1>6

LEMMA EndNewsInv ==
  ASSUME TypeInv, DeskInv, AloneInv, NewsInv, NEW d \in Deliveries, Commit(d) \/ Rollback(d)
  PROVE  NewsInv'
<1>1. /\ tx'[d] = IdleTx /\ \A y \in Deliveries \ {d} : tx'[y] = tx[y]
  BY EndedType DEF Commit, Rollback
<1> SUFFICES ASSUME NEW x \in Deliveries, NEW a \in tx'[x].alone PROVE AsSaid(x, a)'
  BY DEF NewsInv
<1>2. x # d /\ tx'[x] = tx[x] /\ a \in tx[x].alone /\ AsSaid(x, a)
  BY <1>1 DEF IdleTx, NewsInv
<1>3. a \notin tx[d].about
  BY <1>2, OthersAway
<1>4. ASSUME NEW e \in Episodes
      PROVE  /\ Present(alerts[e].is) /\ alerts[e].is.alarm = a => alerts'[e].is = alerts[e].is
             /\ Present(alerts'[e].is) /\ alerts'[e].is.alarm = a => alerts'[e].is = alerts[e].is
  <2>1. alerts[e] \in Row(EpisodeType) /\ EpisodeRow(alerts[e])
    BY RowsOf
  <2>2. CASE alerts[e].by # d
    BY <2>1, <2>2, EndedRow DEF Commit, Rollback
  <2>3. CASE alerts[e].by = d
    <3>1. Present(alerts[e].is) => alerts[e].is.alarm # a
      BY <1>3, <2>3, WrittenAbout
    <3>2. alerts'[e].is \in {alerts[e].is, alerts[e].was}
      BY <2>1, <2>3, EndedRow DEF Commit, Rollback, Clean
    <3> QED BY <2>1, <3>1, <3>2 DEF EpisodeRow
  <2> QED BY <2>2, <2>3
<1>5. Fires(a)' <=> Fires(a)
  <2>1. \A e \in Episodes : /\ Firing(alerts'[e].is) /\ alerts'[e].is.alarm = a
                            <=> Firing(alerts[e].is) /\ alerts[e].is.alarm = a
    BY <1>4 DEF Firing, Present
  <2> QED BY <2>1 DEF Fires
<1>6. ASSUME At(x, "close"), Alarm(x) = a PROVE Firing(alerts'[tx'[x].ep].is)
  <2>1. alerts'[tx[x].ep].is = alerts[tx[x].ep].is
    BY <1>4, <1>6, HeldAlarm DEF At, EpisodePCs
  <2> QED BY <1>2, <1>6, <2>1 DEF AsSaid
<1> QED BY <1>2, <1>5, <1>6 DEF AsSaid, At, Alarm, Message

LEMMA BeginNewsInv ==
  ASSUME TypeInv, NewsInv, AloneInv, DeskInv, NEW d \in Deliveries, NEW list \in Lists, Begin(d, list)
  PROVE  NewsInv' /\ AloneInv'
<1>1. UNCHANGED alerts
  BY DEF Begin, tables
<1>2. NewsInv'
  <2> SUFFICES ASSUME NEW x \in Deliveries, NEW a \in tx'[x].alone PROVE AsSaid(x, a)'
    BY DEF NewsInv
  <2>1. CASE x = d
    <3>1. tx'[d].pc = "record" /\ tx'[d].news = NoNews /\ a \in Alarms
      BY <2>1, BegunType DEF TxType
    <3> QED BY <2>1, <3>1 DEF AsSaid, NoNews, At
  <2>2. CASE x # d
    <3>1. /\ a \in tx[x].alone /\ tx'[x].pc = tx[x].pc /\ tx'[x].rest = tx[x].rest
          /\ tx'[x].ep = tx[x].ep /\ tx'[x].news = tx[x].news
      BY <2>2, BegunType
    <3>2. AsSaid(x, a)
      BY <3>1 DEF NewsInv
    <3> QED BY <1>1, <3>1, <3>2 DEF AsSaid, At, Alarm, Message, Fires
  <2> QED BY <2>1, <2>2
<1>3. AloneInv'
  <2> SUFFICES ASSUME NEW x \in Deliveries, NEW y \in Deliveries, x # y
               PROVE  tx'[x].alone \cap tx'[y].about = {}
    BY DEF AloneInv
  <2>1. CASE x = d
    BY <2>1, BegunType
  <2>2. CASE y = d
    BY <2>2, BegunType
  <2>3. CASE x # d /\ y # d
    BY <2>3, BegunType DEF AloneInv
  <2> QED BY <2>1, <2>2, <2>3
<1> QED BY <1>2, <1>3

\* What is left of an alarm that only d has been about.
LEMMA CommitDecides ==
  ASSUME LastInv, NEW d \in Deliveries, Commit(d)
  PROVE  LastMessageDecides'
<1>1. TypeInv /\ DeskInv /\ AloneInv /\ NewsInv /\ LastMessageDecides /\ tx[d].pc = "commit"
  BY DEF LastInv, Commit, At
<1> SUFFICES ASSUME NEW a \in Alarms, settled'[a] # "unknown"
             PROVE  (settled'[a] = "firing") <=>
                      \E e \in Episodes : alerts'[e].was.status = "firing" /\ alerts'[e].was.alarm = a
  BY DEF LastMessageDecides
<1>2. settled'[a] = Settles(d, a)
  BY DEF Commit
<1>3. ASSUME NEW e \in Episodes
      PROVE  /\ alerts[e] \in Row(EpisodeType) /\ EpisodeRow(alerts[e])
             /\ alerts'[e].was = Seen(d, alerts[e])
  BY <1>1, RowsOf, EndedRow DEF Commit
<1>4. CASE tx[d].news[a] = "none"
  <2>1. settled'[a] = settled[a]
    BY <1>2, <1>4 DEF Settles
  <2>2. ASSUME NEW e \in Episodes
        PROVE  /\ alerts'[e].was.status = "firing" /\ alerts'[e].was.alarm = a
               <=> alerts[e].was.status = "firing" /\ alerts[e].was.alarm = a
    <3>1. CASE alerts[e].by = d
      <4>1. Present(alerts[e].is) => alerts[e].is.alarm # a
        BY <1>1, <1>4, <3>1 DEF DeskInv, Desk
      <4> QED BY <1>3, <3>1, <4>1 DEF Seen, EpisodeRow, Present
    <3>2. CASE alerts[e].by # d
      BY <1>3, <3>2 DEF Seen
    <3> QED BY <3>1, <3>2
  <2> QED BY <1>1, <2>1, <2>2 DEF LastMessageDecides
<1>5. CASE tx[d].news[a] # "none"
  <2>1. a \in tx[d].alone /\ settled'[a] = tx[d].news[a]
    BY <1>2, <1>5 DEF Settles
  <2>2. tx[d].news[a] \in {"firing", "resolved"}
    BY <1>1, <1>5, RowsOf DEF TxType
  <2>3. settled'[a] = "firing" <=> Fires(a)
    BY <1>1, <2>1, <2>2 DEF NewsInv, AsSaid, At
  <2>4. ASSUME NEW e \in Episodes
        PROVE  /\ alerts'[e].was.status = "firing" /\ alerts'[e].was.alarm = a
               <=> Firing(alerts[e].is) /\ alerts[e].is.alarm = a
    <3>1. CASE Free(d, alerts[e])
      BY <1>3, <3>1, SeenFree DEF Firing
    <3>2. CASE ~Free(d, alerts[e])
      <4>1. ~(Present(alerts[e].is) /\ alerts[e].is.alarm = a)
        BY <1>1, <2>1, <3>2, OthersAway
      <4> QED BY <1>3, <3>2, <4>1 DEF Seen, Free, EpisodeRow, Present, Firing
    <3> QED BY <3>1, <3>2
  <2> QED BY <2>3, <2>4 DEF Fires
<1> QED BY <1>4, <1>5

\* Everything that LastInv says, when no row and no delivery changes.
LEMMA AsideLastInv ==
  ASSUME LastInv, TypeInv', UNCHANGED <<alerts, tx, settled>>
  PROVE  LastInv'
BY DEF LastInv, OneFires, Alike, DeskInv, Desk, AloneInv, NewsInv, AsSaid, Fires,
       LastMessageDecides, At, Alarm, Message

\* A resolved message closes the episode of its alarm, and a firing one opens it:
\* an alarm has an open episode exactly if the last new message about it was
\* firing, however often messages are repeated, delivered out of order or rolled
\* back, unless two deliveries were about it at once.
THEOREM AlertLastMessageDecides == Spec => []LastMessageDecides
<1>1. Init => LastInv
  <2> SUFFICES ASSUME Init PROVE LastInv
    OBVIOUS
  <2>1. /\ \A e \in Episodes : alerts[e] = Clean(NoEpisode)
        /\ \A d \in Deliveries : tx[d] = IdleTx
        /\ \A a \in Alarms : settled[a] = "resolved"
    BY DEF Init
  <2>2. OneFires
    BY <2>1 DEF OneFires, Alike, Clean, NoEpisode, Present
  <2>3. DeskInv /\ AloneInv /\ NewsInv
    BY <2>1, AlertsAssumption
       DEF DeskInv, Desk, AloneInv, NewsInv, IdleTx, NoNews, At, Clearing, Raising, Clean
  <2>4. LastMessageDecides
    BY <2>1 DEF LastMessageDecides, Clean, NoEpisode
  <2> QED BY <2>2, <2>3, <2>4, InitTypeInv DEF LastInv
<1>2. LastInv /\ [Next]_vars => LastInv'
  <2> SUFFICES ASSUME LastInv, [Next]_vars PROVE LastInv'
    OBVIOUS
  <2>1. TypeInv /\ OneFires /\ DeskInv /\ AloneInv /\ NewsInv /\ LastMessageDecides
    BY DEF LastInv
  <2>2. TypeInv'
    BY <2>1, NextTypeInv
  <2>3. ASSUME NEW d \in Deliveries, Statement(d) PROVE LastInv'
    <3>1. AloneInv'
      <4>1. /\ tx'[d].alone = tx[d].alone /\ tx'[d].about = tx[d].about
            /\ \A y \in Deliveries \ {d} : tx'[y] = tx[y]
        BY <2>1, <2>3, StatementDesk, StatementStep, DeliveriesType DEF Orderly, Moves
      <4> QED BY <2>1, <4>1 DEF AloneInv
    <3>2. LastMessageDecides'
      <4>1. UNCHANGED settled /\ \A e \in Episodes : alerts'[e].was = alerts[e].was
        BY <2>1, <2>3, StatementFrame, StatementStep, StatementRows
      <4> QED BY <2>1, <4>1 DEF LastMessageDecides
    <3> QED BY <2>1, <2>2, <2>3, <3>1, <3>2, StatementOneFires, StatementDeskInv, StatementNewsInv
            DEF LastInv
  <2>4. ASSUME NEW d \in Deliveries, Commit(d) \/ Rollback(d)
        PROVE  OneFires' /\ DeskInv' /\ AloneInv' /\ NewsInv'
    <3>1. /\ tx'[d] = IdleTx /\ \A y \in Deliveries \ {d} : tx'[y] = tx[y]
      BY <2>1, <2>4, EndedType DEF Commit, Rollback
    <3>2. AloneInv'
      BY <2>1, <3>1 DEF AloneInv, IdleTx
    <3> QED BY <2>1, <2>4, <3>2, CommitOneFires, RollbackOneFires, EndDeskInv, EndNewsInv
  <2>5. ASSUME NEW d \in Deliveries, Commit(d) PROVE LastInv'
    BY <2>2, <2>4, <2>5, CommitDecides DEF LastInv
  <2>6. ASSUME NEW d \in Deliveries, Rollback(d) PROVE LastInv'
    <3>1. UNCHANGED settled /\ \A e \in Episodes : alerts'[e].was = alerts[e].was
      BY <2>1, <2>6, RowsOf, EndedRow DEF Rollback, history
    <3>2. LastMessageDecides'
      BY <2>1, <3>1 DEF LastMessageDecides
    <3> QED BY <2>2, <2>4, <2>6, <3>2 DEF LastInv
  <2>7. ASSUME NEW d \in Deliveries, NEW list \in Lists, Begin(d, list) PROVE LastInv'
    <3>1. OneFires' /\ LastMessageDecides'
      BY <2>1, <2>7 DEF Begin, tables, history, OneFires, Alike, LastMessageDecides
    <3> QED BY <2>1, <2>2, <2>7, <3>1, BeginDeskInv, BeginNewsInv DEF LastInv
  <2>8. ASSUME UNCHANGED <<alerts, tx, settled>> PROVE LastInv'
    BY <2>2, <2>8, AsideLastInv
  <2>9. ASSUME UNCHANGED vars PROVE UNCHANGED <<alerts, tx, settled>>
    BY <2>9 DEF vars, tables, history
  <2> QED BY <2>3, <2>5, <2>6, <2>7, <2>8, <2>9
          DEF Next, Abort, BreakDeadlock, Comment, SetStatus, Window, tables, history
<1>3. LastInv => LastMessageDecides
  BY DEF LastInv
<1> QED BY <1>1, <1>2, <1>3, PTL DEF Spec

-----------------------------------------------------------------------------
(***************************************************************************)
(* An alarm that comes back is given the incident it had.                  *)
(***************************************************************************)

\* Of things that are stamped with numbers up to a bound, one is the latest.
LEMMA LatestOf ==
  ASSUME NEW S, NEW f \in [S -> Nat], NEW b \in Nat, S # {}, \A x \in S : f[x] <= b
  PROVE  \E x \in S : \A y \in S : f[y] <= f[x]
<1> DEFINE T == {b - f[x] : x \in S}
           R == OpToRel(<, Nat)
<1>1. \A x \in S : f[x] \in Nat /\ b - f[x] \in Nat
  OBVIOUS
<1>2. T \subseteq Nat /\ T # {}
  BY <1>1
<1>3. \E m \in T : \A n \in T : ~(<<n, m>> \in R)
  <2>1. IsWellFoundedOn(R, Nat)
    BY NatLessThanWellFounded
  <2> HIDE DEF T, R
  <2> QED BY <1>2, <2>1, WFMin
<1>4. PICK m \in T : \A n \in T : ~(<<n, m>> \in R)
  BY <1>3
<1>5. PICK x \in S : m = b - f[x]
  BY <1>4
<1>6. ASSUME NEW y \in S PROVE f[y] <= f[x]
  <2>1. ~(<<b - f[y], m>> \in R)
    BY <1>4
  <2>2. ~(b - f[y] < m)
    BY <1>1, <1>2, <2>1 DEF OpToRel
  <2> QED BY <1>1, <1>5, <2>2
<1> QED BY <1>6

\* The statements that write to an episode, and what else they do.
LEMMA StatementCases ==
  ASSUME TypeInv, NEW d \in Deliveries, Statement(d)
  PROVE  \/ UNCHANGED <<alerts, disturbed>>
         \/ Closes(d)
         \/ /\ SlotIsFree(d, Alarm(d))
            /\ \E e \in Episodes : /\ SeesAgain(d, e) \/ Inserts(d, e)
                                   /\ alerts'[e].is.seen = tx[d].start
                                   /\ Disturb(d, Alarm(d), e)
         \/ /\ UNCHANGED disturbed
            /\ \/ \E i \in Reusable(d, Alarm(d), tx[d].ep) : Links(d, i)
               \/ /\ At(d, "apply") /\ Alarm(d) \notin covered
                  /\ \E i \in Incidents : Links(d, i)
<1>1. CASE Record(d) \/ Find(d) \/ Judge(d) \/ Resolve(d) \/ Reopen(d)
  BY <1>1, OtherRows
<1>2. CASE Close(d)
  BY <1>2, CloseRow
<1>3. CASE Upsert(d)
  BY <1>3, UpsertRow
<1>4. CASE Reuse(d)
  BY <1>4, ReuseRow DEF Reuse, history
<1>5. CASE Apply(d)
  BY <1>5, ApplyRow DEF Apply, history, At
<1> QED BY <1>1, <1>2, <1>3, <1>4, <1>5 DEF Statement

\* An episode that is over is resolved, and everybody sees it.
LEMMA OverRow ==
  ASSUME TypeInv, NEW e \in Episodes, Over(e), NEW d \in Deliveries
  PROVE  /\ alerts[e].is.status = "resolved" /\ Seen(d, alerts[e]) = alerts[e].is
         /\ Present(alerts[e].is) /\ alerts[e].by # d /\ Free(d, alerts[e])
<1>1. EpisodeRow(alerts[e])
  BY RowsOf
<1> QED BY <1>1, AlertsAssumption DEF Over, EpisodeRow, Seen, Free, Present

\* When nothing is overtaken, the episode that is written to was not over, and
\* everything else that is known of its alarm is over and was seen before it.
LEMMA LatestWritten ==
  ASSUME TypeInv, StampInv, OverInv, NEW d \in Deliveries, Statement(d),
         NEW g \in Episodes, alerts'[g] # alerts[g], Calm(g)'
  PROVE  /\ Alters(d, g) /\ ~Over(g) /\ Alarm(d) \notin disturbed
         /\ alerts[g].was.status # "resolved"
         /\ alerts'[g].is.seen = tx[d].start
         /\ \A f \in Episodes \ {g} :
              Present(alerts[f].is) /\ alerts[f].is.alarm = Alarm(d) =>
                /\ Over(f)
                /\ alerts[f].is.seen < tx[d].start
                /\ Present(alerts[g].was) => alerts[f].is.seen < alerts[g].was.seen
         /\ \/ alerts'[g].is.inc = NoIncident
            \/ Renews(d, g) /\ alerts'[g].is.inc = alerts[g].is.inc
            \/ g = tx[d].ep /\ \E i \in Incidents : Links(d, i)
<1>1. EpisodeRow(alerts[g]) /\ disturbed \subseteq disturbed' /\ alerts[g] \in Row(EpisodeType)
  BY RowsOf, StatementCases DEF Closes, Disturb
<1>2. ASSUME NEW f \in Episodes \ {g}, Renews(d, g), ~Over(g), Alarm(d) \notin disturbed,
             Present(alerts[f].is), alerts[f].is.alarm = Alarm(d)
      PROVE  /\ Over(f) /\ alerts[f].is.seen < alerts[g].is.seen
             /\ Present(alerts[g].was) => alerts[f].is.seen < alerts[g].was.seen
  BY <1>2 DEF OverInv, Calm, Alike, Renews
<1>3. CASE Closes(d) \/ \E e \in Episodes : SeesAgain(d, e) /\ alerts'[e].is.seen = tx[d].start
                                            /\ Disturb(d, Alarm(d), e)
  <2>1. /\ Renews(d, g) /\ Alters(d, g) /\ Disturb(d, Alarm(d), g)
        /\ alerts'[g].is.inc = alerts[g].is.inc /\ alerts'[g].is.seen = tx[d].start
    BY <1>3 DEF Closes, SeesAgain, Renews, Alters
  <2>2. Alarm(d) \notin disturbed /\ ~Overtakes(d, Alarm(d), g)
    BY <2>1 DEF Calm, Alters, Disturb
  <2>3. ~Over(g) /\ alerts[g].was.status # "resolved"
    BY <1>1, <2>2 DEF Overtakes, Over, EpisodeRow, Present
  <2>4. ASSUME NEW f \in Episodes \ {g}, Present(alerts[f].is), alerts[f].is.alarm = Alarm(d)
        PROVE  alerts[f].is.seen < tx[d].start
    <3>1. Over(f)
      BY <1>2, <2>1, <2>2, <2>3, <2>4
    <3>2. Seen(d, alerts[f]) = alerts[f].is
      BY <3>1, OverRow
    <3>3. f \in EpisodesOf(d, Alarm(d)) \ {g}
      BY <2>4, <3>2 DEF EpisodesOf, Present
    <3>4. ~(alerts[f].is.seen >= tx[d].start)
      BY <2>2, <3>2, <3>3 DEF Overtakes
    <3>5. alerts[f].is \in EpisodeType /\ tx[d].start \in Nat
      BY RowsOf DEF Row, TxType
    <3>6. alerts[f].is.seen \in Nat
      BY <2>4, <3>5 DEF EpisodeType, NoEpisode, Present
    <3> QED BY <3>4, <3>5, <3>6
  <2> QED BY <1>2, <2>1, <2>2, <2>3, <2>4
<1>4. CASE /\ SlotIsFree(d, Alarm(d))
           /\ \E e \in Episodes : Inserts(d, e) /\ alerts'[e].is.seen = tx[d].start
                                  /\ Disturb(d, Alarm(d), e)
  <2>1. /\ Inserts(d, g) /\ Alters(d, g) /\ Disturb(d, Alarm(d), g)
        /\ alerts'[g].is.inc = NoIncident /\ alerts'[g].is.seen = tx[d].start
        /\ OpenEpisodes(d, Alarm(d)) = {} /\ alerts[g] = Clean(NoEpisode)
    BY <1>4 DEF Inserts, Alters
  <2>2. Alarm(d) \notin disturbed /\ ~Overtakes(d, Alarm(d), g)
    BY <2>1 DEF Calm, Alters, Disturb
  <2>3. ~Over(g) /\ alerts[g].was.status # "resolved" /\ ~Present(alerts[g].was)
    BY <2>1 DEF Over, Clean, NoEpisode, Present
  <2>4. ASSUME NEW f \in Episodes \ {g}, Present(alerts[f].is), alerts[f].is.alarm = Alarm(d)
        PROVE  Over(f) /\ alerts[f].is.seen < tx[d].start
    <3>1. alerts[f] \in Row(EpisodeType) /\ EpisodeRow(alerts[f]) /\ tx[d].start \in Nat
      BY RowsOf DEF TxType
    <3>2. alerts[f].is.status = "resolved" /\ alerts[f].is.seen \in Nat
      <4>1. ~Firing(alerts[f].is)
        BY <1>4, <2>1, <2>4, NothingOpen
      <4>2. alerts[f].is \in EpisodeType
        BY <3>1 DEF Row
      <4> QED BY <2>4, <4>1, <4>2 DEF EpisodeType, NoEpisode, Present, Firing
    <3>3. ASSUME Free(d, alerts[f]) PROVE alerts[f].is.seen < tx[d].start
      <4>1. Seen(d, alerts[f]) = alerts[f].is
        BY <3>1, <3>3, SeenFree
      <4>2. f \in EpisodesOf(d, Alarm(d)) \ {g}
        BY <2>4, <4>1 DEF EpisodesOf, Present
      <4> QED BY <2>2, <3>1, <3>2, <4>1, <4>2 DEF Overtakes
    <3>4. alerts[f].by # d
      <4> SUFFICES ASSUME alerts[f].by = d PROVE FALSE
        OBVIOUS
      <4>1. alerts[f].is.seen = tx[d].start
        BY DEF StampInv
      <4> QED BY <3>1, <3>3, <4>1 DEF Free
    <3>5. Free(d, alerts[f])
      <4> SUFFICES ASSUME ~Free(d, alerts[f]) PROVE FALSE
        OBVIOUS
      <4>1. alerts[f].was.status = "resolved"
        BY <1>4, <2>4 DEF SlotIsFree, OpenWriters
      <4>2. alerts[f].by # Nobody
        BY DEF Free
      <4> QED BY <2>2, <2>4, <4>1, <4>2 DEF OverInv, Calm
    <3>6. Over(f)
      BY <3>1, <3>2, <3>4, <3>5 DEF Over, Free, EpisodeRow
    <3> QED BY <3>3, <3>5, <3>6
  <2> QED BY <2>1, <2>2, <2>3, <2>4
<1>5. ASSUME NEW i \in Incidents, Links(d, i), UNCHANGED disturbed
      PROVE  /\ g = tx[d].ep /\ Alters(d, g) /\ ~Over(g) /\ Alarm(d) \notin disturbed
             /\ alerts[g].was.status # "resolved"
             /\ alerts'[g].is.seen = tx[d].start
             /\ \A f \in Episodes \ {g} :
                  Present(alerts[f].is) /\ alerts[f].is.alarm = Alarm(d) =>
                    /\ Over(f)
                    /\ alerts[f].is.seen < tx[d].start
                    /\ Present(alerts[g].was) => alerts[f].is.seen < alerts[g].was.seen
  <2>1. /\ g = tx[d].ep /\ Renews(d, g) /\ Alters(d, g) /\ alerts[g].by = d
        /\ alerts'[g].is.seen = alerts[g].is.seen
    BY <1>5 DEF Links, Renews, Alters
  <2>2. Alarm(d) \notin disturbed /\ ~Over(g)
    BY <1>5, <2>1, AlertsAssumption DEF Calm, Alters, Over
  <2>3. alerts[g].is.seen = tx[d].start
    BY <2>1 DEF StampInv
  <2>4. alerts[g].was.status # "resolved"
    BY <2>1, <2>2, AlertsAssumption DEF OverInv, Calm, Renews
  <2> QED BY <1>2, <2>1, <2>2, <2>3, <2>4
<1>6. CASE \E i \in Incidents : Links(d, i) /\ UNCHANGED disturbed
  BY <1>5, <1>6
<1>7. \A i : Links(d, i) => i \in Incidents
  BY DEF Links
<1> QED BY <1>3, <1>4, <1>6, <1>7, StatementCases

LEMMA StatementOver ==
  ASSUME TypeInv, StampInv, OverInv, NEW d \in Deliveries, Statement(d)
  PROVE  StampInv' /\ OverInv' /\ disturbed \subseteq disturbed'
<1>1. Orderly(d) /\ \A y \in Deliveries \ {d} : tx'[y] = tx[y]
  BY StatementStep, DeliveriesType DEF Orderly, Moves
<1>2. disturbed \subseteq disturbed'
  BY StatementCases DEF Closes, Disturb
<1>3. tx'[d].start = tx[d].start /\ tx'[d].pc # "idle"
  BY StatementDesk
<1>4. StampInv'
  <2> SUFFICES ASSUME NEW x \in Deliveries, NEW e \in Episodes, alerts'[e].by = x
               PROVE  /\ tx'[x].pc # "idle" /\ Present(alerts'[e].is)
                      /\ alerts'[e].is.seen = tx'[x].start
    BY DEF StampInv, At
  <2>1. CASE alerts'[e] = alerts[e]
    BY <1>1, <1>3, <2>1 DEF StampInv, At
  <2>2. CASE alerts'[e] # alerts[e]
    <3>1. x = d
      BY <1>1, <2>2, StatementRows
    <3>2. CASE UNCHANGED alerts
      BY <2>2, <3>2
    <3>3. CASE Closes(d)
      BY <1>3, <2>2, <3>1, <3>3 DEF Closes, Renews, Alters
    <3>4. CASE \E g \in Episodes : /\ SeesAgain(d, g) \/ Inserts(d, g)
                                   /\ alerts'[g].is.seen = tx[d].start
      BY <1>3, <2>2, <3>1, <3>4 DEF SeesAgain, Inserts, Renews, Alters
    <3>5. CASE \E i : Links(d, i)
      BY <1>3, <2>2, <3>1, <3>5 DEF Links, Renews, Alters, StampInv
    <3> QED BY <3>2, <3>3, <3>4, <3>5, StatementCases
  <2> QED BY <2>1, <2>2
<1>5. ASSUME NEW e \in Episodes, Calm(e)', alerts'[e].by # Nobody
      PROVE  alerts'[e].was.status # "resolved"
  <2>1. CASE alerts'[e] = alerts[e]
    BY <1>2, <1>5, <2>1 DEF OverInv, Calm
  <2>2. CASE alerts'[e] # alerts[e]
    BY <1>5, <2>2, LatestWritten DEF Alters
  <2> QED BY <2>1, <2>2
<1>6. ASSUME NEW e \in Episodes, NEW f \in Episodes, Calm(e)', Alike(e, f)', ~Over(e)'
      PROVE  /\ Over(f)'
             /\ alerts'[f].is.seen < alerts'[e].is.seen
             /\ Present(alerts'[e].was) => alerts'[f].is.seen < alerts'[e].was.seen
  <2>1. /\ e # f /\ Present(alerts'[e].is) /\ Present(alerts'[f].is)
        /\ alerts'[e].is.alarm = alerts'[f].is.alarm /\ Calm(f)'
    BY <1>6 DEF Alike, Calm
  <2>2. CASE alerts'[e] # alerts[e]
    <3>1. /\ Alters(d, e) /\ alerts'[e].is.seen = tx[d].start
          /\ \A h \in Episodes \ {e} :
               Present(alerts[h].is) /\ alerts[h].is.alarm = Alarm(d) =>
                 /\ Over(h)
                 /\ alerts[h].is.seen < tx[d].start
                 /\ Present(alerts[e].was) => alerts[h].is.seen < alerts[e].was.seen
      BY <1>6, <2>2, LatestWritten
    <3>2. alerts'[f] = alerts[f] /\ alerts'[e].was = alerts[e].was /\ alerts'[e].is.alarm = Alarm(d)
      BY <2>1, <3>1 DEF Alters
    <3> QED BY <2>1, <3>1, <3>2 DEF Over
  <2>3. CASE alerts'[e] = alerts[e] /\ alerts'[f] # alerts[f]
    <3>1. Alters(d, f)
          /\ \A h \in Episodes \ {f} :
               Present(alerts[h].is) /\ alerts[h].is.alarm = Alarm(d) => Over(h)
      BY <2>1, <2>3, LatestWritten
    <3>2. Over(e)
      BY <2>1, <2>3, <3>1 DEF Alters
    <3> QED BY <1>6, <2>3, <3>2 DEF Over
  <2>4. CASE alerts'[e] = alerts[e] /\ alerts'[f] = alerts[f]
    BY <1>2, <1>6, <2>1, <2>4 DEF OverInv, Calm, Alike, Over
  <2> QED BY <2>2, <2>3, <2>4
<1>7. OverInv'
  BY <1>5, <1>6 DEF OverInv
<1> QED BY <1>2, <1>4, <1>7

\* The end of a delivery leaves the episodes that are over alone.
LEMMA EndRows ==
  ASSUME TypeInv, NEW d \in Deliveries, Commit(d) \/ Rollback(d), NEW e \in Episodes
  PROVE  /\ alerts[e].by # d => alerts'[e] = alerts[e]
         /\ alerts[e].by = d => alerts'[e].by = Nobody /\ alerts'[e].was = alerts'[e].is
         /\ alerts'[e].is \in {alerts[e].is, alerts[e].was}
         /\ alerts'[e].was \in {alerts[e].is, alerts[e].was}
         /\ \/ alerts'[e].is = alerts[e].is
            \/ alerts[e].by = d /\ alerts'[e].is = alerts[e].was
         /\ Present(alerts'[e].is) =>
              /\ Present(alerts[e].is) /\ alerts'[e].is.alarm = alerts[e].is.alarm
              /\ alerts'[e].is.inc # NoIncident => alerts'[e].is.inc = alerts[e].is.inc
         /\ Over(e) => alerts'[e] = alerts[e]
<1>1. alerts[e] \in Row(EpisodeType) /\ EpisodeRow(alerts[e])
  BY RowsOf
<1>2. alerts[e].by # d => alerts'[e] = alerts[e]
  BY <1>1, EndedRow DEF Commit, Rollback
<1>3. alerts[e].by = d =>
        /\ alerts'[e].by = Nobody /\ alerts'[e].was = alerts'[e].is
        /\ alerts'[e].is \in {alerts[e].is, alerts[e].was}
  BY <1>1, EndedRow DEF Commit, Rollback, Clean
<1>4. CASE alerts[e].by # d
  BY <1>2, <1>4
<1>5. CASE alerts[e].by = d
  <2>1. ~Over(e)
    BY <1>5, AlertsAssumption DEF Over
  <2>2. /\ alerts'[e].by = Nobody /\ alerts'[e].was = alerts'[e].is
        /\ alerts'[e].is = alerts[e].is \/ alerts'[e].is = alerts[e].was
    BY <1>3, <1>5
  <2>3. Present(alerts[e].was) => /\ Present(alerts[e].is)
                                  /\ alerts[e].is.alarm = alerts[e].was.alarm
                                  /\ alerts[e].was.inc # NoIncident =>
                                       alerts[e].is.inc = alerts[e].was.inc
    BY <1>1 DEF EpisodeRow
  <2> QED BY <1>5, <2>1, <2>2, <2>3
<1> QED BY <1>4, <1>5

LEMMA EndOver ==
  ASSUME TypeInv, StampInv, OverInv, NEW d \in Deliveries, Commit(d) \/ Rollback(d)
  PROVE  StampInv' /\ OverInv'
<1>1. /\ tx'[d] = IdleTx /\ \A y \in Deliveries \ {d} : tx'[y] = tx[y]
  BY EndedType DEF Commit, Rollback
<1>2. UNCHANGED disturbed
  BY DEF Commit, Rollback, history
<1>3. StampInv'
  <2> SUFFICES ASSUME NEW x \in Deliveries, NEW e \in Episodes, alerts'[e].by = x
               PROVE  /\ tx'[x].pc # "idle" /\ Present(alerts'[e].is)
                      /\ alerts'[e].is.seen = tx'[x].start
    BY DEF StampInv, At
  <2>1. alerts[e].by # d /\ alerts'[e] = alerts[e] /\ x # d
    BY EndRows, AlertsAssumption
  <2> QED BY <1>1, <2>1 DEF StampInv, At
<1>4. ASSUME NEW e \in Episodes, Calm(e)', alerts'[e].by # Nobody
      PROVE  alerts'[e].was.status # "resolved"
  <2>1. alerts'[e] = alerts[e]
    BY <1>4, EndRows
  <2> QED BY <1>2, <1>4, <2>1 DEF OverInv, Calm
<1>5. ASSUME NEW e \in Episodes, NEW f \in Episodes, Calm(e)', Alike(e, f)', ~Over(e)'
      PROVE  /\ Over(f)'
             /\ alerts'[f].is.seen < alerts'[e].is.seen
             /\ Present(alerts'[e].was) => alerts'[f].is.seen < alerts'[e].was.seen
  <2>1. Calm(e) /\ Alike(e, f)
    BY <1>2, <1>5, EndRows DEF Calm, Alike
  <2>2. ~Over(e)
    BY <1>5, EndRows DEF Over
  <2>3. /\ Over(f) /\ alerts[f].is.seen < alerts[e].is.seen
        /\ Present(alerts[e].was) => alerts[f].is.seen < alerts[e].was.seen
    BY <2>1, <2>2 DEF OverInv
  <2>4. alerts'[f] = alerts[f] /\ Present(alerts'[e].is)
    BY <1>5, <2>3, EndRows DEF Calm
  <2>5. alerts'[f].is.seen < alerts'[e].is.seen
    BY <2>3, <2>4, EndRows
  <2>6. Present(alerts'[e].was) => alerts'[f].is.seen < alerts'[e].was.seen
    BY <2>3, <2>4, EndRows
  <2> QED BY <2>3, <2>4, <2>5, <2>6 DEF Over
<1> QED BY <1>3, <1>4, <1>5 DEF OverInv

\* No statement cancels an incident.
LEMMA NothingCancelled ==
  ASSUME TypeInv, NEW d \in Deliveries, Statement(d), NEW i \in Incidents,
         incidents'[i].is.status = "cancelled"
  PROVE  incidents[i].is.status = "cancelled"
<1>1. incidents \in [Incidents -> Row(TicketType)]
  BY DEF TypeInv, TypeOK
<1>2. CASE UNCHANGED incidents
  BY <1>2
<1>3. CASE Resolve(d)
  <2> DEFINE j == tx[d].inc
  <2>1. j \in Incidents /\ incidents[j].is \in TicketType /\ Present(incidents[j].is)
    BY <1>3, TicketInHand DEF Resolve, At, IncidentPCs
  <2>2. incidents' = [incidents EXCEPT ![j] = Write(d, @, ResolvedIfNew(@.is))]
    BY <1>3 DEF Resolve
  <2>3. incidents'[j].is = ResolvedIfNew(incidents[j].is)
    BY <1>1, <2>1, <2>2 DEF Write, Row
  <2>4. incidents'[j].is.status = "cancelled" => incidents[j].is.status = "cancelled"
    BY <2>1, <2>3 DEF ResolvedIfNew, TicketType, NoTicket, Present
  <2> QED BY <1>1, <2>2, <2>4
<1>4. CASE Reopen(d)
  <2> DEFINE j == tx[d].inc
  <2>1. CASE /\ Free(d, incidents[j])
             /\ incidents' = [incidents EXCEPT
                  ![j] = Write(d, @, [@.is EXCEPT !.status = "in_progress"])]
    <3>1. j \in Incidents /\ incidents[j].is \in TicketType /\ Present(incidents[j].is)
      BY <1>4, <2>1, TicketInHand DEF Reopen, At, IncidentPCs
    <3>2. incidents'[j].is = [incidents[j].is EXCEPT !.status = "in_progress"]
      BY <1>1, <2>1, <3>1 DEF Write, Row
    <3>3. incidents'[j].is.status # "cancelled"
      BY <3>1, <3>2 DEF TicketType, NoTicket, Present
    <3> QED BY <1>1, <2>1, <3>3
  <2> QED BY <1>2, <1>4, <2>1 DEF Reopen
<1>5. CASE Apply(d)
  <2>1. ASSUME NEW j \in Incidents,
               incidents' = [incidents EXCEPT
                              ![j] = Write(d, @, [status |-> "new", alarm |-> Alarm(d)])]
        PROVE  incidents[i].is.status = "cancelled"
    <3>1. incidents'[j].is = [status |-> "new", alarm |-> Alarm(d)]
      BY <1>1, <2>1 DEF Write, Row
    <3> QED BY <1>1, <2>1, <3>1
  <2> QED BY <1>2, <1>5, <2>1 DEF Apply
<1> QED BY <1>2, <1>3, <1>4, <1>5
        DEF Statement, Record, Find, Close, Judge, Upsert, Reuse, tables

LEMMA StatementCancel ==
  ASSUME TypeInv, CancelInv, NEW d \in Deliveries, Statement(d)
  PROVE  CancelInv'
<1>1. UNCHANGED cancelled /\ Orderly(d)
  BY StatementFrame, StatementStep
<1> SUFFICES ASSUME NEW i \in Incidents,
                    incidents'[i].was.status = "cancelled" \/ incidents'[i].is.status = "cancelled"
             PROVE  i \in cancelled
  BY <1>1 DEF CancelInv
<1>2. incidents[i].was.status = "cancelled" \/ incidents[i].is.status = "cancelled"
  BY <1>1, StatementRows, NothingCancelled
<1> QED BY <1>2 DEF CancelInv

LEMMA EndCancel ==
  ASSUME TypeInv, CancelInv, NEW d \in Deliveries, Commit(d) \/ Rollback(d)
  PROVE  CancelInv'
<1>1. UNCHANGED cancelled
  BY DEF Commit, Rollback, history
<1>2. ASSUME NEW i \in Incidents
      PROVE  /\ incidents'[i].was \in {incidents[i].was, incidents[i].is}
             /\ incidents'[i].is \in {incidents[i].was, incidents[i].is}
  <2>1. incidents'[i] \in {incidents[i], Clean(incidents[i].was), Clean(incidents[i].is)}
    BY DEF Commit, Rollback, TicketsReverted, Committed, Reverted
  <2> QED BY <2>1 DEF Clean
<1> QED BY <1>1, <1>2 DEF CancelInv

\* What Reuse passes over, or takes up, once everything else is over.
LEMMA StatementLeft ==
  ASSUME CalmInv, NEW d \in Deliveries, Statement(d)
  PROVE  LeftInv'
<1>1. /\ TypeInv /\ StampInv /\ OverInv /\ LeftInv /\ AboutInv
      /\ UNCHANGED cancelled /\ disturbed \subseteq disturbed'
  BY StatementFrame, StatementOver DEF CalmInv
<1> SUFFICES ASSUME NEW e \in Episodes, NEW f \in Episodes, Calm(e)', Alike(e, f)',
                    alerts'[e].is.inc # NoIncident, alerts'[f].is.inc # NoIncident,
                    alerts'[e].is.inc # alerts'[f].is.inc,
                    alerts'[e].is.seen <= alerts'[f].is.seen
             PROVE  alerts'[e].is.inc \in cancelled
  BY <1>1 DEF LeftInv
<1>2. /\ e # f /\ Present(alerts'[e].is) /\ Present(alerts'[f].is)
      /\ alerts'[e].is.alarm = alerts'[f].is.alarm /\ Calm(f)'
  BY DEF Alike, Calm
<1>3. CASE alerts'[e] # alerts[e]
  <2>1. /\ Alters(d, e) /\ alerts'[e].is.seen = tx[d].start
        /\ \A h \in Episodes \ {e} :
             Present(alerts[h].is) /\ alerts[h].is.alarm = Alarm(d) =>
               alerts[h].is.seen < tx[d].start
    BY <1>1, <1>3, LatestWritten
  <2>2. alerts'[f] = alerts[f] /\ alerts[f].is.seen < tx[d].start
    BY <1>2, <2>1 DEF Alters
  <2>3. alerts[f].is \in EpisodeType /\ tx[d].start \in Nat /\ Present(alerts[f].is)
    BY <1>1, <1>2, <2>2, RowsOf DEF Row, TxType
  <2>4. alerts[f].is.seen \in Nat
    BY <2>3 DEF EpisodeType, NoEpisode, Present
  <2> QED BY <2>1, <2>2, <2>3, <2>4
<1>4. CASE alerts'[e] = alerts[e] /\ alerts'[f] = alerts[f]
  BY <1>1, <1>2, <1>4 DEF LeftInv, Calm, Alike
<1>5. CASE alerts'[e] = alerts[e] /\ alerts'[f] # alerts[f]
  <2>1. /\ Alters(d, f) /\ ~Over(f) /\ Alarm(d) \notin disturbed
        /\ \A h \in Episodes \ {f} :
             Present(alerts[h].is) /\ alerts[h].is.alarm = Alarm(d) => Over(h)
        /\ \/ alerts'[f].is.inc = NoIncident
           \/ Renews(d, f) /\ alerts'[f].is.inc = alerts[f].is.inc
           \/ f = tx[d].ep /\ \E i \in Incidents : Links(d, i)
    BY <1>1, <1>2, <1>5, LatestWritten
  <2>2. /\ Present(alerts[e].is) /\ alerts[e].is.alarm = Alarm(d) /\ Over(e) /\ Calm(e)
        /\ alerts[e].is.inc # NoIncident
    BY <1>2, <1>5, <2>1 DEF Alters, Calm
  <2>3. CASE Renews(d, f) /\ alerts'[f].is.inc = alerts[f].is.inc
    <3>1. Calm(f) /\ Alike(f, e) /\ Alike(e, f)
      BY <1>2, <2>1, <2>2, <2>3 DEF Renews, Calm, Alike
    <3>2. alerts[e].is.seen < alerts[f].is.seen
      BY <1>1, <2>1, <3>1 DEF OverInv
    <3>3. alerts[e].is.seen \in Nat /\ alerts[f].is.seen \in Nat
      <4>1. alerts[e].is \in EpisodeType /\ alerts[f].is \in EpisodeType /\ Present(alerts[f].is)
        BY <1>1, <2>3, RowsOf DEF Row, Renews
      <4> QED BY <2>2, <4>1 DEF EpisodeType, NoEpisode, Present
    <3>4. alerts[e].is.seen <= alerts[f].is.seen
      BY <3>2, <3>3
    <3>5. alerts[e].is.inc \in cancelled
      BY <1>1, <1>5, <2>2, <2>3, <3>1, <3>4 DEF LeftInv
    <3> QED BY <1>5, <3>5
  <2>4. ASSUME NEW i \in Incidents, f = tx[d].ep, Links(d, i),
               i \in Reusable(d, Alarm(d), f)
        PROVE  alerts[e].is.inc \in cancelled
    <3>1. PICK g \in PreviousEpisodes(d, Alarm(d), f) : i = Seen(d, alerts[g]).inc
      BY <2>4 DEF Reusable, PreviousIncidents
    <3>2. /\ g \in EpisodesOf(d, Alarm(d)) \ {f} /\ Seen(d, alerts[g]).inc # NoIncident
          /\ \A h \in EpisodesOf(d, Alarm(d)) \ {f} :
               Seen(d, alerts[h]).inc # NoIncident
                 => Seen(d, alerts[h]).seen <= Seen(d, alerts[g]).seen
      BY <3>1 DEF PreviousEpisodes
    <3>3. /\ g \in Episodes \ {f} /\ Present(Seen(d, alerts[g])) /\ EpisodeRow(alerts[g])
          /\ Seen(d, alerts[g]).alarm = Alarm(d)
      BY <1>1, <3>2, RowsOf DEF EpisodesOf, Present
    <3>4. Present(alerts[g].is) /\ alerts[g].is.alarm = Alarm(d)
      BY <3>3 DEF EpisodeRow, Seen
    <3>5. Over(g) /\ Seen(d, alerts[g]) = alerts[g].is /\ Seen(d, alerts[e]) = alerts[e].is
      BY <1>1, <2>1, <2>2, <3>3, <3>4, OverRow
    <3>6. e \in EpisodesOf(d, Alarm(d)) \ {f}
      BY <1>2, <2>2, <3>5 DEF EpisodesOf, Present
    <3>7. alerts[e].is.seen <= alerts[g].is.seen
      BY <2>2, <3>2, <3>5, <3>6
    <3>8. alerts'[f].is.inc = i
      BY <2>4 DEF Links
    <3>9. alerts[g].is.inc = i /\ alerts[e].is.inc # i /\ i # NoIncident
      BY <1>5, <3>1, <3>2, <3>5, <3>8
    <3>10. Alike(e, g)
      BY <2>2, <3>4, <3>9 DEF Alike
    <3> QED BY <1>1, <2>2, <3>3, <3>7, <3>9, <3>10 DEF LeftInv
  <2>5. ASSUME f = tx[d].ep, At(d, "apply"), Alarm(d) \notin covered, NEW i \in Incidents, Links(d, i)
        PROVE  alerts[e].is.inc \in cancelled
    <3>1. Calm(f) /\ Alike(f, e)
      BY <1>2, <2>1, <2>2, <2>5 DEF Links, Renews, Calm, Alike
    <3> QED BY <1>1, <2>2, <2>5, <3>1 DEF AboutInv
  <2>6. ASSUME NEW i \in Incidents, f = tx[d].ep, Links(d, i)
        PROVE  alerts[e].is.inc \in cancelled
    <3>1. ASSUME NEW j, Links(d, j) PROVE j = i
      BY <2>6, <3>1 DEF Links
    <3>2. CASE UNCHANGED <<alerts, disturbed>>
      BY <1>5, <3>2
    <3>3. CASE \E h \in Episodes : SeesAgain(d, h) \/ Inserts(d, h)
      <4>1. alerts[f].is.inc = NoIncident /\ alerts'[f].is.inc = i /\ i # NoIncident
            /\ alerts[f].by = d
        BY <2>6 DEF Links, Incidents, NoIncident
      <4>2. PICK h \in Episodes : SeesAgain(d, h) \/ Inserts(d, h)
        BY <3>3
      <4>3. h = f
        BY <1>5, <4>2 DEF SeesAgain, Inserts, Renews, Alters
      <4> QED BY <4>1, <4>2, <4>3 DEF SeesAgain, Inserts
    <3>4. CASE Closes(d)
      <4>1. alerts[f].is.inc = NoIncident /\ alerts'[f].is.inc = i /\ i # NoIncident
        BY <2>6 DEF Links, Incidents, NoIncident
      <4> QED BY <2>6, <3>4, <4>1 DEF Closes
    <3>5. CASE \E j \in Reusable(d, Alarm(d), tx[d].ep) : Links(d, j)
      BY <2>4, <2>6, <3>1, <3>5
    <3>6. CASE At(d, "apply") /\ Alarm(d) \notin covered
      BY <2>5, <2>6, <3>6
    <3> QED BY <1>1, <3>2, <3>3, <3>4, <3>5, <3>6, StatementCases
  <2>7. alerts[e].is.inc \in cancelled
    BY <2>1, <2>3, <2>6, <1>5
  <2> QED BY <1>5, <2>7
<1> QED BY <1>3, <1>4, <1>5

LEMMA EndLeft ==
  ASSUME CalmInv, NEW d \in Deliveries, Commit(d) \/ Rollback(d)
  PROVE  LeftInv'
<1>1. /\ TypeInv /\ OverInv /\ LeftInv /\ UNCHANGED <<cancelled, disturbed>>
  BY DEF CalmInv, Commit, Rollback, history
<1> SUFFICES ASSUME NEW e \in Episodes, NEW f \in Episodes, Calm(e)', Alike(e, f)',
                    alerts'[e].is.inc # NoIncident, alerts'[f].is.inc # NoIncident,
                    alerts'[e].is.inc # alerts'[f].is.inc,
                    alerts'[e].is.seen <= alerts'[f].is.seen
             PROVE  alerts'[e].is.inc \in cancelled
  BY <1>1 DEF LeftInv
<1>2. /\ Calm(e) /\ Alike(e, f) /\ Calm(f) /\ Alike(f, e)
      /\ Present(alerts'[e].is) /\ Present(alerts'[f].is)
      /\ alerts'[e].is.inc = alerts[e].is.inc /\ alerts'[f].is.inc = alerts[f].is.inc
  BY <1>1, EndRows DEF Calm, Alike
<1>3. /\ alerts[e].is.seen \in Nat /\ alerts[f].is.seen \in Nat
      /\ alerts'[e].is.seen \in Nat /\ alerts'[f].is.seen \in Nat
  <2>1. /\ alerts[e].is \in EpisodeType /\ alerts[f].is \in EpisodeType
        /\ alerts'[e].is \in EpisodeType /\ alerts'[f].is \in EpisodeType
        /\ Present(alerts[e].is) /\ Present(alerts[f].is)
    BY <1>1, <1>2, RowsOf, EndRows DEF Row, Alike
  <2> QED BY <1>2, <2>1 DEF EpisodeType, NoEpisode, Present
<1>4. alerts[e].is.seen <= alerts[f].is.seen
  <2>1. CASE alerts'[e].is = alerts[e].is /\ alerts'[f].is = alerts[f].is
    BY <2>1
  <2>2. CASE alerts'[f].is # alerts[f].is
    <3>1. ~Over(f)
      BY <1>1, <2>2, EndRows
    <3> QED BY <1>1, <1>2, <1>3, <3>1 DEF OverInv
  <2>3. CASE alerts'[e].is # alerts[e].is
    <3>1. ~Over(e) /\ alerts'[e].is = alerts[e].was
      BY <1>1, <2>3, EndRows
    <3>2. Over(f) /\ alerts[f].is.seen < alerts[e].was.seen
      BY <1>1, <1>2, <3>1 DEF OverInv
    <3>3. alerts'[f] = alerts[f]
      BY <1>1, <3>2, EndRows
    <3>4. alerts'[f].is.seen < alerts'[e].is.seen
      BY <3>1, <3>2, <3>3
    <3> QED BY <1>3, <3>4
  <2> QED BY <2>1, <2>2, <2>3
<1> QED BY <1>1, <1>2, <1>4 DEF LeftInv

\* A delivery is about to apply a definition only when it has passed over the
\* incident of the previous episode.
LEMMA EntersApply ==
  ASSUME TypeInv, NEW d \in Deliveries, Statement(d), tx'[d].pc = "apply"
  PROVE  /\ tx[d].pc = "reuse" /\ UNCHANGED <<alerts, disturbed, covered, cancelled>>
         /\ tx'[d].ep = tx[d].ep /\ tx'[d].fresh = tx[d].fresh /\ Alarm(d)' = Alarm(d)
         /\ \/ tx[d].fresh /\ Alarm(d) \in covered
            \/ PreviousIncidents(d, Alarm(d), tx[d].ep) = {}
            \/ Reusable(d, Alarm(d), tx[d].ep) # PreviousIncidents(d, Alarm(d), tx[d].ep)
<1>1. tx[d] \in TxType /\ tx \in [Deliveries -> TxType]
  BY RowsOf DEF TypeInv, TypeOK
<1>2. tx[d].pc \in Raising
  BY StatementDesk DEF Clearing, Raising
<1>3. ASSUME Advance(d) PROVE FALSE
  BY <1>3, AdvanceStep, StatementFrame DEF TypeInv
<1>4. ASSUME Upsert(d) PROVE FALSE
  <2> DEFINE linked(e) == tx' = [tx EXCEPT ![d].ep = e, ![d].inc = alerts[e].is.inc,
                           ![d].fresh = FALSE,
                           ![d].pc = IF alerts[e].is.inc = NoIncident THEN "reuse" ELSE "reopen"]
             alone(e) == tx' = [tx EXCEPT ![d].ep = e, ![d].fresh = TRUE, ![d].pc = "reuse"]
  <2>1. PICK e : linked(e) \/ alone(e)
    BY <1>4 DEF Upsert
  <2> QED BY <1>1, <2>1 DEF TxType
<1>5. Reuse(d)
  BY <1>2, <1>3, <1>4
     DEF Statement, Record, Find, Close, Judge, Resolve, Apply, Reopen, At, Raising
<1>6. ASSUME NEW i, tx' = [tx EXCEPT ![d].inc = i, ![d].pc = "reopen"] PROVE FALSE
  BY <1>1, <1>6 DEF TxType
<1>7. /\ Goto(d, "apply") /\ UNCHANGED alerts /\ tx[d].pc = "reuse"
      /\ \/ tx[d].fresh /\ Alarm(d) \in covered
         \/ PreviousIncidents(d, Alarm(d), tx[d].ep) = {}
         \/ Reusable(d, Alarm(d), tx[d].ep) # PreviousIncidents(d, Alarm(d), tx[d].ep)
  BY <1>5, <1>6 DEF Reuse, At
<1>8. /\ tx'[d].ep = tx[d].ep /\ tx'[d].fresh = tx[d].fresh /\ tx'[d].rest = tx[d].rest
  BY <1>1, <1>7 DEF Goto, TxType
<1>9. UNCHANGED <<disturbed, covered, cancelled>>
  BY <1>5 DEF Reuse, history
<1> QED BY <1>7, <1>8, <1>9 DEF Alarm, Message

\* It has passed over everything the alarm left behind.
LEMMA PassedOver ==
  ASSUME CalmInv, NEW d \in Deliveries, tx[d].pc = "reuse", Calm(tx[d].ep),
         \/ PreviousIncidents(d, Alarm(d), tx[d].ep) = {}
         \/ Reusable(d, Alarm(d), tx[d].ep) # PreviousIncidents(d, Alarm(d), tx[d].ep),
         NEW f \in Episodes, Alike(tx[d].ep, f), alerts[f].is.inc # NoIncident
  PROVE  alerts[f].is.inc \in cancelled
<1> DEFINE e == tx[d].ep
           a == Alarm(d)
           linked == {h \in EpisodesOf(d, a) \ {e} : Seen(d, alerts[h]).inc # NoIncident}
<1>1. TypeInv /\ StampInv /\ OverInv /\ CancelInv /\ LeftInv
  BY DEF CalmInv
<1>2. /\ e \in Episodes /\ Present(alerts[e].is) /\ alerts[e].is.alarm = a /\ alerts[e].by = d
  BY <1>1, HeldAlarm, RowsOf DEF EpisodePCs, HandsOK, Holding, At
<1>3. ~Over(e)
  BY <1>2, AlertsAssumption DEF Over
<1>4. ASSUME NEW h \in Episodes, Alike(e, h)
      PROVE  /\ Over(h) /\ Calm(h) /\ Seen(d, alerts[h]) = alerts[h].is
             /\ alerts[h].is.seen < alerts[e].is.seen /\ alerts[h].is.seen \in Nat
             /\ alerts[h].is.inc # NoIncident => h \in linked
  <2>1. Over(h) /\ alerts[h].is.seen < alerts[e].is.seen
    BY <1>1, <1>2, <1>3, <1>4 DEF OverInv
  <2>2. Seen(d, alerts[h]) = alerts[h].is
    BY <1>1, <2>1, OverRow
  <2>3. Calm(h) /\ Present(alerts[h].is) /\ alerts[h].is.alarm = a /\ h # e
    BY <1>2, <1>4 DEF Alike, Calm
  <2>4. alerts[h].is \in EpisodeType
    BY <1>1, RowsOf DEF Row
  <2>5. alerts[h].is.seen \in Nat
    BY <2>3, <2>4 DEF EpisodeType, NoEpisode, Present
  <2> QED BY <2>1, <2>2, <2>3, <2>5 DEF EpisodesOf, Present
<1>5. ASSUME NEW h \in linked
      PROVE  /\ h \in Episodes /\ Alike(e, h) /\ Over(h) /\ Calm(h)
             /\ Seen(d, alerts[h]) = alerts[h].is
             /\ alerts[h].is.inc # NoIncident
  <2>1. /\ h \in Episodes \ {e} /\ Present(Seen(d, alerts[h])) /\ Seen(d, alerts[h]).alarm = a
        /\ Seen(d, alerts[h]).inc # NoIncident
    BY DEF EpisodesOf, Present
  <2>2. EpisodeRow(alerts[h])
    BY <1>1, <2>1, RowsOf
  <2>3. Alike(e, h)
    BY <1>2, <2>1, <2>2 DEF EpisodeRow, Seen, Alike
  <2> HIDE DEF linked
  <2> QED BY <1>4, <2>1, <2>3
<1>6. f \in linked
  BY <1>4
<1>7. PreviousEpisodes(d, a, e) =
        {h \in linked : \A g \in linked : Seen(d, alerts[g]).seen <= Seen(d, alerts[h]).seen}
  BY DEF PreviousEpisodes
<1> HIDE DEF linked, a, e
<1>8. PreviousIncidents(d, a, e) # {}
  <2> DEFINE stamp == [h \in linked |-> alerts[h].is.seen]
  <2>1. alerts[e].is.seen \in Nat
    <3>1. alerts[e].is \in EpisodeType
      BY <1>1, <1>2, RowsOf DEF Row
    <3> QED BY <1>2, <3>1 DEF EpisodeType, NoEpisode, Present
  <2>2. \A h \in linked : alerts[h].is.seen \in Nat /\ alerts[h].is.seen <= alerts[e].is.seen
    BY <1>4, <1>5, <2>1
  <2>3. stamp \in [linked -> Nat] /\ \A h \in linked : stamp[h] <= alerts[e].is.seen
    BY <2>2
  <2>4. \E h \in linked : \A g \in linked : stamp[g] <= stamp[h]
    <3> HIDE DEF stamp
    <3> QED BY <1>6, <2>1, <2>3, LatestOf
  <2>5. \E h \in linked : \A g \in linked : Seen(d, alerts[g]).seen <= Seen(d, alerts[h]).seen
    BY <1>5, <2>4
  <2>6. PreviousEpisodes(d, a, e) # {}
    BY <1>7, <2>5
  <2> QED BY <2>6 DEF PreviousIncidents
<1>9. Reusable(d, a, e) # PreviousIncidents(d, a, e)
  BY <1>8 DEF a, e
<1>10. PICK i \in PreviousIncidents(d, a, e) : StatusSeen(d, i) = "cancelled"
  BY <1>9 DEF Reusable
<1>11. PICK g \in linked : /\ Seen(d, alerts[g]).inc = i
                           /\ \A h \in linked : Seen(d, alerts[h]).seen <= Seen(d, alerts[g]).seen
  BY <1>7, <1>10 DEF PreviousIncidents
<1>12. i \in cancelled
  <2>1. Present(Seen(d, alerts[g])) /\ Seen(d, alerts[g]).inc # NoIncident /\ g \in Episodes
    BY <1>5, <1>11 DEF Alike
  <2>2. i \in Incidents
    BY <1>1, <1>11, <2>1, SeenTicket
  <2> QED BY <1>1, <1>10, <2>2 DEF StatusSeen, Seen, CancelInv
<1>13. CASE alerts[f].is.inc = i
  BY <1>12, <1>13
<1>14. CASE alerts[f].is.inc # i
  <2>1. /\ alerts[f].is.seen <= alerts[g].is.seen /\ alerts[g].is.inc = i
        /\ Calm(f) /\ g \in Episodes
    BY <1>5, <1>6, <1>11
  <2>2. Alike(f, g) /\ alerts[g].is.inc # NoIncident
    BY <1>5, <1>6, <1>11, <1>14, <2>1 DEF Alike
  <2> QED BY <1>1, <1>14, <2>1, <2>2 DEF LeftInv
<1> QED BY <1>13, <1>14

LEMMA StatementAbout ==
  ASSUME CalmInv, NEW d \in Deliveries, Statement(d)
  PROVE  AboutInv'
<1>1. /\ TypeInv /\ StampInv /\ OverInv /\ AboutInv /\ OverInv' /\ StampInv'
      /\ UNCHANGED <<cancelled, covered>> /\ disturbed \subseteq disturbed' /\ TypeInv'
  BY StatementFrame, StatementOver, StatementTypeInv DEF CalmInv
<1>2. Orderly(d) /\ \A y \in Deliveries \ {d} : tx'[y] = tx[y]
  BY <1>1, StatementStep, DeliveriesType DEF Orderly, Moves
<1> SUFFICES ASSUME NEW x \in Deliveries, tx'[x].pc = "apply", Calm(tx[x].ep)',
                    ~(tx'[x].fresh /\ Alarm(x)' \in covered'),
                    NEW f \in Episodes, Alike(tx[x].ep, f)', alerts'[f].is.inc # NoIncident
             PROVE  alerts'[f].is.inc \in cancelled
  BY <1>1 DEF AboutInv, At
<1>3. CASE x = d
  <2>1. /\ tx[d].pc = "reuse" /\ UNCHANGED <<alerts, disturbed, covered>>
        /\ tx'[d].ep = tx[d].ep /\ tx'[d].fresh = tx[d].fresh /\ Alarm(d)' = Alarm(d)
        /\ \/ tx[d].fresh /\ Alarm(d) \in covered
           \/ PreviousIncidents(d, Alarm(d), tx[d].ep) = {}
           \/ Reusable(d, Alarm(d), tx[d].ep) # PreviousIncidents(d, Alarm(d), tx[d].ep)
    BY <1>1, <1>3, EntersApply
  <2>2. Calm(tx[d].ep) /\ Alike(tx[d].ep, f) /\ alerts[f].is.inc # NoIncident
    BY <1>3, <2>1 DEF Calm, Alike
  <2>3. alerts[f].is.inc \in cancelled
    BY <1>3, <2>1, <2>2, PassedOver
  <2> QED BY <2>1, <2>3
<1>4. CASE x # d
  <2> DEFINE e == tx[x].ep
  <2>1. tx'[x] = tx[x] /\ Alarm(x)' = Alarm(x) /\ tx[x].pc = "apply"
    BY <1>2, <1>4 DEF Alarm, Message
  <2>2. e \in Episodes /\ alerts[e].by = x
    BY <1>1, <2>1, RowsOf, HeldAlarm DEF EpisodePCs, HandsOK, Holding, At
  <2>3. alerts'[e] = alerts[e]
    BY <1>1, <1>2, <1>4, <2>2, StatementRows, AlertsAssumption DEF Free
  <2>4. ~(alerts'[e].by = Nobody)
    BY <2>2, <2>3, AlertsAssumption
  <2>5. /\ Present(alerts'[e].is) /\ alerts'[e].is.alarm \notin disturbed'
        /\ e # f /\ Present(alerts'[f].is) /\ alerts'[e].is.alarm = alerts'[f].is.alarm
    BY <2>1 DEF Calm, Alike
  <2> HIDE DEF e
  <2>6. alerts'[f].by = Nobody
    BY <1>1, <2>2, <2>4, <2>5 DEF OverInv, Over, Calm, Alike
  <2>7. alerts'[f] = alerts[f]
    BY <1>1, <1>2, <2>6, StatementRows, AlertsAssumption
  <2>8. Calm(e) /\ Alike(e, f)
    BY <1>1, <2>3, <2>5, <2>7 DEF Calm, Alike
  <2> QED BY <1>1, <2>1, <2>7, <2>8 DEF AboutInv, At, e
<1> QED BY <1>3, <1>4

LEMMA EndAbout ==
  ASSUME CalmInv, NEW d \in Deliveries, Commit(d) \/ Rollback(d)
  PROVE  AboutInv'
<1>1. /\ TypeInv /\ OverInv /\ AboutInv /\ UNCHANGED <<cancelled, disturbed, covered>>
      /\ tx'[d] = IdleTx /\ \A y \in Deliveries \ {d} : tx'[y] = tx[y]
  BY EndedType DEF CalmInv, Commit, Rollback, history
<1> SUFFICES ASSUME NEW x \in Deliveries, tx'[x].pc = "apply", Calm(tx[x].ep)',
                    ~(tx'[x].fresh /\ Alarm(x)' \in covered'),
                    NEW f \in Episodes, Alike(tx[x].ep, f)', alerts'[f].is.inc # NoIncident
             PROVE  alerts'[f].is.inc \in cancelled
  BY <1>1 DEF AboutInv, At
<1> DEFINE e == tx[x].ep
<1>2. x # d /\ tx'[x] = tx[x] /\ Alarm(x)' = Alarm(x)
  BY <1>1, IdleType DEF Alarm, Message
<1>3. e \in Episodes
  BY <1>1, <1>2, HeldAlarm DEF EpisodePCs
<1>4. Calm(e) /\ Alike(e, f) /\ alerts'[f].is.inc = alerts[f].is.inc
  BY <1>1, <1>2, <1>3, EndRows DEF Calm, Alike
<1> QED BY <1>1, <1>2, <1>4 DEF AboutInv, At

LEMMA BeginCalm ==
  ASSUME CalmInv, NEW d \in Deliveries, NEW list \in Lists, Begin(d, list), TypeInv'
  PROVE  CalmInv'
<1>1. TypeInv /\ StampInv /\ OverInv /\ CancelInv /\ LeftInv /\ AboutInv
  BY DEF CalmInv
<1>2. UNCHANGED <<alerts, incidents, covered, cancelled, disturbed>> /\ tx[d].pc = "idle"
  BY DEF Begin, tables, history, At
<1>3. tx'[d].pc = "record" /\ \A x \in Deliveries \ {d} :
        /\ tx'[x].pc = tx[x].pc /\ tx'[x].rest = tx[x].rest /\ tx'[x].ep = tx[x].ep
        /\ tx'[x].start = tx[x].start /\ tx'[x].fresh = tx[x].fresh
  BY <1>1, BegunType
<1>4. OverInv' /\ CancelInv' /\ LeftInv'
  BY <1>1, <1>2 DEF OverInv, CancelInv, LeftInv, Calm, Alike, Over
<1>5. StampInv'
  BY <1>1, <1>2, <1>3 DEF StampInv, At
<1>6. AboutInv'
  BY <1>1, <1>2, <1>3 DEF AboutInv, At, Calm, Alike, Alarm, Message
<1> QED BY <1>4, <1>5, <1>6 DEF CalmInv

\* When a change window ends between the two looks, the alarm counts as disturbed.
LEMMA WindowCalm ==
  ASSUME CalmInv, NEW a \in Alarms, Window(a), TypeInv'
  PROVE  CalmInv'
<1>1. TypeInv /\ StampInv /\ OverInv /\ CancelInv /\ LeftInv /\ AboutInv
  BY DEF CalmInv
<1>2. UNCHANGED <<alerts, incidents, tx, cancelled>> /\ disturbed \subseteq disturbed'
  BY DEF Window, tables
<1>3. StampInv' /\ CancelInv'
  BY <1>1, <1>2 DEF StampInv, CancelInv, At
<1>4. OverInv' /\ LeftInv'
  BY <1>1, <1>2 DEF OverInv, LeftInv, Calm, Alike, Over
<1>5. AboutInv'
  <2> SUFFICES ASSUME NEW x \in Deliveries, tx[x].pc = "apply", Calm(tx[x].ep)',
                      ~(tx[x].fresh /\ Alarm(x) \in covered'),
                      NEW f \in Episodes, Alike(tx[x].ep, f), alerts[f].is.inc # NoIncident
               PROVE  alerts[f].is.inc \in cancelled
    BY <1>2 DEF AboutInv, At, Alike, Alarm, Message
  <2>1. Calm(tx[x].ep) /\ alerts[tx[x].ep].is.alarm \notin disturbed'
    BY <1>2 DEF Calm
  <2>2. alerts[tx[x].ep].is.alarm = Alarm(x)
    BY <1>1, HeldAlarm DEF EpisodePCs
  <2>3. Alarm(x) # a
    BY <2>1, <2>2 DEF Window, At
  <2>4. ~(tx[x].fresh /\ Alarm(x) \in covered)
    BY <2>3 DEF Window
  <2> QED BY <1>1, <2>1, <2>4 DEF AboutInv, At
<1> QED BY <1>3, <1>4, <1>5 DEF CalmInv

LEMMA SetStatusCalm ==
  ASSUME CalmInv, NEW i \in Incidents, NEW to \in IncidentStatuses, SetStatus(i, to), TypeInv'
  PROVE  CalmInv'
<1>1. TypeInv /\ StampInv /\ OverInv /\ CancelInv /\ LeftInv /\ AboutInv
  BY DEF CalmInv
<1>2. UNCHANGED <<alerts, covered, tx, disturbed>> /\ cancelled \subseteq cancelled'
      /\ (to = "cancelled" => i \in cancelled')
  BY DEF SetStatus
<1>3. StampInv' /\ OverInv' /\ LeftInv' /\ AboutInv'
  BY <1>1, <1>2 DEF StampInv, OverInv, LeftInv, AboutInv, Calm, Alike, Over, At, Alarm, Message
<1>4. CancelInv'
  <2> DEFINE w == [incidents[i].is EXCEPT !.status = to]
  <2>1. /\ incidents'[i] = Clean(w) /\ w.status = to
        /\ \A j \in Incidents \ {i} : incidents'[j] = incidents[j]
    BY <1>1, SetStatusRows
  <2> HIDE DEF w
  <2> QED BY <1>1, <1>2, <2>1 DEF CancelInv, Clean
<1> QED BY <1>3, <1>4 DEF CalmInv

\* CalmInv is an invariant: while nothing has overtaken anything, only the latest
\* episode of an alarm is not over, and all incidents it has left behind but the
\* last were cancelled.
THEOREM AlertsCalm == Spec => []CalmInv
<1>1. Init => CalmInv
  <2> SUFFICES ASSUME Init PROVE CalmInv
    OBVIOUS
  <2>1. /\ \A e \in Episodes : alerts[e] = Clean(NoEpisode)
        /\ \A i \in Incidents : incidents[i] = Clean(NoTicket)
        /\ \A d \in Deliveries : tx[d] = IdleTx
    BY DEF Init
  <2>2. OverInv /\ LeftInv /\ CancelInv
    BY <2>1 DEF OverInv, LeftInv, CancelInv, Calm, Alike, Clean, NoEpisode, NoTicket, Present
  <2>3. StampInv /\ AboutInv
    BY <2>1, IdleType, AlertsAssumption DEF StampInv, AboutInv, Clean, At
  <2> QED BY <2>2, <2>3, InitTypeInv DEF CalmInv
<1>2. CalmInv /\ [Next]_vars => CalmInv'
  <2> SUFFICES ASSUME CalmInv, [Next]_vars PROVE CalmInv'
    OBVIOUS
  <2>1. TypeInv /\ StampInv /\ OverInv /\ CancelInv /\ LeftInv /\ AboutInv /\ TypeInv'
    BY NextTypeInv DEF CalmInv
  <2>2. ASSUME NEW d \in Deliveries, Statement(d) PROVE CalmInv'
    BY <2>1, <2>2, StatementOver, StatementCancel, StatementLeft, StatementAbout DEF CalmInv
  <2>3. ASSUME NEW d \in Deliveries, Commit(d) \/ Rollback(d) PROVE CalmInv'
    BY <2>1, <2>3, EndOver, EndCancel, EndLeft, EndAbout DEF CalmInv
  <2>4. ASSUME NEW d \in Deliveries, NEW list \in Lists, Begin(d, list) PROVE CalmInv'
    BY <2>1, <2>4, BeginCalm
  <2>5. ASSUME NEW a \in Alarms, Window(a) PROVE CalmInv'
    BY <2>1, <2>5, WindowCalm
  <2>6. ASSUME NEW i \in Incidents, NEW to \in IncidentStatuses, SetStatus(i, to) PROVE CalmInv'
    BY <2>1, <2>6, SetStatusCalm
  <2>7. ASSUME UNCHANGED <<alerts, incidents, covered, tx, cancelled, disturbed>> PROVE CalmInv'
    BY <2>1, <2>7 DEF CalmInv, StampInv, OverInv, CancelInv, LeftInv, AboutInv, Calm, Alike,
                      Over, At, Alarm, Message
  <2>8. ASSUME UNCHANGED vars PROVE UNCHANGED <<alerts, incidents, covered, tx, cancelled, disturbed>>
    BY <2>8 DEF vars, tables, history
  <2> QED BY <2>2, <2>3, <2>4, <2>5, <2>6, <2>7, <2>8
          DEF Next, Abort, BreakDeadlock, Comment, tables, history
<1> QED BY <1>1, <1>2, PTL DEF Spec

\* An alarm that comes back is given the incident it had.  It gets another only when
\* people cancelled that one, unless deliveries or the end of a change window came
\* between each other.
THEOREM AlertOneIncident == Spec => []OneIncident
<1>1. CalmInv /\ IncidentsAreLinked => OneIncident
  <2> SUFFICES ASSUME CalmInv, IncidentsAreLinked, NEW i \in Incidents, NEW j \in Incidents,
                      i # j, Present(incidents[i].was), Present(incidents[j].was),
                      incidents[i].was.alarm = incidents[j].was.alarm,
                      incidents[i].was.alarm \notin disturbed
               PROVE  i \in cancelled \/ j \in cancelled
    BY DEF OneIncident, Present
  <2>1. PICK e \in Episodes : /\ Present(alerts[e].was) /\ alerts[e].was.inc = i
                              /\ alerts[e].was.alarm = incidents[i].was.alarm
    BY DEF IncidentsAreLinked, Present
  <2>2. PICK f \in Episodes : /\ Present(alerts[f].was) /\ alerts[f].was.inc = j
                              /\ alerts[f].was.alarm = incidents[j].was.alarm
    BY DEF IncidentsAreLinked, Present
  <2>3. TypeInv /\ LeftInv /\ i # NoIncident /\ j # NoIncident
    BY DEF CalmInv, Incidents, NoIncident
  <2>4. /\ Present(alerts[e].is) /\ alerts[e].is.inc = i
        /\ alerts[e].is.alarm = incidents[i].was.alarm
        /\ Present(alerts[f].is) /\ alerts[f].is.inc = j
        /\ alerts[f].is.alarm = incidents[i].was.alarm
    BY <2>1, <2>2, <2>3, RowsOf DEF EpisodeRow
  <2>5. Alike(e, f) /\ Alike(f, e) /\ Calm(e) /\ Calm(f)
    BY <2>4 DEF Alike, Calm
  <2>6. alerts[e].is.seen \in Nat /\ alerts[f].is.seen \in Nat
    <3>1. alerts[e].is \in EpisodeType /\ alerts[f].is \in EpisodeType
      BY <2>3, RowsOf DEF Row
    <3> QED BY <2>4, <3>1 DEF EpisodeType, NoEpisode, Present
  <2>7. alerts[e].is.seen <= alerts[f].is.seen \/ alerts[f].is.seen <= alerts[e].is.seen
    BY <2>6
  <2> QED BY <2>3, <2>4, <2>5, <2>7 DEF LeftInv
<1> QED BY <1>1, AlertsCalm, AlertIncidentsLinked, PTL
=============================================================================
