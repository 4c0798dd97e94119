--------------------------- MODULE CurationProofs ---------------------------
(***************************************************************************)
(* Curation: its types, what a queued submission lacks, what is asked, the *)
(* Queue button, and that nothing leaves the queue, for any set of links,  *)
(* media and messages and any bounds.                                      *)
(*                                                                         *)
(* A step either answers something and ends in a recompute in its own      *)
(* transaction (Answering) or is one of the others (Alone); NextCases is   *)
(* that split, and each invariant is kept once by Answering, whatever was  *)
(* answered, and case by case by Alone.                                    *)
(*   1. The records: what an update of theirs leaves.                      *)
(*   2. What is missing, what is decided about it (Plan) and what is left  *)
(*      of it when it is sent and recorded (Perform).                      *)
(*   3. The two kinds of steps, and the types.                             *)
(*   4. COrderly: an open request is one that is still needed, so that an  *)
(*      answer to it takes nothing from what was queued.                   *)
(*   5. CAsked: what is missing is asked for, or somebody still owes it.   *)
(*   6. COffered: a butterfly's decision never retires a Queue button that *)
(*      is wanted.                                                         *)
(***************************************************************************)
EXTENDS Curation, FiniteSetTheorems, SequenceTheorems, TLAPS

-----------------------------------------------------------------------------
(* The records.                                                            *)

LEMMA KindsDiffer ==
    /\ {"source", "metadata", "image", "moreImages", "moreLinks"} \cup Media = Kind
    /\ "source" \notin Media /\ "metadata" \notin Media /\ "image" \notin Media
    /\ "moreImages" \notin Media /\ "moreLinks" \notin Media
BY CurationAssumption DEF Kind

LEMMA AbsentType == Absent \in AltType /\ NoForm \in [Media -> AltType] /\ NoConf \in ConfType
<1>1. Absent \in AltType
    BY DEF Absent, AltType
<1>2. (CHOOSE i \in ConfId : TRUE) \in ConfId /\ (CHOOSE i \in Msg : TRUE) \in Msg
    BY CurationAssumption
<1>. QED BY <1>1, <1>2 DEF NoForm, NoConf, ConfType

LEMMA RowFields ==
    ASSUME NEW p \in RowType
    PROVE  /\ p.state \in State /\ p.links \in Seq(Link) /\ p.resolved \in BOOLEAN
           /\ p.media \in [Media -> AltType] /\ p.waived \in BOOLEAN
           /\ p.note \in {"none", "pending", "confirmed"} /\ p.meta \in BOOLEAN
BY DEF RowType

\* n is a row with these fields.
RowIs(n, s, l, r, m, w, t, b) ==
    /\ n \in RowType
    /\ n.state = s /\ n.links = l /\ n.resolved = r /\ n.media = m
    /\ n.waived = w /\ n.note = t /\ n.meta = b

LEMMA RowUpdates ==
    ASSUME NEW p \in RowType
    PROVE  /\ \A v \in State :
                RowIs([p EXCEPT !.state = v], v, p.links, p.resolved, p.media, p.waived, p.note, p.meta)
           /\ \A v \in Seq(Link), u \in BOOLEAN :
                RowIs([p EXCEPT !.links = v, !.resolved = u], p.state, v, u, p.media, p.waived, p.note, p.meta)
           /\ \A v \in [Media -> AltType] :
                RowIs([p EXCEPT !.media = v], p.state, p.links, p.resolved, v, p.waived, p.note, p.meta)
           /\ \A v \in BOOLEAN :
                /\ RowIs([p EXCEPT !.waived = v], p.state, p.links, p.resolved, p.media, v, p.note, p.meta)
                /\ RowIs([p EXCEPT !.meta = v], p.state, p.links, p.resolved, p.media, p.waived, p.note, v)
                /\ RowIs([p EXCEPT !.resolved = v], p.state, p.links, v, p.media, p.waived, p.note, p.meta)
           /\ \A v \in {"none", "pending", "confirmed"} :
                RowIs([p EXCEPT !.note = v], p.state, p.links, p.resolved, p.media, p.waived, v, p.meta)
           /\ \A v \in Seq(Link), u \in [Media -> AltType] :
                RowIs([p EXCEPT !.links = v, !.media = u], p.state, v, p.resolved, u, p.waived, p.note, p.meta)
           /\ \A v \in Seq(Link), u \in BOOLEAN, x \in [Media -> AltType] :
                RowIs([p EXCEPT !.links = v, !.resolved = u, !.media = x],
                      p.state, v, u, x, p.waived, p.note, p.meta)
BY DEF RowType, RowIs

LEMMA AskFields ==
    ASSUME NEW a \in AskType
    PROVE  /\ a.open \in [Kind -> Nat] /\ a.done \in SUBSET Kind /\ a.cancel \in BOOLEAN
           /\ a.checklist \in BOOLEAN /\ a.conf \in ConfType /\ a.live \in SUBSET Msg
           /\ a.gone \in SUBSET Msg /\ a.late \in BOOLEAN
BY DEF AskType

\* n is the requests with these fields.
AskIs(n, o, d, c, k, f, l, g, t) ==
    /\ n \in AskType
    /\ n.open = o /\ n.done = d /\ n.cancel = c /\ n.checklist = k
    /\ n.conf = f /\ n.live = l /\ n.gone = g /\ n.late = t

LEMMA AskUpdates ==
    ASSUME NEW a \in AskType
    PROVE  /\ \A v \in [Kind -> Nat], u \in SUBSET Kind :
                AskIs([a EXCEPT !.open = v, !.done = u],
                      v, u, a.cancel, a.checklist, a.conf, a.live, a.gone, a.late)
           /\ \A v \in ConfType, u \in SUBSET Msg :
                AskIs([a EXCEPT !.conf = v, !.live = u],
                      a.open, a.done, a.cancel, a.checklist, v, u, a.gone, a.late)
           /\ \A v \in SUBSET Msg, u \in SUBSET Msg :
                AskIs([a EXCEPT !.live = v, !.gone = u],
                      a.open, a.done, a.cancel, a.checklist, a.conf, v, u, a.late)
           /\ \A v \in SUBSET Msg :
                AskIs([a EXCEPT !.live = v],
                      a.open, a.done, a.cancel, a.checklist, a.conf, v, a.gone, a.late)
           /\ \A v \in BOOLEAN :
                AskIs([a EXCEPT !.late = v],
                      a.open, a.done, a.cancel, a.checklist, a.conf, a.live, a.gone, v)
BY DEF AskType, AskIs

LEMMA ConfFields ==
    ASSUME NEW c \in ConfType
    PROVE  /\ c.row \in {"none", "open", "confirmed"} /\ c.id \in ConfId /\ c.msg \in Msg
           /\ \A v \in {"none", "open", "confirmed"} :
                /\ [c EXCEPT !.row = v] \in ConfType /\ [c EXCEPT !.row = v].row = v
                /\ [c EXCEPT !.row = v].msg = c.msg
BY DEF ConfType

LEMMA PlanFields ==
    ASSUME NEW plan \in PlanType
    PROVE  /\ plan.ask \in SUBSET Kind /\ plan.cancel \in BOOLEAN /\ plan.checklist \in BOOLEAN
           /\ plan.retire \in BOOLEAN /\ plan.offer \in BOOLEAN /\ plan.check \in BOOLEAN
           /\ plan.conf \in ConfType
BY DEF PlanType

LEMMA JobFields ==
    ASSUME NEW j \in JobType
    PROVE  /\ j.at \in {"idle", "sending", "torn", "listed", "rebuilt", "restored"}
           /\ j.plan \in PlanType /\ j.kept \in [Media -> AltType]
           /\ \A v \in {"torn", "listed", "rebuilt", "restored"} :
                /\ [j EXCEPT !.at = v] \in JobType /\ [j EXCEPT !.at = v].at = v
                /\ [j EXCEPT !.at = v].plan = j.plan
BY DEF JobType

LEMMA JobSending ==
    ASSUME NEW j \in JobType, NEW q \in PlanType
    PROVE  LET n == [j EXCEPT !.at = "sending", !.plan = q]
           IN  n \in JobType /\ n.at = "sending" /\ n.plan = q
BY DEF JobType

LEMMA IdleFields ==
    /\ NoPlan \in PlanType /\ NoPlan.ask = {}
    /\ Idle \in JobType /\ Idle.at = "idle" /\ Idle.plan = NoPlan
    /\ \A f \in [Media -> AltType] :
        /\ [Idle EXCEPT !.at = "torn", !.kept = f] \in JobType
        /\ [Idle EXCEPT !.at = "torn", !.kept = f].at = "torn"
        /\ [Idle EXCEPT !.at = "torn", !.kept = f].plan = NoPlan
<1>1. NoPlan \in PlanType /\ NoPlan.ask = {}
    BY AbsentType DEF NoPlan, PlanType
<1>. QED BY <1>1, AbsentType DEF Idle, JobType

LEMMA ReplayFields ==
    /\ NoReplay \in ReplayType /\ NoReplay.at = "off" /\ NoReplay.next = 1 /\ NoReplay.last = 0
    /\ \A r \in ReplayType :
        /\ r.at \in {"off", "scan", "scanning", "scanned", "replies"} /\ r.next \in Nat /\ r.last \in Nat
        /\ \A v \in {"off", "scan", "scanning", "scanned", "replies"} :
            /\ [r EXCEPT !.at = v] \in ReplayType /\ [r EXCEPT !.at = v].at = v
            /\ [r EXCEPT !.at = v].next = r.next /\ [r EXCEPT !.at = v].last = r.last
        /\ [r EXCEPT !.next = @ + 1] \in ReplayType /\ [r EXCEPT !.next = @ + 1].at = r.at
        /\ [r EXCEPT !.next = @ + 1].next = r.next + 1 /\ [r EXCEPT !.next = @ + 1].last = r.last
    /\ \A n \in Nat : [at |-> "replies", next |-> 1, last |-> n] \in ReplayType
BY DEF NoReplay, ReplayType

-----------------------------------------------------------------------------
(* What is missing, and what is done about it.                             *)

LEMMA GapFacts ==
    ASSUME NEW p \in RowType
    PROVE  /\ MissingAlt(p) = Gaps(p) \cap Media /\ Gaps(p) \subseteq Kind
           /\ Askable(p) \subseteq Gaps(p) /\ (Gaps(p) # {} => Askable(p) # {})
           /\ "source" \in Gaps(p) <=> MissingSource(p)
           /\ "metadata" \in Gaps(p) <=> MissingMetadata(p)
           /\ "image" \in Gaps(p) <=> MissingImage(p)
           /\ "source" \in Askable(p) <=> MissingSource(p)
           /\ "metadata" \in Askable(p) <=> MissingMetadata(p)
           /\ "moreImages" \notin Askable(p) /\ "moreLinks" \notin Askable(p)
           /\ Gaps(p) \subseteq {"source", "metadata", "image"} \cup Media
<1>1. MissingAlt(p) \subseteq Media
    BY DEF MissingAlt
<1>2. Gaps(p) \subseteq {"source", "metadata", "image"} \cup Media
    BY <1>1, KindsDiffer DEF Gaps
<1>3. /\ "source" \in Gaps(p) <=> MissingSource(p)
      /\ "metadata" \in Gaps(p) <=> MissingMetadata(p)
      /\ "image" \in Gaps(p) <=> MissingImage(p)
    BY <1>1, KindsDiffer DEF Gaps
<1>4. MissingAlt(p) = Gaps(p) \cap Media
    BY <1>1, KindsDiffer DEF Gaps
<1>. HIDE DEF Gaps
<1>5. Askable(p) \subseteq Gaps(p) /\ (Gaps(p) # {} => Askable(p) # {})
    BY <1>3 DEF Askable
<1>. QED BY <1>2, <1>3, <1>4, <1>5, KindsDiffer DEF Askable

\* Only the state differs.
Alike(q, p) == /\ q.links = p.links /\ q.resolved = p.resolved /\ q.media = p.media
               /\ q.waived = p.waived /\ q.note = p.note /\ q.meta = p.meta

LEMMA GapsAlike ==
    ASSUME NEW p, NEW q, Alike(q, p)
    PROVE  /\ Gaps(q) = Gaps(p) /\ Askable(q) = Askable(p) /\ Has(q) = Has(p)
           /\ MissingSource(q) = MissingSource(p) /\ MissingMetadata(q) = MissingMetadata(p)
           /\ MissingImage(q) = MissingImage(p)
<1>1. Has(q) = Has(p) /\ MissingAlt(q) = MissingAlt(p)
    BY DEF Alike, Has, MissingAlt
<1>2. PostKind(q) = PostKind(p)
    BY <1>1 DEF Alike, PostKind, IsRepost
<1>3. /\ MissingSource(q) = MissingSource(p) /\ MissingMetadata(q) = MissingMetadata(p)
      /\ MissingImage(q) = MissingImage(p)
    BY <1>2 DEF Alike, MissingSource, MissingMetadata, MissingImage
<1>4. Gaps(q) = Gaps(p)
    BY <1>1, <1>3 DEF Gaps
<1>. QED BY <1>1, <1>3, <1>4 DEF Askable

LEMMA EvaluatedFacts ==
    ASSUME NEW p \in RowType
    PROVE  /\ Evaluated(p) \in State \ (Terminal \cup {"intent_submitted"})
           /\ Evaluated(p) = "ready_to_queue" <=> Gaps(p) = {}
           /\ Gaps(p) # {} => Evaluated(p) \in Pending
<1>1. Evaluated(p) \in State \ (Terminal \cup {"intent_submitted"})
    BY DEF Evaluated, State, Terminal, Pending
<1>2. Evaluated(p) = "ready_to_queue" <=>
        ~MissingSource(p) /\ ~MissingMetadata(p) /\ ~MissingImage(p) /\ MissingAlt(p) = {}
    BY DEF Evaluated
<1>3. Gaps(p) = {} <=>
        ~MissingSource(p) /\ ~MissingMetadata(p) /\ ~MissingImage(p) /\ MissingAlt(p) = {}
    BY GapFacts
<1>4. Evaluated(p) # "ready_to_queue" => Evaluated(p) \in Pending
    BY DEF Evaluated, Pending
<1>. QED BY <1>1, <1>2, <1>3, <1>4

LEMMA SettledEffect ==
    ASSUME NEW p \in RowType
    PROVE  /\ Settled(p) \in RowType /\ Alike(Settled(p), p)
           /\ Settled(p).state = IF p.state \in Terminal THEN p.state ELSE Evaluated(p)
<1>1. RowIs([p EXCEPT !.state = Evaluated(p)],
            Evaluated(p), p.links, p.resolved, p.media, p.waived, p.note, p.meta)
    BY RowUpdates, EvaluatedFacts
<1>. QED BY <1>1 DEF Settled, Alike, RowIs

LEMMA PlanEffect ==
    ASSUME NEW p \in RowType, NEW a \in AskType
    PROVE  /\ Plan(p, a) \in PlanType
           /\ \A k \in Askable(p) : a.open[k] > 0 \/ k \in Plan(p, a).ask
           /\ \A k \in Plan(p, a).ask :
                a.open[k] = 0 /\ (k \in Askable(p) \/ k \in {"moreImages", "moreLinks"})
           /\ "moreLinks" \in Plan(p, a).ask => p.links # <<>>
           /\ Plan(p, a).cancel = ~a.cancel
           /\ Plan(p, a).retire <=> p.state \notin Terminal /\ Gaps(p) # {} /\ a.conf.row = "open"
           /\ Plan(p, a).offer <=> p.state \notin Terminal /\ Gaps(p) = {} /\ a.conf.row # "open"
           /\ Plan(p, a).check => p.state \notin Terminal /\ Gaps(p) = {} /\ a.conf.row = "open"
           /\ Plan(p, a).conf = a.conf
<1>. DEFINE offers == {k \in {"moreImages", "moreLinks"} :
                          p.state \notin Terminal /\ (k = "moreLinks" => p.links # <<>>)}
            toAsk == {k \in Askable(p) \cup offers : a.open[k] = 0}
            going == p.state \notin Terminal
            ready == going /\ Evaluated(p) = "ready_to_queue"
            open == a.conf.row = "open"
<1>1. Plan(p, a) = [ask |-> toAsk, cancel |-> ~a.cancel, checklist |-> going,
                    retire |-> going /\ ~ready /\ open, offer |-> ready /\ ~open,
                    check |-> ready /\ open /\ p.state = "ready_to_queue", conf |-> a.conf]
    BY DEF Plan
<1>2. toAsk \subseteq Kind
    BY GapFacts, KindsDiffer
<1>3. /\ \A k \in Askable(p) : a.open[k] > 0 \/ k \in toAsk
      /\ \A k \in toAsk : a.open[k] = 0 /\ (k \in Askable(p) \/ k \in {"moreImages", "moreLinks"})
      /\ "moreLinks" \in toAsk => p.links # <<>>
    <2>1. Askable(p) \subseteq Kind /\ "moreLinks" \notin Askable(p)
        BY GapFacts
    <2>2. \A k \in Kind : a.open[k] \in Nat
        BY AskFields
    <2>. QED BY <2>1, <2>2
<1>4. ready <=> going /\ Gaps(p) = {}
    BY EvaluatedFacts
<1>5. a.conf \in ConfType
    BY AskFields
<1>. HIDE DEF toAsk, ready, open, going
<1>6. Plan(p, a) \in PlanType
    <2>1. going \in BOOLEAN /\ ready \in BOOLEAN /\ open \in BOOLEAN
        BY DEF going, ready, open
    <2>. QED BY <1>1, <1>2, <1>5, <2>1 DEF PlanType
<1>7. /\ Plan(p, a).ask = toAsk /\ Plan(p, a).cancel = ~a.cancel /\ Plan(p, a).conf = a.conf
      /\ Plan(p, a).retire = (going /\ ~ready /\ open) /\ Plan(p, a).offer = (ready /\ ~open)
      /\ Plan(p, a).check = (ready /\ open /\ p.state = "ready_to_queue")
    BY <1>1
<1>. QED BY <1>3, <1>4, <1>6, <1>7 DEF going, open

LEMMA TextFacts ==
    /\ \A m \in Media : Received(m) \in AltType /\ Received(m).status # "absent"
    /\ \A t \in Text \cup {None} : Given(t) \in AltType /\ Given(t).status \notin {"absent", "needed"}
    /\ \A x \in AltType : x.status \in {"absent", "needed", "provided", "skipped"}
                          /\ x.text \in Text \cup {None}
<1>1. (CHOOSE t \in Text : TRUE) \in Text
    BY CurationAssumption
<1>. QED BY <1>1 DEF Received, Given, AltType

LEMMA AnsweredEffect ==
    ASSUME NEW a \in AskType, NEW k \in Kind
    PROVE  LET o == [a.open EXCEPT ![k] = IF a.open[k] > 0 THEN a.open[k] - 1 ELSE 0]
           IN  AskIs(Answered(a, k), o, a.done \cup {k}, a.cancel, a.checklist, a.conf, a.live,
                     a.gone, a.late)
<1>. DEFINE o == [a.open EXCEPT ![k] = IF a.open[k] > 0 THEN a.open[k] - 1 ELSE 0]
<1>1. a.open \in [Kind -> Nat] /\ a.done \cup {k} \in SUBSET Kind
    BY AskFields
<1>2. o \in [Kind -> Nat]
    BY <1>1
<1>3. Answered(a, k) = [a EXCEPT !.open = o, !.done = a.done \cup {k}]
    BY Zenon DEF Answered
<1>. HIDE DEF o
<1>4. AskIs(Answered(a, k), o, a.done \cup {k}, a.cancel, a.checklist, a.conf, a.live, a.gone, a.late)
    <2>1. AskIs([a EXCEPT !.open = o, !.done = a.done \cup {k}], o, a.done \cup {k}, a.cancel,
                a.checklist, a.conf, a.live, a.gone, a.late)
        BY <1>1, <1>2, AskUpdates
    <2>. QED BY <1>3, <2>1, Zenon
<1>. QED BY <1>4 DEF o

\* The parts of Perform.
Lost(a, plan)     == plan.check /\ plan.conf.msg \in a.gone
Posts(a, plan, R) == (plan.offer \/ Lost(a, plan)) /\ "offer" \notin R
Retained(a, plan) == IF (plan.retire \/ Lost(a, plan)) /\ a.conf.id = plan.conf.id
                     THEN [a.conf EXCEPT !.row = "none"] ELSE a.conf
Clash(a, plan, R) == \/ plan.cancel /\ "cancel" \notin R /\ a.cancel
                     \/ Posts(a, plan, R) /\ Retained(a, plan).row # "none"

\* n is a after the sends of the plan without those of R, and their record.
Performed(n, a, plan, R) ==
    /\ n \in AskType
    /\ n.done = a.done /\ n.late = a.late /\ n.gone \subseteq a.gone
    /\ Clash(a, plan, R) => n.open = a.open /\ n.conf = a.conf /\ n.cancel = a.cancel
    /\ ~Clash(a, plan, R) =>
        /\ n.open = [k \in Kind |-> a.open[k] + IF k \in plan.ask \ R THEN 1 ELSE 0]
        /\ n.cancel = (a.cancel \/ (plan.cancel /\ "cancel" \notin R))
        /\ Posts(a, plan, R) => n.conf.row = "open" /\ n.conf.msg \in n.live
        /\ ~Posts(a, plan, R) => n.conf = Retained(a, plan)
    /\ \A m \in a.live : m \in n.live \/ (plan.retire /\ m = plan.conf.msg)

LEMMA PerformEffect ==
    ASSUME NEW a \in AskType, NEW plan \in PlanType, NEW R, NEW i \in ConfId, CanOffer(a, plan)
    PROVE  Performed(Perform(a, plan, R, i), a, plan, R)
<1>. DEFINE post == Posts(a, plan, R)
            new == CHOOSE m \in Unused(a, plan) : TRUE
            live == (IF plan.retire THEN a.live \ {plan.conf.msg} ELSE a.live)
                    \cup (IF post THEN {new} ELSE {})
            gone == IF post THEN a.gone \ {new} ELSE a.gone
            kept == Retained(a, plan)
            cancel == plan.cancel /\ "cancel" \notin R
            open == [k \in Kind |-> a.open[k] + IF k \in plan.ask \ R THEN 1 ELSE 0]
            conf == IF post THEN [row |-> "open", id |-> i, msg |-> new] ELSE kept
            list == a.checklist \/ plan.checklist
            n == Perform(a, plan, R, i)
<1>1. n = IF Clash(a, plan, R) THEN [a EXCEPT !.live = live, !.gone = gone]
          ELSE [a EXCEPT !.live = live, !.gone = gone, !.open = open,
                         !.cancel = a.cancel \/ cancel, !.checklist = list, !.conf = conf]
    BY Zenon DEF Perform, Clash, Posts, Retained, Lost
<1>2. post => new \in Msg
    BY PlanFields DEF Posts, Lost, CanOffer, Unused
<1>3. live \in SUBSET Msg /\ gone \in SUBSET Msg
    BY <1>2, AskFields
<1>4. kept \in ConfType
    BY AskFields, ConfFields DEF Retained
<1>5. conf \in ConfType
    BY <1>2, <1>4 DEF ConfType
<1>6. open \in [Kind -> Nat]
    BY AskFields
<1>7. a.cancel \in BOOLEAN /\ list \in BOOLEAN /\ (a.cancel \/ cancel) \in BOOLEAN
    BY AskFields, PlanFields
<1>8. /\ \A m \in a.live : m \in live \/ (plan.retire /\ m = plan.conf.msg)
      /\ post => new \in live
      /\ gone \subseteq a.gone
      /\ post => conf.row = "open" /\ conf.msg = new
      /\ ~post => conf = kept
    OBVIOUS
<1>. HIDE DEF live, gone, open, cancel, list, conf, n, new, kept, post
<1>9. CASE Clash(a, plan, R)
    <2>1. AskIs(n, a.open, a.done, a.cancel, a.checklist, a.conf, live, gone, a.late)
        BY <1>1, <1>3, <1>9, AskUpdates
    <2>. QED BY <1>8, <1>9, <2>1 DEF AskIs, n, Performed
<1>10. CASE ~Clash(a, plan, R)
    <2>1. AskIs(n, open, a.done, a.cancel \/ cancel, list, conf, live, gone, a.late)
        <3>. DEFINE c == a.cancel \/ cancel
        <3>1. c \in BOOLEAN
            BY <1>7
        <3>. HIDE DEF c
        <3>2. AskIs([a EXCEPT !.live = live, !.gone = gone, !.open = open, !.cancel = c,
                              !.checklist = list, !.conf = conf],
                    open, a.done, c, list, conf, live, gone, a.late)
            BY <1>3, <1>5, <1>6, <1>7, <3>1 DEF AskType, AskIs
        <3>. QED BY <1>1, <1>10, <3>2, Zenon DEF c
    <2>2. /\ n \in AskType /\ n.done = a.done /\ n.late = a.late /\ n.gone = gone
          /\ n.open = open /\ n.cancel = (a.cancel \/ cancel) /\ n.conf = conf /\ n.live = live
        BY <2>1 DEF AskIs
    <2>3. post => n.conf.row = "open" /\ n.conf.msg \in n.live
        BY <1>8, <2>2
    <2>. QED BY <1>8, <1>10, <2>2, <2>3 DEF n, open, cancel, kept, post, Performed
<1>. QED BY <1>9, <1>10

LEMMA UsedFacts ==
    ASSUME NEW u \in UsedType
    PROVE  /\ u.edits \in Nat /\ u.notes \in Nat /\ u.forms \in Nat /\ u.reactions \in Nat
           /\ u.reingests \in Nat /\ u.restarts \in Nat /\ u.failures \in Nat /\ u.deletes \in Nat
BY CurationAssumption DEF UsedType

\* n is the environment used up so far with these fields.
UsedIs(n, e, c, f, r, g, s, x, d) ==
    /\ n \in UsedType
    /\ n.edits = e /\ n.notes = c /\ n.forms = f /\ n.reactions = r
    /\ n.reingests = g /\ n.restarts = s /\ n.failures = x /\ n.deletes = d

LEMMA UsedUpdates ==
    ASSUME NEW u \in UsedType
    PROVE  /\ \A v \in 0 .. MaxEdits :
                UsedIs([u EXCEPT !.edits = v], v, u.notes, u.forms, u.reactions, u.reingests, u.restarts, u.failures, u.deletes)
           /\ \A v \in 0 .. MaxNotes :
                UsedIs([u EXCEPT !.notes = v], u.edits, v, u.forms, u.reactions, u.reingests, u.restarts, u.failures, u.deletes)
           /\ \A v \in 0 .. MaxForms :
                UsedIs([u EXCEPT !.forms = v], u.edits, u.notes, v, u.reactions, u.reingests, u.restarts, u.failures, u.deletes)
           /\ \A v \in 0 .. MaxReactions :
                UsedIs([u EXCEPT !.reactions = v], u.edits, u.notes, u.forms, v, u.reingests, u.restarts, u.failures, u.deletes)
           /\ \A v \in 0 .. MaxReingests :
                UsedIs([u EXCEPT !.reingests = v], u.edits, u.notes, u.forms, u.reactions, v, u.restarts, u.failures, u.deletes)
           /\ \A v \in 0 .. MaxRestarts :
                UsedIs([u EXCEPT !.restarts = v], u.edits, u.notes, u.forms, u.reactions, u.reingests, v, u.failures, u.deletes)
           /\ \A v \in 0 .. MaxFailures :
                UsedIs([u EXCEPT !.failures = v], u.edits, u.notes, u.forms, u.reactions, u.reingests, u.restarts, v, u.deletes)
           /\ \A v \in 0 .. MaxDeletes :
                UsedIs([u EXCEPT !.deletes = v], u.edits, u.notes, u.forms, u.reactions, u.reingests, u.restarts, u.failures, v)
BY DEF UsedType, UsedIs

\* n is u with one more of k.
OneMore(n, u, k) ==
    /\ n \in UsedType
    /\ \A j \in {"notes", "reactions", "reingests", "restarts", "failures", "deletes"} :
        n[j] = IF j = k THEN u[j] + 1 ELSE u[j]

LEMMA OneMoreOf ==
    ASSUME NEW u \in UsedType, NEW k \in DOMAIN Limits, u[k] < Limits[k]
    PROVE  OneMore([u EXCEPT ![k] = u[k] + 1], u, k)
<1>1. CASE k = "edits"
    <2>1. u.edits + 1 \in 0 .. MaxEdits
        BY <1>1, UsedFacts, CurationAssumption DEF Limits
    <2>2. UsedIs([u EXCEPT !.edits = u.edits + 1], u.edits + 1, u.notes, u.forms, u.reactions, u.reingests, u.restarts, u.failures, u.deletes)
        BY <2>1, UsedUpdates
    <2>3. OneMore([u EXCEPT !.edits = u.edits + 1], u, "edits")
        BY <2>2, Zenon DEF UsedIs, OneMore
    <2>. QED BY <1>1, <2>3, Zenon
<1>2. CASE k = "notes"
    <2>1. u.notes + 1 \in 0 .. MaxNotes
        BY <1>2, UsedFacts, CurationAssumption DEF Limits
    <2>2. UsedIs([u EXCEPT !.notes = u.notes + 1], u.edits, u.notes + 1, u.forms, u.reactions, u.reingests, u.restarts, u.failures, u.deletes)
        BY <2>1, UsedUpdates
    <2>3. OneMore([u EXCEPT !.notes = u.notes + 1], u, "notes")
        BY <2>2, Zenon DEF UsedIs, OneMore
    <2>. QED BY <1>2, <2>3, Zenon
<1>3. CASE k = "forms"
    <2>1. u.forms + 1 \in 0 .. MaxForms
        BY <1>3, UsedFacts, CurationAssumption DEF Limits
    <2>2. UsedIs([u EXCEPT !.forms = u.forms + 1], u.edits, u.notes, u.forms + 1, u.reactions, u.reingests, u.restarts, u.failures, u.deletes)
        BY <2>1, UsedUpdates
    <2>3. OneMore([u EXCEPT !.forms = u.forms + 1], u, "forms")
        BY <2>2, Zenon DEF UsedIs, OneMore
    <2>. QED BY <1>3, <2>3, Zenon
<1>4. CASE k = "reactions"
    <2>1. u.reactions + 1 \in 0 .. MaxReactions
        BY <1>4, UsedFacts, CurationAssumption DEF Limits
    <2>2. UsedIs([u EXCEPT !.reactions = u.reactions + 1], u.edits, u.notes, u.forms, u.reactions + 1, u.reingests, u.restarts, u.failures, u.deletes)
        BY <2>1, UsedUpdates
    <2>3. OneMore([u EXCEPT !.reactions = u.reactions + 1], u, "reactions")
        BY <2>2, Zenon DEF UsedIs, OneMore
    <2>. QED BY <1>4, <2>3, Zenon
<1>5. CASE k = "reingests"
    <2>1. u.reingests + 1 \in 0 .. MaxReingests
        BY <1>5, UsedFacts, CurationAssumption DEF Limits
    <2>2. UsedIs([u EXCEPT !.reingests = u.reingests + 1], u.edits, u.notes, u.forms, u.reactions, u.reingests + 1, u.restarts, u.failures, u.deletes)
        BY <2>1, UsedUpdates
    <2>3. OneMore([u EXCEPT !.reingests = u.reingests + 1], u, "reingests")
        BY <2>2, Zenon DEF UsedIs, OneMore
    <2>. QED BY <1>5, <2>3, Zenon
<1>6. CASE k = "restarts"
    <2>1. u.restarts + 1 \in 0 .. MaxRestarts
        BY <1>6, UsedFacts, CurationAssumption DEF Limits
    <2>2. UsedIs([u EXCEPT !.restarts = u.restarts + 1], u.edits, u.notes, u.forms, u.reactions, u.reingests, u.restarts + 1, u.failures, u.deletes)
        BY <2>1, UsedUpdates
    <2>3. OneMore([u EXCEPT !.restarts = u.restarts + 1], u, "restarts")
        BY <2>2, Zenon DEF UsedIs, OneMore
    <2>. QED BY <1>6, <2>3, Zenon
<1>7. CASE k = "failures"
    <2>1. u.failures + 1 \in 0 .. MaxFailures
        BY <1>7, UsedFacts, CurationAssumption DEF Limits
    <2>2. UsedIs([u EXCEPT !.failures = u.failures + 1], u.edits, u.notes, u.forms, u.reactions, u.reingests, u.restarts, u.failures + 1, u.deletes)
        BY <2>1, UsedUpdates
    <2>3. OneMore([u EXCEPT !.failures = u.failures + 1], u, "failures")
        BY <2>2, Zenon DEF UsedIs, OneMore
    <2>. QED BY <1>7, <2>3, Zenon
<1>8. CASE k = "deletes"
    <2>1. u.deletes + 1 \in 0 .. MaxDeletes
        BY <1>8, UsedFacts, CurationAssumption DEF Limits
    <2>2. UsedIs([u EXCEPT !.deletes = u.deletes + 1], u.edits, u.notes, u.forms, u.reactions, u.reingests, u.restarts, u.failures, u.deletes + 1)
        BY <2>1, UsedUpdates
    <2>3. OneMore([u EXCEPT !.deletes = u.deletes + 1], u, "deletes")
        BY <2>2, Zenon DEF UsedIs, OneMore
    <2>. QED BY <1>8, <2>3, Zenon
<1>9. k \in {"edits", "notes", "forms", "reactions", "reingests", "restarts", "failures", "deletes"}
    BY DEF Limits
<1>. QED BY <1>1, <1>2, <1>3, <1>4, <1>5, <1>6, <1>7, <1>8, <1>9

\* Of what restricts the theorems, only failures may differ.
SameUse(n, u) ==
    /\ n.notes = u.notes /\ n.reactions = u.reactions /\ n.reingests = u.reingests
    /\ n.restarts = u.restarts /\ n.deletes = u.deletes /\ n.failures >= u.failures

LEMMA UseSelf == ASSUME NEW u \in UsedType PROVE SameUse(u, u)
BY UsedFacts DEF SameUse

LEMMA UseEdit ==
    ASSUME NEW u \in UsedType, u.edits < MaxEdits
    PROVE  LET n == [u EXCEPT !.edits = u.edits + 1]
           IN  n \in UsedType /\ SameUse(n, u) /\ n.failures = u.failures
<1>. DEFINE n == [u EXCEPT !.edits = u.edits + 1]
<1>1. OneMore(n, u, "edits")
    BY OneMoreOf DEF Limits
<1>. HIDE DEF n
<1>. QED BY <1>1, UsedFacts DEF OneMore, SameUse, n

LEMMA UseFailure ==
    ASSUME NEW u \in UsedType, u.failures < MaxFailures
    PROVE  LET n == [u EXCEPT !.failures = u.failures + 1]
           IN  n \in UsedType /\ SameUse(n, u) /\ n.failures = u.failures + 1
<1>. DEFINE n == [u EXCEPT !.failures = u.failures + 1]
<1>1. OneMore(n, u, "failures")
    BY OneMoreOf DEF Limits
<1>. HIDE DEF n
<1>. QED BY <1>1, UsedFacts DEF OneMore, SameUse, n

LEMMA SendsRefused ==
    ASSUME NEW u \in UsedType, NEW plan, NEW R, used \in UsedType, u.failures = used.failures,
           Refuse(u, plan, R)
    PROVE  /\ used' \in UsedType /\ SameUse(used', u)
           /\ used'.failures = 0 => R = {}
<1>1. CASE R = {}
    BY <1>1, UseSelf DEF Refuse
<1>2. CASE R # {}
    <2>1. used["failures"] < Limits["failures"] /\ used' = [u EXCEPT !.failures = u.failures + 1]
        BY <1>2 DEF Refuse, CanSpend
    <2>2. Limits["failures"] = MaxFailures
        BY DEF Limits
    <2>3. u.failures < MaxFailures
        BY <2>1, <2>2
    <2>4. used' \in UsedType /\ SameUse(used', u) /\ used'.failures = u.failures + 1
        BY <2>1, <2>3, UseFailure
    <2>. QED BY <2>4, UsedFacts
<1>. QED BY <1>1, <1>2

\* a is b after answers to the requests of K.
Answers(a, b, K) ==
    /\ \A k \in Kind \ K : a.open[k] = b.open[k]
    /\ \A k \in K : a.open[k] <= b.open[k] /\ (b.open[k] <= 1 => a.open[k] = 0)
    /\ a.cancel = b.cancel /\ a.conf = b.conf /\ a.live = b.live /\ a.gone = b.gone /\ a.late = b.late

LEMMA AnswerOne ==
    ASSUME NEW b \in AskType, NEW k \in Kind
    PROVE  Answered(b, k) \in AskType /\ Answers(Answered(b, k), b, {k})
<1>. DEFINE o == [b.open EXCEPT ![k] = IF b.open[k] > 0 THEN b.open[k] - 1 ELSE 0]
<1>1. AskIs(Answered(b, k), o, b.done \cup {k}, b.cancel, b.checklist, b.conf, b.live, b.gone, b.late)
    BY AnsweredEffect
<1>2. \A j \in Kind \ {k} : o[j] = b.open[j]
    BY AskFields
<1>3. o[k] <= b.open[k] /\ (b.open[k] <= 1 => o[k] = 0)
    <2>1. b.open[k] \in Nat /\ o[k] = IF b.open[k] > 0 THEN b.open[k] - 1 ELSE 0
        BY AskFields
    <2>. QED BY <2>1
<1>. QED BY <1>1, <1>2, <1>3 DEF AskIs, Answers

LEMMA AnswerNone == ASSUME NEW b \in AskType PROVE Answers(b, b, {})
BY DEF Answers

\* A recompute over the row p, after answers to K.
Recomputing(p, K) ==
    \E a \in AskType, u \in UsedType :
        /\ Answers(a, ask, K) /\ SameUse(u, used) /\ u.failures = used.failures
        /\ Recompute(p, a, u)

\* What such a recompute leaves.
Recorded(p, a, R, i) ==
    /\ R \subseteq Sends(Plan(p, a)) /\ CanOffer(a, Plan(p, a))
    /\ ask' = Perform(a, Plan(p, a), R, i)
    /\ used'.failures = 0 => R = {}

LEMMA RecomputingEffect ==
    ASSUME TypeOK, NEW p \in RowType, NEW K, Recomputing(p, K)
    PROVE  /\ row' \in RowType /\ Alike(row', p)
           /\ row'.state = IF p.state \in Terminal THEN p.state ELSE Evaluated(p)
           /\ ask' \in AskType /\ ask'.late = ask.late
           /\ used' \in UsedType /\ SameUse(used', used)
           /\ \E a \in AskType, i \in ConfId : \E R : Answers(a, ask, K) /\ Recorded(p, a, R, i)
<1>1. PICK a \in AskType, u \in UsedType :
        /\ Answers(a, ask, K) /\ SameUse(u, used) /\ u.failures = used.failures
        /\ Recompute(p, a, u)
    BY DEF Recomputing
<1>2. row' \in RowType /\ Alike(row', p)
      /\ row'.state = IF p.state \in Terminal THEN p.state ELSE Evaluated(p)
    BY <1>1, SettledEffect DEF Recompute
<1>3. CanOffer(a, Plan(p, a))
    BY <1>1 DEF Recompute
<1>4. PICK R \in SUBSET Sends(Plan(p, a)), i \in ConfId :
        Refuse(u, Plan(p, a), R) /\ ask' = Perform(a, Plan(p, a), R, i)
    BY <1>1 DEF Recompute
<1>5. used \in UsedType
    BY DEF TypeOK
<1>6. used' \in UsedType /\ SameUse(used', u) /\ (used'.failures = 0 => R = {})
    BY <1>1, <1>4, <1>5, SendsRefused
<1>7. SameUse(used', used)
    BY <1>1, <1>5, <1>6, UsedFacts DEF SameUse
<1>8. Plan(p, a) \in PlanType
    BY PlanEffect
<1>9. ask' \in AskType /\ ask'.late = a.late
    <2>. DEFINE n == Perform(a, Plan(p, a), R, i)
    <2>1. Performed(n, a, Plan(p, a), R)
        BY <1>3, <1>8, PerformEffect
    <2>2. ask' = n
        BY <1>4
    <2>. HIDE DEF n
    <2>. QED BY <2>1, <2>2 DEF Performed
<1>10. Recorded(p, a, R, i)
    BY <1>3, <1>4, <1>6 DEF Recorded
<1>11. a.late = ask.late
    BY <1>1 DEF Answers
<1>12. \E b \in AskType, j \in ConfId : \E S : Answers(b, ask, K) /\ Recorded(p, b, S, j)
    BY <1>1, <1>4, <1>10, Zenon
<1>. QED BY <1>2, <1>6, <1>7, <1>9, <1>11, <1>12, Zenon

-----------------------------------------------------------------------------
(* The steps that end in a recompute within their own transaction.  p is    *)
(* the row after the answer.                                                *)

Linked(p, l)   == RowIs(p, row.state, Append(row.links, l), TRUE, row.media, row.waived, row.note, row.meta)
Bettered(p, l) == IF row.links = <<>> THEN p = row
                  ELSE RowIs(p, row.state, [row.links EXCEPT ![1] = l], TRUE, row.media,
                             row.waived, row.note, row.meta)
Pictured(p, f) == /\ f \in [Media -> AltType]
                  /\ \A m \in Media : row.media[m].status # "absent" => f[m].status # "absent"
                  /\ RowIs(p, row.state, row.links, row.resolved, f, row.waived, row.note, row.meta)
Waived(p)      == RowIs(p, row.state, row.links, row.resolved, row.media, TRUE, row.note, row.meta)
Trusted(p)     == RowIs(p, row.state, row.links, row.resolved, row.media, row.waived, row.note, TRUE)
Noted(p, t)    == RowIs(p, row.state, row.links, row.resolved, row.media, row.waived, t, row.meta)

Prompted == notes > 0 /\ notes' = notes - 1
Answering ==
    \E p \in RowType :
        \/ \E k \in {"source", "moreLinks"}, l \in Link :
            notes' = notes /\ Open(k) /\ Linked(p, l) /\ Recomputing(p, {k})
        \/ \E l \in Link :
            notes' = notes /\ Open("metadata") /\ Bettered(p, l) /\ Recomputing(p, {"metadata"})
        \/ \E f, K : /\ K \subseteq Media \cup {"image", "moreImages"}
                     /\ notes' = notes /\ Pictured(p, f) /\ Recomputing(p, K)
        \/ notes' = notes /\ Waived(p) /\ Recomputing(p, {"source"})
        \/ notes' = notes /\ Trusted(p) /\ Recomputing(p, {"metadata"})
        \/ Prompted /\ Noted(p, "confirmed") /\ Recomputing(p, {"source"})
        \/ Prompted /\ Noted(p, "none") /\ Recomputing(p, {})
        \/ notes' = notes /\ p = row /\ Recomputing(p, {})

\* The beats, the thread and the catch-up during such a step.
Beside ==
    /\ asked' = asked /\ form' = form
    /\ job' = job \/ (job.at = "restored" /\ job' = Idle)
    /\ said' = said \/ (\E m \in Media, t \in Text : said' = Append(said, [kind |-> m, text |-> t]))
    /\ \/ replay' = replay
       \/ replay.at = "replies" /\ replay.next <= replay.last /\ replay' = [replay EXCEPT !.next = @ + 1]
       \/ replay.at = "replies" /\ replay' = NoReplay

LEMMA Typed == ASSUME TypeOK PROVE row \in RowType /\ ask \in AskType /\ used \in UsedType
BY DEF TypeOK

LEMMA EditUse ==
    ASSUME TypeOK, CanEdit
    PROVE  Edited \in UsedType /\ SameUse(Edited, used) /\ Edited.failures = used.failures
BY Typed, UseEdit DEF CanEdit, Edited

LEMMA Recomputed ==
    ASSUME NEW p \in RowType, NEW a \in AskType, NEW u \in UsedType, NEW K,
           Answers(a, ask, K), SameUse(u, used), u.failures = used.failures, Recompute(p, a, u)
    PROVE  Recomputing(p, K)
BY DEF Recomputing

LEMMA AnswerSource ==
    ASSUME TypeOK
    PROVE  LET a == IF Open("source") THEN Answered(ask, "source") ELSE ask
           IN  a \in AskType /\ Answers(a, ask, {"source"})
<1>1. CASE Open("source")
    BY <1>1, Typed, AnswerOne, KindsDiffer
<1>2. CASE ~Open("source")
    <2>1. ask.open["source"] = 0
        BY <1>2, Typed, AskFields, KindsDiffer DEF Open
    <2>2. Answers(ask, ask, {"source"})
        BY <2>1 DEF Answers
    <2>. QED BY <1>2, <2>2, Typed
<1>. QED BY <1>1, <1>2

LEMMA ReplyLinkAnswers ==
    ASSUME TypeOK, NEW k \in {"source", "moreLinks"}, NEW l \in Link, ReplyLink(k, l)
    PROVE  Answering /\ Beside
<1>. DEFINE p == [row EXCEPT !.links = Append(row.links, l), !.resolved = TRUE]
<1>1. CanEdit /\ Open(k) /\ Recompute(p, Answered(ask, k), Edited) /\ Bystander
    BY DEF ReplyLink
<1>2. Append(row.links, l) \in Seq(Link)
    BY Typed, RowFields
<1>3. Linked(p, l)
    BY <1>2, Typed, RowUpdates DEF Linked
<1>4. Answered(ask, k) \in AskType /\ Answers(Answered(ask, k), ask, {k})
    BY Typed, AnswerOne, KindsDiffer
<1>. HIDE DEF p
<1>5. p \in RowType
    BY <1>3 DEF Linked, RowIs
<1>6. Recomputing(p, {k})
    BY <1>1, <1>4, <1>5, EditUse, Recomputed
<1>. QED BY <1>1, <1>3, <1>5, <1>6 DEF Answering, Bystander, Beside

LEMMA FirstReplaced ==
    ASSUME NEW s \in Seq(Link), NEW l \in Link, s # <<>>
    PROVE  LET n == [s EXCEPT ![1] = l] IN n \in Seq(Link) /\ n # <<>> /\ Head(n) = l
<1>1. 1 \in 1 .. Len(s)
    OBVIOUS
<1>2. [s EXCEPT ![1] = l] \in Seq(Link) /\ Len([s EXCEPT ![1] = l]) = Len(s)
      /\ [s EXCEPT ![1] = l][1] = l
    BY <1>1, ExceptSeq
<1>. QED BY <1>1, <1>2

LEMMA ReplyBetterLinkAnswers ==
    ASSUME TypeOK, NEW l \in Link, ReplyBetterLink(l)
    PROVE  Answering /\ Beside
<1>. DEFINE q == [row EXCEPT !.links = [row.links EXCEPT ![1] = l], !.resolved = TRUE]
            p == IF row.links = <<>> THEN row ELSE q
<1>1. CanEdit /\ Open("metadata") /\ Recompute(p, Answered(ask, "metadata"), Edited) /\ Bystander
    BY DEF ReplyBetterLink
<1>2. row.links # <<>> => [row.links EXCEPT ![1] = l] \in Seq(Link)
    BY Typed, RowFields, FirstReplaced
<1>3. row.links # <<>> =>
        RowIs(q, row.state, [row.links EXCEPT ![1] = l], TRUE, row.media, row.waived, row.note, row.meta)
    BY <1>2, Typed, RowUpdates
<1>. HIDE DEF q
<1>4. Bettered(p, l)
    BY <1>3 DEF Bettered
<1>5. p \in RowType
    BY <1>3, Typed DEF RowIs
<1>6. Answered(ask, "metadata") \in AskType /\ Answers(Answered(ask, "metadata"), ask, {"metadata"})
    BY Typed, AnswerOne, KindsDiffer
<1>. HIDE DEF p
<1>7. Recomputing(p, {"metadata"})
    BY <1>1, <1>5, <1>6, EditUse, Recomputed
<1>. QED BY <1>1, <1>4, <1>5, <1>7 DEF Answering, Bystander, Beside

LEMMA ReplyImageAnswers ==
    ASSUME TypeOK, NEW k \in {"image", "moreImages"}, NEW m \in Media, ReplyImage(k, m)
    PROVE  Answering /\ Beside
<1>. DEFINE f == [row.media EXCEPT ![m] = Received(m)]
            p == [row EXCEPT !.media = f]
<1>1. CanEdit /\ Recompute(p, Answered(ask, k), Edited) /\ Bystander
    BY DEF ReplyImage
<1>2. f \in [Media -> AltType] /\ \A j \in Media : row.media[j].status # "absent" => f[j].status # "absent"
    BY Typed, RowFields, TextFacts
<1>. HIDE DEF f
<1>3. Pictured(p, f)
    BY <1>2, Typed, RowUpdates DEF Pictured
<1>4. Answered(ask, k) \in AskType /\ Answers(Answered(ask, k), ask, {k})
    BY Typed, AnswerOne, KindsDiffer
<1>. HIDE DEF p
<1>5. p \in RowType
    BY <1>3 DEF Pictured, RowIs
<1>6. Recomputing(p, {k})
    BY <1>1, <1>4, <1>5, EditUse, Recomputed
<1>7. {k} \subseteq Media \cup {"image", "moreImages"}
    OBVIOUS
<1>. QED BY <1>1, <1>3, <1>5, <1>6, <1>7 DEF Answering, Bystander, Beside

LEMMA TakeAltAnswers ==
    ASSUME TypeOK, NEW m \in Media, NEW t \in Text \cup {None}, NEW u \in UsedType,
           SameUse(u, used), u.failures = used.failures, TakeAlt(m, t, u), notes' = notes
    PROVE  Answering
<1>. DEFINE f == [row.media EXCEPT ![m] = IF row.media[m].status = "absent" THEN row.media[m] ELSE Given(t)]
            p == [row EXCEPT !.media = f]
<1>1. Recompute(p, Answered(ask, m), u)
    BY DEF TakeAlt
<1>2. f \in [Media -> AltType] /\ \A j \in Media : row.media[j].status # "absent" => f[j].status # "absent"
    BY Typed, RowFields, TextFacts
<1>. HIDE DEF f
<1>3. Pictured(p, f)
    BY <1>2, Typed, RowUpdates DEF Pictured
<1>4. Answered(ask, m) \in AskType /\ Answers(Answered(ask, m), ask, {m})
    BY Typed, AnswerOne, KindsDiffer
<1>. HIDE DEF p
<1>5. p \in RowType
    BY <1>3 DEF Pictured, RowIs
<1>6. Recomputing(p, {m})
    BY <1>1, <1>4, <1>5, Recomputed
<1>7. {m} \subseteq Media \cup {"image", "moreImages"}
    OBVIOUS
<1>. QED BY <1>3, <1>5, <1>6, <1>7 DEF Answering

\* A command that came to nothing.
Stuck == CanEdit /\ used' = Edited /\ UNCHANGED <<row, ask>> /\ Bystander

LEMMA NoteAnswers ==
    ASSUME TypeOK, ConfirmNote \/ RejectNote
    PROVE  Answering /\ Beside
<1>1. CASE ConfirmNote
    <2>. DEFINE p == [row EXCEPT !.note = "confirmed"]
                a == IF Open("source") THEN Answered(ask, "source") ELSE ask
    <2>1. CanEdit /\ Prompted /\ Recompute(p, a, Edited)
          /\ UNCHANGED <<job, asked, form, said, replay>>
        BY <1>1 DEF ConfirmNote, Prompted
    <2>2. Noted(p, "confirmed")
        BY Typed, RowUpdates DEF Noted
    <2>3. a \in AskType /\ Answers(a, ask, {"source"})
        BY AnswerSource
    <2>. HIDE DEF p, a
    <2>4. p \in RowType
        BY <2>2 DEF Noted, RowIs
    <2>5. Recomputing(p, {"source"})
        BY <2>1, <2>3, <2>4, EditUse, Recomputed
    <2>. QED BY <2>1, <2>2, <2>4, <2>5 DEF Answering, Beside
<1>2. CASE RejectNote
    <2>. DEFINE p == [row EXCEPT !.note = "none"]
    <2>1. CanEdit /\ Prompted /\ Recompute(p, ask, Edited)
          /\ UNCHANGED <<job, asked, form, said, replay>>
        BY <1>2 DEF RejectNote, Prompted
    <2>2. Noted(p, "none")
        BY Typed, RowUpdates DEF Noted
    <2>. HIDE DEF p
    <2>3. p \in RowType
        BY <2>2 DEF Noted, RowIs
    <2>4. Recomputing(p, {})
        BY <2>1, <2>3, Typed, AnswerNone, EditUse, Recomputed
    <2>. QED BY <2>1, <2>2, <2>3, <2>4 DEF Answering, Beside
<1>. QED BY <1>1, <1>2

LEMMA ConfirmMetadataAnswers ==
    ASSUME TypeOK, ConfirmMetadata
    PROVE  Answering /\ Beside
<1>. DEFINE p == [row EXCEPT !.meta = TRUE]
<1>1. CanEdit /\ Recompute(p, Answered(ask, "metadata"), Edited) /\ Bystander
    BY DEF ConfirmMetadata
<1>2. Trusted(p)
    BY Typed, RowUpdates DEF Trusted
<1>3. Answered(ask, "metadata") \in AskType /\ Answers(Answered(ask, "metadata"), ask, {"metadata"})
    BY Typed, AnswerOne, KindsDiffer
<1>. HIDE DEF p
<1>4. p \in RowType
    BY <1>2 DEF Trusted, RowIs
<1>5. Recomputing(p, {"metadata"})
    BY <1>1, <1>3, <1>4, EditUse, Recomputed
<1>. QED BY <1>1, <1>2, <1>4, <1>5 DEF Answering, Bystander, Beside

LEMMA NoSourceAnswers ==
    ASSUME TypeOK, NoSource
    PROVE  (Answering /\ Beside) \/ Stuck
<1>. DEFINE p == [row EXCEPT !.waived = TRUE]
            a == IF Open("source") THEN Answered(ask, "source") ELSE ask
<1>1. CanEdit /\ SlashRecompute(p, a) /\ Bystander
    BY DEF NoSource, Bystander
<1>2. Waived(p)
    BY Typed, RowUpdates DEF Waived
<1>3. a \in AskType /\ Answers(a, ask, {"source"})
    BY AnswerSource
<1>. HIDE DEF p, a
<1>4. p \in RowType
    BY <1>2 DEF Waived, RowIs
<1>5. CASE FailsOnChannel(Plan(p, a), a)
    BY <1>1, <1>5 DEF SlashRecompute, Stuck
<1>6. CASE ~FailsOnChannel(Plan(p, a), a)
    <2>1. Recomputing(p, {"source"})
        BY <1>1, <1>3, <1>4, <1>6, EditUse, Recomputed DEF SlashRecompute
    <2>. QED BY <1>1, <1>2, <1>4, <2>1 DEF Answering, Bystander, Beside
<1>. QED BY <1>5, <1>6

LEMMA SkipAltAnswers ==
    ASSUME TypeOK, SkipAlt
    PROVE  (Answering /\ Beside) \/ Stuck
<1>. DEFINE need == MissingAlt(row)
            f == [m \in Media |-> IF m \in need THEN Given(None) ELSE row.media[m]]
            p == [row EXCEPT !.media = f]
            o == [k \in Kind |-> IF k \in need THEN 0 ELSE ask.open[k]]
            d == ask.done \cup {k \in need : Open(k)}
            a == [ask EXCEPT !.open = o, !.done = d]
<1>1. CanEdit /\ SlashRecompute(p, a) /\ Bystander
    BY DEF SkipAlt
<1>2. need \subseteq Media /\ need \subseteq Kind
    BY Typed, GapFacts
<1>3. f \in [Media -> AltType] /\ \A m \in Media : row.media[m].status # "absent" => f[m].status # "absent"
    BY Typed, RowFields, TextFacts
<1>4. o \in [Kind -> Nat] /\ d \in SUBSET Kind
    BY <1>2, Typed, AskFields
<1>5. (\A k \in Kind \ need : o[k] = ask.open[k]) /\ \A k \in need : o[k] = 0 /\ ask.open[k] \in Nat
    BY <1>2, Typed, AskFields
<1>. HIDE DEF f, o, d, need
<1>6. Pictured(p, f)
    BY <1>3, Typed, RowUpdates DEF Pictured
<1>7. AskIs(a, o, d, ask.cancel, ask.checklist, ask.conf, ask.live, ask.gone, ask.late)
    BY <1>4, Typed, AskUpdates
<1>. HIDE DEF p, a
<1>8. p \in RowType /\ a \in AskType
    BY <1>6, <1>7 DEF Pictured, RowIs, AskIs
<1>9. Answers(a, ask, need)
    <2>1. \A k \in need : a.open[k] = 0 /\ a.open[k] <= ask.open[k]
        BY <1>5, <1>7 DEF AskIs
    <2>. QED BY <1>5, <1>7, <2>1 DEF AskIs, Answers
<1>10. CASE FailsOnChannel(Plan(p, a), a)
    BY <1>1, <1>10 DEF SlashRecompute, Stuck
<1>11. CASE ~FailsOnChannel(Plan(p, a), a)
    <2>1. Recomputing(p, need)
        BY <1>1, <1>8, <1>9, <1>11, EditUse, Recomputed DEF SlashRecompute
    <2>2. notes' = notes /\ Beside
        BY <1>1 DEF Bystander, Beside
    <2>. QED BY <1>2, <1>6, <1>8, <2>1, <2>2 DEF Answering
<1>. QED BY <1>10, <1>11

LEMMA PlainAnswers ==
    ASSUME TypeOK, RefuseToQueue \/ ThreadRetried \/ Reingested \/ ThreadCaughtUp
    PROVE  Answering /\ Beside
<1>0. notes' = notes
    BY DEF RefuseToQueue, ThreadRetried, Reingested, ThreadCaughtUp, Bystander
<1>1. Recomputing(row, {})
    <2>1. ASSUME NEW u \in UsedType, SameUse(u, used), u.failures = used.failures, Recompute(row, ask, u)
          PROVE  Recomputing(row, {})
        BY <2>1, Typed, AnswerNone, Recomputed
    <2>. QED BY <2>1, Typed, UseSelf, EditUse DEF RefuseToQueue, ThreadRetried, Reingested, ThreadCaughtUp
<1>2. Beside
    BY DEF RefuseToQueue, ThreadRetried, Reingested, ThreadCaughtUp, Bystander, Beside
<1>. QED BY <1>0, <1>1, <1>2, Typed DEF Answering

LEMMA ReplyAltAnswers ==
    ASSUME TypeOK, NEW m \in Media, NEW t \in Text, ReplyAlt(m, t)
    PROVE  Answering /\ Beside
<1>1. CanEdit /\ TakeAlt(m, t, Edited) /\ notes' = notes
    BY DEF ReplyAlt
<1>2. Answering
    BY <1>1, EditUse, TakeAltAnswers
<1>. QED BY <1>2 DEF ReplyAlt, Beside

\* A reply read again: an alt text once more, a note once more, or nothing.
ReplayNote  == replay.at = "replies" /\ replay.next <= replay.last
               /\ said[replay.next].kind = "source" /\ Open("source") /\ TakeNote /\ UNCHANGED used
               /\ replay' = [replay EXCEPT !.next = @ + 1] /\ UNCHANGED <<job, asked, form, said>>
ReplayNothing == replay.at = "replies" /\ replay.next <= replay.last
                 /\ replay' = [replay EXCEPT !.next = @ + 1]
                 /\ UNCHANGED <<row, ask, job, asked, form, notes, said, used>>

LEMMA ReplayCases ==
    ASSUME TypeOK, ReplayReply
    PROVE  (Answering /\ Beside) \/ ReplayNote \/ ReplayNothing
<1>. DEFINE s == said[replay.next]
<1>1. s \in SaidType
    <2>1. replay.next \in 1 .. Len(said)
        <3>1. replay.next <= replay.last
            BY DEF ReplayReply
        <3>2. /\ replay \in ReplayType /\ replay.next \in 1 .. replay.last + 1
              /\ replay.last <= Len(said) /\ said \in Seq(SaidType)
            BY DEF TypeOK
        <3>3. replay.next \in Nat /\ replay.last \in Nat
            BY <3>2, ReplayFields
        <3>. QED BY <3>1, <3>2, <3>3
    <2>. QED BY <2>1 DEF TypeOK
<1>2. /\ replay.at = "replies" /\ replay.next <= replay.last
      /\ replay' = [replay EXCEPT !.next = @ + 1] /\ UNCHANGED <<job, asked, form, said>>
      /\ \/ s.kind \in Media /\ TakeAlt(s.kind, s.text, used) /\ UNCHANGED notes
         \/ s.kind = "source" /\ Open("source") /\ TakeNote /\ UNCHANGED used
         \/ UNCHANGED <<row, ask, notes, used>>
    BY DEF ReplayReply
<1>3. CASE s.kind \in Media /\ TakeAlt(s.kind, s.text, used) /\ UNCHANGED notes
    <2>1. s.text \in Text \cup {None}
        BY <1>1 DEF SaidType
    <2>2. Answering
        BY <1>3, <2>1, Typed, UseSelf, TakeAltAnswers
    <2>. QED BY <1>2, <2>2 DEF Beside
<1>4. CASE s.kind = "source" /\ Open("source") /\ TakeNote /\ UNCHANGED used
    BY <1>2, <1>4 DEF ReplayNote
<1>5. CASE UNCHANGED <<row, ask, notes, used>>
    BY <1>2, <1>5 DEF ReplayNothing
<1>. QED BY <1>2, <1>3, <1>4, <1>5

\* Every step is a recompute of this kind or one of the others.
Alone ==
    \/ Stuck \/ ReplyNote \/ ReplayNote \/ ReplayNothing
    \/ \E n \in Msg : Queue(n) \/ DeleteQueueMessage(n)
    \/ OpenForm \/ \E m \in Media, t \in Text \cup {None} : SubmitForm(m, t)
    \/ React \/ ScanReact \/ SendAndRecord
    \/ AskReingest \/ FetchFails \/ Teardown \/ Relist \/ Resolve \/ RestoreAlt
    \/ \E s \in Terminal : Publish(s)
    \/ Requeue \/ Restart \/ ListThreads

LEMMA NextCases == ASSUME TypeOK, Next PROVE (Answering /\ Beside) \/ Alone
<1>1. CASE Reply
    BY <1>1, ReplyLinkAnswers, ReplyBetterLinkAnswers, ReplyImageAnswers, ReplyAltAnswers DEF Reply, Alone
<1>2. CASE Button
    BY <1>2, NoteAnswers, ConfirmMetadataAnswers, PlainAnswers DEF Button, Alone
<1>3. CASE Command
    BY <1>3, NoSourceAnswers, SkipAltAnswers DEF Command, Alone
<1>4. CASE Task
    BY <1>4, PlainAnswers, ReplayCases DEF Task, Alone
<1>. QED BY <1>1, <1>2, <1>3, <1>4 DEF Next

-----------------------------------------------------------------------------
(* Types.                                                                  *)

LEMMA Spending ==
    ASSUME TypeOK, NEW k \in DOMAIN Limits, Spend(k)
    PROVE  OneMore(used', used, k)
<1>1. used[k] < Limits[k] /\ used' = [used EXCEPT ![k] = used[k] + 1]
    BY Zenon DEF Spend, CanSpend
<1>. QED BY <1>1, Typed, OneMoreOf

LEMMA Keys == DOMAIN Limits = {"edits", "notes", "forms", "reactions", "reingests", "restarts",
                               "failures", "deletes"}
BY DEF Limits

LEMMA AnsweringTypes == ASSUME TypeOK, Answering, Beside PROVE TypeOK'
<1>1. PICK p \in RowType : \E K : Recomputing(p, K)
    BY DEF Answering
<1>2. row' \in RowType /\ ask' \in AskType /\ used' \in UsedType
    BY <1>1, RecomputingEffect
<1>3. notes' \in Nat
    <2>1. notes \in Nat /\ (notes' = notes \/ Prompted)
        BY DEF TypeOK, Answering
    <2>. QED BY <2>1 DEF Prompted
<1>4. asked' \in BOOLEAN /\ form' \in [Media -> AltType] /\ job' \in JobType
    BY IdleFields DEF TypeOK, Beside
<1>5. said' \in Seq(SaidType) /\ Len(said') >= Len(said)
    <2>1. said \in Seq(SaidType) /\ Len(said) \in Nat
        BY DEF TypeOK
    <2>2. CASE said' = said
        BY <2>1, <2>2
    <2>3. ASSUME NEW m \in Media, NEW t \in Text, said' = Append(said, [kind |-> m, text |-> t])
          PROVE  said' \in Seq(SaidType) /\ Len(said') >= Len(said)
        <3>1. [kind |-> m, text |-> t] \in SaidType
            BY DEF SaidType
        <3>. QED BY <2>1, <2>3, <3>1, AppendProperties
    <2>. QED BY <2>2, <2>3 DEF Beside
<1>6. replay' \in ReplayType /\ replay'.next \in 1 .. replay'.last + 1 /\ replay'.last <= Len(said)
    <2>1. /\ replay \in ReplayType /\ replay.next \in 1 .. replay.last + 1 /\ replay.last <= Len(said)
          /\ Len(said) \in Nat
        BY DEF TypeOK
    <2>2. CASE replay' = replay
        BY <2>1, <2>2
    <2>3. CASE replay.next <= replay.last /\ replay' = [replay EXCEPT !.next = @ + 1]
        <3>1. replay' \in ReplayType /\ replay'.next = replay.next + 1 /\ replay'.last = replay.last
            BY <2>1, <2>3, ReplayFields, Zenon
        <3>2. replay.next \in Nat /\ replay.last \in Nat
            BY <2>1, ReplayFields
        <3>. QED BY <2>1, <2>3, <3>1, <3>2
    <2>4. CASE replay' = NoReplay
        BY <2>1, <2>4, ReplayFields
    <2>. QED BY <2>2, <2>3, <2>4 DEF Beside
<1>7. replay'.last <= Len(said')
    <2>1. replay'.last \in Nat /\ Len(said) \in Nat /\ Len(said') \in Nat
        <3>1. replay'.last \in Nat
            BY <1>6, ReplayFields
        <3>2. said \in Seq(SaidType) /\ said' \in Seq(SaidType)
            BY <1>5 DEF TypeOK
        <3>. QED BY <3>1, <3>2
    <2>. QED BY <1>5, <1>6, <2>1
<1>. QED BY <1>2, <1>3, <1>4, <1>5, <1>6, <1>7 DEF TypeOK

\* The record of the messages that were sent, R refused.
Sent(R) == \E n \in AskType :
              /\ Performed(n, ask, job.plan, R)
              /\ AskIs(ask', n.open, n.done, n.cancel, n.checklist, n.conf, n.live, n.gone,
                       n.late \/ Late(n))

LEMMA SendAndRecordEffect ==
    ASSUME TypeOK, SendAndRecord
    PROVE  /\ job.at = "sending" /\ ask' \in AskType /\ used' \in UsedType /\ SameUse(used', used)
           /\ \E R : Sent(R) /\ (used'.failures = 0 => R = {})
<1>1. job.at = "sending" /\ CanOffer(ask, job.plan)
    BY DEF SendAndRecord
<1>2. PICK R \in SUBSET Sends(job.plan), i \in ConfId :
        /\ Refuse(used, job.plan, R)
        /\ LET a == Perform(ask, job.plan, R, i) IN ask' = [a EXCEPT !.late = a.late \/ Late(a)]
    BY Zenon DEF SendAndRecord
<1>3. job.plan \in PlanType
    BY JobFields DEF TypeOK
<1>. DEFINE n == Perform(ask, job.plan, R, i)
            b == n.late \/ Late(n)
<1>4. ask' = [n EXCEPT !.late = b]
    BY <1>2
<1>5. Performed(n, ask, job.plan, R)
    BY <1>1, <1>3, Typed, PerformEffect
<1>. HIDE DEF n
<1>6. n \in AskType
    BY <1>5 DEF Performed
<1>7. b \in BOOLEAN
    BY DEF Late
<1>. HIDE DEF b
<1>8. AskIs(ask', n.open, n.done, n.cancel, n.checklist, n.conf, n.live, n.gone, b)
    <2>1. AskIs([n EXCEPT !.late = b], n.open, n.done, n.cancel, n.checklist, n.conf, n.live, n.gone, b)
        BY <1>6, <1>7, AskUpdates
    <2>. QED BY <1>4, <2>1, Zenon
<1>9. Sent(R)
    BY <1>5, <1>6, <1>8 DEF Sent, b
<1>10. used' \in UsedType /\ SameUse(used', used) /\ (used'.failures = 0 => R = {})
    BY <1>2, Typed, SendsRefused
<1>11. ask' \in AskType
    BY <1>8 DEF AskIs
<1>. QED BY <1>1, <1>9, <1>10, <1>11

LEMMA DecideEffect ==
    ASSUME TypeOK, Decide
    PROVE  /\ job.at = "idle" /\ row' \in RowType /\ Alike(row', row)
           /\ row'.state = IF row.state \in Terminal THEN row.state ELSE Evaluated(row)
           /\ job' \in JobType /\ job'.at = "sending" /\ job'.plan = Plan(row, ask)
<1>1. job.at = "idle" /\ row' = Settled(row) /\ job' = [job EXCEPT !.at = "sending", !.plan = Plan(row, ask)]
    BY DEF Decide
<1>2. Plan(row, ask) \in PlanType
    BY Typed, PlanEffect
<1>3. job \in JobType
    BY DEF TypeOK
<1>4. job' \in JobType /\ job'.at = "sending" /\ job'.plan = Plan(row, ask)
    <2>. DEFINE n == [job EXCEPT !.at = "sending", !.plan = Plan(row, ask)]
    <2>1. n \in JobType /\ n.at = "sending" /\ n.plan = Plan(row, ask)
        BY <1>2, <1>3, JobSending
    <2>2. job' = n
        BY <1>1
    <2>. HIDE DEF n
    <2>. QED BY <2>1, <2>2
<1>. QED BY <1>1, <1>4, Typed, SettledEffect

LEMMA TakeNoteEffect ==
    ASSUME TypeOK, TakeNote
    PROVE  Noted(row', "pending") /\ row' \in RowType /\ notes' = notes + 1 /\ ask' = ask
<1>1. Noted([row EXCEPT !.note = "pending"], "pending")
    BY Typed, RowUpdates DEF Noted
<1>. QED BY <1>1 DEF TakeNote, Noted, RowIs

LEMMA QueueEffect ==
    ASSUME TypeOK, NEW n \in Msg, Queue(n)
    PROVE  /\ ask.conf.row = "open" /\ row.state \notin Terminal /\ Gaps(row) = {}
           /\ RowIs(row', "queued", row.links, row.resolved, row.media, row.waived, row.note, row.meta)
           /\ \E c \in ConfType :
                /\ c.row = "confirmed"
                /\ AskIs(ask', ask.open, ask.done, ask.cancel, ask.checklist, c, ask.live \ {n},
                         ask.gone, ask.late)
           /\ used' \in UsedType /\ SameUse(used', used)
<1>. DEFINE c == [ask.conf EXCEPT !.row = "confirmed"]
            l == ask.live \ {n}
<1>1. /\ CanEdit /\ CanQueue /\ Gaps(row) = {} /\ used' = Edited
      /\ row' = [row EXCEPT !.state = "queued"] /\ ask' = [ask EXCEPT !.conf = c, !.live = l]
    BY Zenon DEF Queue
<1>2. c \in ConfType /\ c.row = "confirmed" /\ l \in SUBSET Msg
    BY Typed, AskFields, ConfFields
<1>3. RowIs([row EXCEPT !.state = "queued"], "queued", row.links, row.resolved, row.media,
            row.waived, row.note, row.meta)
    BY Typed, RowUpdates DEF State, Terminal
<1>. HIDE DEF c, l
<1>4. AskIs([ask EXCEPT !.conf = c, !.live = l],
            ask.open, ask.done, ask.cancel, ask.checklist, c, l, ask.gone, ask.late)
    BY <1>2, Typed, AskUpdates
<1>5. AskIs(ask', ask.open, ask.done, ask.cancel, ask.checklist, c, l, ask.gone, ask.late)
    BY <1>1, <1>4, Zenon
<1>6. RowIs(row', "queued", row.links, row.resolved, row.media, row.waived, row.note, row.meta)
    BY <1>1, <1>3, Zenon
<1>. QED BY <1>1, <1>2, <1>5, <1>6, EditUse DEF CanQueue, l

LEMMA DeleteEffect ==
    ASSUME TypeOK, NEW n \in Msg, DeleteQueueMessage(n)
    PROVE  AskIs(ask', ask.open, ask.done, ask.cancel, ask.checklist, ask.conf, ask.live \ {n},
                 ask.gone \cup {n}, ask.late)
<1>. DEFINE l == ask.live \ {n}
            g == ask.gone \cup {n}
<1>1. ask' = [ask EXCEPT !.live = l, !.gone = g]
    BY Zenon DEF DeleteQueueMessage
<1>2. l \in SUBSET Msg /\ g \in SUBSET Msg
    BY Typed, AskFields
<1>. HIDE DEF l, g
<1>3. AskIs([ask EXCEPT !.live = l, !.gone = g],
            ask.open, ask.done, ask.cancel, ask.checklist, ask.conf, l, g, ask.late)
    BY <1>2, Typed, AskUpdates
<1>4. AskIs(ask', ask.open, ask.done, ask.cancel, ask.checklist, ask.conf, l, g, ask.late)
    BY <1>1, <1>3, Zenon
<1>. QED BY <1>4 DEF l, g

LEMMA SubmitFormEffect ==
    ASSUME TypeOK, NEW m \in Media, NEW t \in Text \cup {None}, SubmitForm(m, t)
    PROVE  /\ \E f \in [Media -> AltType] :
                /\ \A k \in Media : /\ f[k].status = "absent" <=> row.media[k].status = "absent"
                                    /\ f[k].status = "needed" => row.media[k].status = "needed"
                /\ RowIs(row', row.state, row.links, row.resolved, f, row.waived, row.note, row.meta)
           /\ used' \in UsedType /\ SameUse(used', used)
<1>. DEFINE filled == [form EXCEPT ![m] = Given(t)]
            hit == {k \in Has(row) : form[k] # Absent}
            f == [k \in Media |-> IF k \in hit THEN Given(filled[k].text) ELSE row.media[k]]
<1>1. CanEdit /\ row' = [row EXCEPT !.media = f] /\ used' = Edited
    BY Zenon DEF SubmitForm
<1>2. filled \in [Media -> AltType]
    BY TextFacts DEF TypeOK
<1>. HIDE DEF filled
<1>3. f \in [Media -> AltType]
      /\ \A k \in Media : /\ f[k].status = "absent" <=> row.media[k].status = "absent"
                          /\ f[k].status = "needed" => row.media[k].status = "needed"
    <2>1. row.media \in [Media -> AltType]
        BY Typed, RowFields
    <2>2. \A k \in Media : /\ Given(filled[k].text) \in AltType
                           /\ Given(filled[k].text).status \notin {"absent", "needed"}
        BY <1>2, TextFacts
    <2>3. \A k \in hit : row.media[k].status # "absent"
        BY DEF Has
    <2>. HIDE DEF hit
    <2>4. \A k \in Media : f[k] = IF k \in hit THEN Given(filled[k].text) ELSE row.media[k]
        OBVIOUS
    <2>5. f \in [Media -> AltType]
        BY <2>1, <2>2
    <2>. HIDE DEF f
    <2>. QED BY <2>2, <2>3, <2>4, <2>5
<1>. HIDE DEF f
<1>4. RowIs([row EXCEPT !.media = f],
            row.state, row.links, row.resolved, f, row.waived, row.note, row.meta)
    BY <1>3, Typed, RowUpdates
<1>5. RowIs(row', row.state, row.links, row.resolved, f, row.waived, row.note, row.meta)
    BY <1>1, <1>4, Zenon
<1>. QED BY <1>1, <1>3, <1>5, EditUse

\* Only requests for alt text are taken away.
Fewer(a, b) ==
    /\ \A k \in Kind : a.open[k] <= b.open[k] /\ (k \notin Media => a.open[k] = b.open[k])
    /\ a.cancel = b.cancel /\ a.conf = b.conf /\ a.live = b.live /\ a.gone = b.gone /\ a.late = b.late

LEMMA FewerSelf == ASSUME NEW a \in AskType PROVE Fewer(a, a)
BY AskFields DEF Fewer

\* The message is read again: the beats of /reingest.
LEMMA ReingestEffect ==
    ASSUME TypeOK, Teardown \/ Relist \/ Resolve \/ RestoreAlt
    PROVE  /\ row' \in RowType /\ row'.state = row.state /\ row'.waived = row.waived /\ row'.note = row.note
           /\ job' \in JobType /\ job'.at \in {"torn", "listed", "rebuilt", "restored"}
           /\ asked \/ job.at \in {"torn", "listed", "rebuilt", "restored"}
           /\ job.at # "sending"
           /\ ask' \in AskType /\ Fewer(ask', ask)
           /\ form' \in [Media -> AltType] /\ asked' \in BOOLEAN
           /\ UNCHANGED <<notes, said, replay, used>>
<1>0. row \in RowType /\ job \in JobType /\ form \in [Media -> AltType] /\ asked \in BOOLEAN
      /\ row.media \in [Media -> AltType] /\ row.links \in Seq(Link) /\ ask \in AskType
      /\ job.kept \in [Media -> AltType] /\ Fewer(ask, ask)
    BY RowFields, JobFields, FewerSelf DEF TypeOK
<1>1. CASE Teardown
    <2>. DEFINE kept == [m \in Media |-> IF row.media[m].status = "needed" THEN Absent ELSE row.media[m]]
                o == [k \in Kind |-> IF k \in Has(row) THEN 0 ELSE ask.open[k]]
                d == ask.done \ Has(row)
    <2>1. /\ job.at = "idle" /\ asked /\ asked' = FALSE /\ form' \in {form, NoForm}
          /\ job' = [Idle EXCEPT !.at = "torn", !.kept = kept]
          /\ row' = [row EXCEPT !.links = <<>>, !.media = NoForm]
          /\ ask' = [ask EXCEPT !.open = o, !.done = d]
          /\ UNCHANGED <<notes, said, replay, used>>
        BY <1>1, Zenon DEF Teardown
    <2>2. kept \in [Media -> AltType]
        BY <1>0, AbsentType
    <2>3. o \in [Kind -> Nat] /\ d \in SUBSET Kind
        BY <1>0, AskFields
    <2>4. \A k \in Kind : o[k] <= ask.open[k] /\ (k \notin Media => o[k] = ask.open[k])
        BY <1>0, AskFields DEF Has
    <2>. HIDE DEF kept, o, d
    <2>5. RowIs([row EXCEPT !.links = <<>>, !.media = NoForm],
                row.state, <<>>, row.resolved, NoForm, row.waived, row.note, row.meta)
        <3>1. <<>> \in Seq(Link)
            OBVIOUS
        <3>. QED BY <1>0, <3>1, RowUpdates, AbsentType
    <2>6. AskIs([ask EXCEPT !.open = o, !.done = d],
                o, d, ask.cancel, ask.checklist, ask.conf, ask.live, ask.gone, ask.late)
        BY <1>0, <2>3, AskUpdates
    <2>7. job' \in JobType /\ job'.at = "torn"
        <3>. DEFINE n == [Idle EXCEPT !.at = "torn", !.kept = kept]
        <3>1. n \in JobType /\ n.at = "torn"
            BY <2>2, IdleFields
        <3>2. job' = n
            BY <2>1
        <3>. HIDE DEF n
        <3>. QED BY <3>1, <3>2
    <2>8. RowIs(row', row.state, <<>>, row.resolved, NoForm, row.waived, row.note, row.meta)
        BY <2>1, <2>5, Zenon
    <2>9. AskIs(ask', o, d, ask.cancel, ask.checklist, ask.conf, ask.live, ask.gone, ask.late)
        BY <2>1, <2>6, Zenon
    <2>10. ask' \in AskType /\ Fewer(ask', ask)
        BY <2>4, <2>9 DEF AskIs, Fewer
    <2>. QED BY <1>0, <2>1, <2>7, <2>8, <2>10, AbsentType DEF RowIs
<1>2. CASE Relist
    <2>. DEFINE l == SourceLinks \o row.links
                f == [m \in Media |-> IF m \in SourceMedia THEN Received(m) ELSE row.media[m]]
    <2>1. /\ job.at = "torn" /\ job' = [job EXCEPT !.at = "listed"]
          /\ row' = [row EXCEPT !.links = l, !.resolved = FALSE, !.media = f]
          /\ UNCHANGED <<ask, asked, form, notes, said, replay, used>>
        BY <1>2, Zenon DEF Relist
    <2>2. l \in Seq(Link) /\ f \in [Media -> AltType]
        BY <1>0, TextFacts, CurationAssumption
    <2>. HIDE DEF l, f
    <2>3. RowIs([row EXCEPT !.links = l, !.resolved = FALSE, !.media = f],
                row.state, l, FALSE, f, row.waived, row.note, row.meta)
        BY <1>0, <2>2, RowUpdates
    <2>4. RowIs(row', row.state, l, FALSE, f, row.waived, row.note, row.meta)
        BY <2>1, <2>3, Zenon
    <2>5. job' \in JobType /\ job'.at = "listed"
        BY <1>0, <2>1, JobFields
    <2>. QED BY <1>0, <2>1, <2>4, <2>5 DEF RowIs
<1>3. CASE Resolve
    <2>1. /\ job.at = "listed" /\ job' = [job EXCEPT !.at = "rebuilt"]
          /\ row' = [row EXCEPT !.resolved = TRUE]
          /\ UNCHANGED <<ask, asked, form, notes, said, replay, used>>
        BY <1>3, Zenon DEF Resolve
    <2>2. RowIs([row EXCEPT !.resolved = TRUE],
                row.state, row.links, TRUE, row.media, row.waived, row.note, row.meta)
        BY <1>0, RowUpdates
    <2>3. RowIs(row', row.state, row.links, TRUE, row.media, row.waived, row.note, row.meta)
        BY <2>1, <2>2, Zenon
    <2>4. job' \in JobType /\ job'.at = "rebuilt"
        BY <1>0, <2>1, JobFields
    <2>. QED BY <1>0, <2>1, <2>3, <2>4 DEF RowIs
<1>4. CASE RestoreAlt
    <2>. DEFINE f == [m \in Media |-> IF m \in Has(row) /\ job.kept[m] # Absent THEN job.kept[m] ELSE row.media[m]]
    <2>1. /\ job.at = "rebuilt" /\ job' = [job EXCEPT !.at = "restored"]
          /\ row' = [row EXCEPT !.media = f]
          /\ UNCHANGED <<ask, asked, form, notes, said, replay, used>>
        BY <1>4, Zenon DEF RestoreAlt
    <2>2. f \in [Media -> AltType]
        BY <1>0
    <2>. HIDE DEF f
    <2>3. RowIs([row EXCEPT !.media = f],
                row.state, row.links, row.resolved, f, row.waived, row.note, row.meta)
        BY <1>0, <2>2, RowUpdates
    <2>4. RowIs(row', row.state, row.links, row.resolved, f, row.waived, row.note, row.meta)
        BY <2>1, <2>3, Zenon
    <2>5. job' \in JobType /\ job'.at = "restored"
        BY <1>0, <2>1, JobFields
    <2>. QED BY <1>0, <2>1, <2>4, <2>5 DEF RowIs
<1>. QED BY <1>1, <1>2, <1>3, <1>4

\* The dispatcher and the script that lets a blocked post try again.
LEMMA PublishEffect ==
    ASSUME TypeOK, Requeue \/ \E s \in Terminal : Publish(s)
    PROVE  /\ row.state \in Terminal /\ row'.state \in Terminal
           /\ row' \in RowType /\ Alike(row', row) /\ ask' = ask
           /\ used' \in UsedType /\ SameUse(used', used) /\ Bystander
<1>1. /\ used' \in UsedType /\ SameUse(used', used) /\ ask' = ask /\ Bystander
      /\ row.state \in Terminal
      /\ \E s \in Terminal : row' = [row EXCEPT !.state = s]
    BY Typed, UseSelf, EditUse DEF Requeue, Publish, Terminal
<1>2. PICK s \in Terminal : row' = [row EXCEPT !.state = s]
    BY <1>1
<1>3. RowIs([row EXCEPT !.state = s], s, row.links, row.resolved, row.media, row.waived, row.note, row.meta)
    BY Typed, RowUpdates DEF State
<1>4. RowIs(row', s, row.links, row.resolved, row.media, row.waived, row.note, row.meta)
    BY <1>2, <1>3, Zenon
<1>. QED BY <1>1, <1>4 DEF RowIs, Alike

\* A restart: a Queue button that was being retired may be gone.
LEMMA RestartEffect ==
    ASSUME TypeOK, Restart
    PROVE  /\ job' = Idle /\ asked' = FALSE /\ form' = NoForm
           /\ replay' \in ReplayType /\ replay'.at = "scan" /\ replay'.next = 1 /\ replay'.last = 0
           /\ ask' \in AskType /\ ask'.open = ask.open /\ ask'.late = ask.late
           /\ OneMore(used', used, "restarts") /\ UNCHANGED <<row, notes, said>>
<1>. DEFINE l == ask.live \ {job.plan.conf.msg}
<1>1. /\ job' = Idle /\ asked' = FALSE /\ form' = NoForm /\ Spend("restarts")
      /\ replay' = [NoReplay EXCEPT !.at = "scan"]
      /\ ask' = ask \/ ask' = [ask EXCEPT !.live = l]
      /\ UNCHANGED <<row, notes, said>>
    BY Zenon DEF Restart
<1>2. OneMore(used', used, "restarts")
    BY <1>1, Spending, Keys
<1>3. replay' \in ReplayType /\ replay'.at = "scan" /\ replay'.next = 1 /\ replay'.last = 0
    BY <1>1, ReplayFields
<1>4. ask' \in AskType /\ ask'.open = ask.open /\ ask'.late = ask.late
    <2>1. l \in SUBSET Msg
        BY Typed, AskFields
    <2>. HIDE DEF l
    <2>2. AskIs([ask EXCEPT !.live = l],
                ask.open, ask.done, ask.cancel, ask.checklist, ask.conf, l, ask.gone, ask.late)
        BY <2>1, Typed, AskUpdates
    <2>3. CASE ask' = ask
        BY <2>3, Typed
    <2>4. CASE ask' = [ask EXCEPT !.live = l]
        <3>1. AskIs(ask', ask.open, ask.done, ask.cancel, ask.checklist, ask.conf, l, ask.gone, ask.late)
            BY <2>2, <2>4, Zenon
        <3>. QED BY <3>1 DEF AskIs
    <2>. QED BY <1>1, <2>3, <2>4
<1>. QED BY <1>1, <1>2, <1>3, <1>4

LEMMA AloneTypes == ASSUME TypeOK, Alone PROVE TypeOK'
<1>0. /\ row \in RowType /\ ask \in AskType /\ job \in JobType /\ asked \in BOOLEAN
      /\ form \in [Media -> AltType] /\ notes \in Nat /\ said \in Seq(SaidType)
      /\ replay \in ReplayType /\ replay.next \in 1 .. replay.last + 1
      /\ replay.last <= Len(said) /\ used \in UsedType /\ Len(said) \in Nat
      /\ replay.next \in Nat /\ replay.last \in Nat
    <2>1. replay \in ReplayType /\ said \in Seq(SaidType)
        BY DEF TypeOK
    <2>2. replay.next \in Nat /\ replay.last \in Nat
        BY <2>1, ReplayFields
    <2>3. Len(said) \in Nat
        BY <2>1
    <2>. QED BY <2>2, <2>3 DEF TypeOK
<1>1. ASSUME Stuck PROVE TypeOK'
    BY <1>0, <1>1, EditUse DEF Stuck, Bystander, TypeOK
<1>2. ASSUME ReplyNote PROVE TypeOK'
    <2>1. /\ said' = Append(said, [kind |-> "source", text |-> None])
          /\ UNCHANGED <<job, asked, form, replay>> /\ Spend("notes")
        BY <1>2 DEF ReplyNote
    <2>2. [kind |-> "source", text |-> None] \in SaidType
        BY DEF SaidType
    <2>3. said' \in Seq(SaidType) /\ Len(said') = Len(said) + 1
        BY <1>0, <2>1, <2>2, AppendProperties
    <2>4. row' \in RowType /\ ask' = ask /\ notes' = notes + 1
        BY <1>2, TakeNoteEffect DEF ReplyNote
    <2>5. used' \in UsedType
        BY <2>1, Spending, Keys DEF OneMore
    <2>6. replay.last <= Len(said')
        BY <1>0, <2>3
    <2>. QED BY <1>0, <2>1, <2>3, <2>4, <2>5, <2>6 DEF TypeOK
<1>3. ASSUME ReplayNote \/ ReplayNothing PROVE TypeOK'
    <2>1. /\ replay.next <= replay.last /\ replay' = [replay EXCEPT !.next = @ + 1]
          /\ UNCHANGED <<job, asked, form, said, used>>
        BY <1>3 DEF ReplayNote, ReplayNothing
    <2>2. row' \in RowType /\ ask' = ask /\ notes' \in Nat
        BY <1>0, <1>3, TakeNoteEffect DEF ReplayNote, ReplayNothing
    <2>3. replay' \in ReplayType /\ replay'.next = replay.next + 1 /\ replay'.last = replay.last
        BY <1>0, <2>1, ReplayFields, Zenon
    <2>4. replay'.next \in 1 .. replay'.last + 1
        BY <1>0, <2>1, <2>3
    <2>. QED BY <1>0, <2>1, <2>2, <2>3, <2>4 DEF TypeOK
<1>4. ASSUME NEW n \in Msg, Queue(n) PROVE TypeOK'
    <2>1. row' \in RowType /\ ask' \in AskType /\ used' \in UsedType
        BY <1>4, QueueEffect DEF RowIs, AskIs
    <2>. QED BY <1>0, <1>4, <2>1 DEF Queue, Bystander, TypeOK
<1>5. ASSUME NEW n \in Msg, DeleteQueueMessage(n) PROVE TypeOK'
    <2>1. ask' \in AskType
        BY <1>5, DeleteEffect DEF AskIs
    <2>2. used' \in UsedType
        BY <1>5, Spending, Keys DEF DeleteQueueMessage, OneMore
    <2>. QED BY <1>0, <1>5, <2>1, <2>2 DEF DeleteQueueMessage, Bystander, TypeOK
<1>6. ASSUME OpenForm PROVE TypeOK'
    <2>1. used' \in UsedType
        BY <1>6, Spending, Keys DEF OpenForm, OneMore
    <2>2. form' \in [Media -> AltType]
        BY <1>0, <1>6, RowFields DEF OpenForm
    <2>. QED BY <1>0, <1>6, <2>1, <2>2 DEF OpenForm, TypeOK
<1>7. ASSUME NEW m \in Media, NEW t \in Text \cup {None}, SubmitForm(m, t) PROVE TypeOK'
    <2>1. row' \in RowType /\ used' \in UsedType
        BY <1>7, SubmitFormEffect DEF RowIs
    <2>2. form' = NoForm /\ UNCHANGED <<ask, job, asked, notes, said, replay>>
        BY <1>7 DEF SubmitForm
    <2>. QED BY <1>0, <2>1, <2>2, AbsentType DEF TypeOK
<1>8. ASSUME React PROVE TypeOK'
    <2>1. row' \in RowType /\ job' \in JobType
        BY <1>8, DecideEffect DEF React
    <2>2. used' \in UsedType
        BY <1>8, Spending, Keys DEF React, OneMore
    <2>. QED BY <1>0, <1>8, <2>1, <2>2 DEF React, Decide, TypeOK
<1>9. ASSUME ScanReact PROVE TypeOK'
    <2>1. row' \in RowType /\ job' \in JobType
        BY <1>9, DecideEffect DEF ScanReact
    <2>2. replay' = [replay EXCEPT !.at = "scanning"] /\ UNCHANGED <<ask, asked, form, notes, said, used>>
        BY <1>9 DEF ScanReact, Decide
    <2>3. replay' \in ReplayType /\ replay'.next = replay.next /\ replay'.last = replay.last
        BY <1>0, <2>2, ReplayFields
    <2>. QED BY <1>0, <2>1, <2>2, <2>3 DEF TypeOK
<1>10. ASSUME SendAndRecord PROVE TypeOK'
    <2>1. ask' \in AskType /\ used' \in UsedType
        BY <1>10, SendAndRecordEffect
    <2>2. /\ job' = Idle /\ UNCHANGED <<row, asked, form, notes, said>>
          /\ replay' = replay \/ replay' = [replay EXCEPT !.at = "scanned"]
        BY <1>10 DEF SendAndRecord
    <2>3. replay' \in ReplayType /\ replay'.next = replay.next /\ replay'.last = replay.last
        <3>1. CASE replay' = replay
            BY <1>0, <3>1
        <3>2. CASE replay' = [replay EXCEPT !.at = "scanned"]
            BY <1>0, <3>2, ReplayFields
        <3>. QED BY <2>2, <3>1, <3>2
    <2>. QED BY <1>0, <2>1, <2>2, <2>3, IdleFields DEF TypeOK
<1>11. ASSUME AskReingest \/ FetchFails PROVE TypeOK'
    <2>1. used' \in UsedType
        BY <1>0, <1>11, Spending, Keys DEF AskReingest, FetchFails, OneMore
    <2>2. asked' \in BOOLEAN /\ UNCHANGED <<row, ask, job, form, notes, said, replay>>
        BY <1>11 DEF AskReingest, FetchFails
    <2>. QED BY <1>0, <2>1, <2>2 DEF TypeOK
<1>12. ASSUME Teardown \/ Relist \/ Resolve \/ RestoreAlt PROVE TypeOK'
    <2>1. row' \in RowType /\ job' \in JobType /\ ask' \in AskType /\ form' \in [Media -> AltType]
          /\ asked' \in BOOLEAN /\ UNCHANGED <<notes, said, replay, used>>
        BY <1>12, ReingestEffect
    <2>. QED BY <1>0, <2>1 DEF TypeOK
<1>13. ASSUME Requeue \/ \E s \in Terminal : Publish(s) PROVE TypeOK'
    <2>1. row' \in RowType /\ ask' = ask /\ used' \in UsedType /\ Bystander
        BY <1>13, PublishEffect
    <2>. QED BY <1>0, <2>1 DEF Bystander, TypeOK
<1>14. ASSUME Restart PROVE TypeOK'
    <2>1. /\ job' = Idle /\ asked' = FALSE /\ form' = NoForm
          /\ replay' \in ReplayType /\ replay'.next = 1 /\ replay'.last = 0
          /\ ask' \in AskType /\ used' \in UsedType /\ UNCHANGED <<row, notes, said>>
        BY <1>14, RestartEffect DEF OneMore
    <2>2. replay'.next \in 1 .. replay'.last + 1 /\ replay'.last <= Len(said)
        BY <1>0, <2>1
    <2>. QED BY <1>0, <2>1, <2>2, IdleFields, AbsentType DEF TypeOK
<1>15. ASSUME ListThreads PROVE TypeOK'
    <2>1. /\ UNCHANGED <<row, ask, job, asked, form, notes, said, used>>
          /\ replay' = [at |-> "replies", next |-> 1, last |-> Len(said)] \/ replay' = NoReplay
        BY <1>15 DEF ListThreads
    <2>2. replay' \in ReplayType /\ replay'.next = 1 /\ (replay'.last = 0 \/ replay'.last = Len(said))
        BY <1>0, <2>1, ReplayFields
    <2>3. replay'.next \in 1 .. replay'.last + 1 /\ replay'.last <= Len(said)
        BY <1>0, <2>2
    <2>. QED BY <1>0, <2>1, <2>2, <2>3 DEF TypeOK
<1>. QED BY <1>1, <1>2, <1>3, <1>4, <1>5, <1>6, <1>7, <1>8, <1>9, <1>10, <1>11, <1>12, <1>13,
            <1>14, <1>15 DEF Alone

LEMMA InitTypes == Init => TypeOK
<1>. SUFFICES ASSUME Init PROVE TypeOK
    OBVIOUS
<1>1. row \in RowType
    <2>. DEFINE f == [m \in Media |-> IF m \in SourceMedia THEN Received(m) ELSE Absent]
    <2>1. f \in [Media -> AltType]
        BY TextFacts, AbsentType
    <2>. HIDE DEF f
    <2>2. row = [state |-> "intent_submitted", links |-> SourceLinks, resolved |-> TRUE,
                 media |-> f, waived |-> FALSE, note |-> "none", meta |-> FALSE]
        BY DEF Init, f
    <2>. QED BY <2>1, <2>2, CurationAssumption DEF RowType, State, Pending
<1>2. ask \in AskType
    <2>1. [k \in Kind |-> 0] \in [Kind -> Nat]
        OBVIOUS
    <2>. QED BY <2>1, AbsentType DEF Init, AskType
<1>3. used \in UsedType
    BY CurationAssumption DEF Init, UsedType
<1>4. said \in Seq(SaidType) /\ Len(said) = 0
    BY DEF Init
<1>5. replay \in ReplayType /\ replay.next \in 1 .. replay.last + 1 /\ replay.last <= Len(said)
    BY <1>4, ReplayFields DEF Init
<1>6. job \in JobType /\ asked \in BOOLEAN /\ form \in [Media -> AltType] /\ notes \in Nat
    BY AbsentType, IdleFields DEF Init
<1>. QED BY <1>1, <1>2, <1>3, <1>4, <1>5, <1>6 DEF TypeOK

LEMMA TypesKept == TypeOK /\ [Next]_vars => TypeOK'
<1>. SUFFICES ASSUME TypeOK, [Next]_vars PROVE TypeOK'
    OBVIOUS
<1>1. CASE UNCHANGED vars
    BY <1>1 DEF vars, TypeOK
<1>2. CASE Next
    BY <1>2, NextCases, AnsweringTypes, AloneTypes
<1>. QED BY <1>1, <1>2

\* The rows, the beats and the catch-up are what they are taken for: no request is
\* answered more often than it was asked, and the catch-up reads no reply that is
\* not there, whatever the links, media, messages and bounds.
THEOREM CurationTypes == Spec => []TypeOK
BY InitTypes, TypesKept, PTL DEF Spec

-----------------------------------------------------------------------------
(* QueueComplete *)

\* Nothing was read again, one prompt about a note at most, no late request.
Orderly == used.reingests = 0 /\ used.notes + used.restarts <= 1 /\ ~ask.late

NoReingest == row.resolved /\ ~asked /\ job.at \in {"idle", "sending"}
OncePerGap == ask.open["source"] <= 1 /\ ask.open["metadata"] <= 1
OneNote ==
    /\ notes <= used.notes
    /\ row.note = "confirmed" => notes < used.notes
    /\ used.restarts = 0 => replay.at = "off"
    /\ used.notes = 0 => \A i \in 1 .. Len(said) : said[i].kind # "source"
\* A request that a link may answer is open only while the link would fill a gap
\* or stand behind the first one.
Needed ==
    /\ Open("moreLinks") \/ "moreLinks" \in job.plan.ask => row.links # <<>>
    /\ Open("metadata") => row.links # <<>>
    /\ Open("source") /\ row.links = <<>> => MissingSource(row)
    /\ Open("metadata") /\ Has(row) = {} => MissingMetadata(row)
Complete == row.state \in Terminal =>
                ~MissingSource(row) /\ ~MissingMetadata(row) /\ ~MissingImage(row)
COrderly == NoReingest /\ OncePerGap /\ OneNote /\ Needed /\ Complete

IOrderly == TypeOK /\ (Orderly => COrderly)

LEMMA RecordedOpen ==
    ASSUME NEW p \in RowType, NEW a \in AskType, NEW R, NEW i \in ConfId, Recorded(p, a, R, i)
    PROVE  \A k \in Kind : \/ ask'.open[k] = a.open[k]
                           \/ /\ a.open[k] = 0 /\ ask'.open[k] = 1
                              /\ k \in Plan(p, a).ask
<1>. DEFINE n == Perform(a, Plan(p, a), R, i)
<1>1. Plan(p, a) \in PlanType
    BY PlanEffect
<1>2. Performed(n, a, Plan(p, a), R) /\ ask' = n
    BY <1>1, PerformEffect DEF Recorded
<1>. HIDE DEF n
<1>3. \A k \in Plan(p, a).ask : a.open[k] = 0
    BY PlanEffect
<1>4. \A k \in Kind : a.open[k] \in Nat
    BY AskFields
<1>5. CASE Clash(a, Plan(p, a), R)
    BY <1>2, <1>5 DEF Performed
<1>6. CASE ~Clash(a, Plan(p, a), R)
    <2>1. n.open = [k \in Kind |-> a.open[k] + IF k \in Plan(p, a).ask \ R THEN 1 ELSE 0]
        BY <1>2, <1>6 DEF Performed
    <2>. QED BY <1>2, <1>3, <1>4, <2>1
<1>. QED BY <1>5, <1>6

LEMMA OpenAfter ==
    ASSUME TypeOK, NEW p \in RowType, NEW K, Recomputing(p, K), K \subseteq Kind,
           ask.open["source"] <= 1, ask.open["metadata"] <= 1
    PROVE  /\ ask'.open["source"] <= 1 /\ ask'.open["metadata"] <= 1
           /\ Open("source")' => (Open("source") /\ "source" \notin K) \/ MissingSource(p)
           /\ Open("metadata")' => (Open("metadata") /\ "metadata" \notin K) \/ MissingMetadata(p)
           /\ Open("moreLinks")' => Open("moreLinks") \/ p.links # <<>>
<1>1. PICK a \in AskType, i \in ConfId : \E R : Answers(a, ask, K) /\ Recorded(p, a, R, i)
    BY RecomputingEffect
<1>2. \A k \in Kind : \/ ask'.open[k] = a.open[k]
                      \/ a.open[k] = 0 /\ ask'.open[k] = 1 /\ k \in Plan(p, a).ask
    BY <1>1, RecordedOpen
<1>3. \A k \in Kind : /\ a.open[k] \in Nat /\ ask.open[k] \in Nat /\ a.open[k] <= ask.open[k]
                      /\ k \in K /\ ask.open[k] <= 1 => a.open[k] = 0
    <2>1. \A k \in Kind : a.open[k] \in Nat /\ ask.open[k] \in Nat
        BY Typed, AskFields
    <2>. QED BY <1>1, <2>1 DEF Answers
<1>4. /\ "source" \in Plan(p, a).ask => MissingSource(p)
      /\ "metadata" \in Plan(p, a).ask => MissingMetadata(p)
      /\ "moreLinks" \in Plan(p, a).ask => p.links # <<>>
    BY PlanEffect, GapFacts
<1>5. "source" \in Kind /\ "metadata" \in Kind /\ "moreLinks" \in Kind
    BY KindsDiffer
<1>. QED BY <1>2, <1>3, <1>4, <1>5 DEF Open

LEMMA SamePost ==
    ASSUME NEW p, NEW q, p.links # <<>>, q.links # <<>>, Head(p.links) = Head(q.links),
           Has(p) = Has(q), p.resolved = q.resolved, p.meta = q.meta
    PROVE  /\ ~MissingSource(p) /\ ~MissingSource(q)
           /\ (MissingMetadata(p) <=> MissingMetadata(q)) /\ (MissingImage(p) <=> MissingImage(q))
<1>1. PostKind(p) = PostKind(q)
    BY DEF PostKind, IsRepost
<1>. QED BY <1>1 DEF MissingSource, MissingMetadata, MissingImage

LEMMA MissingLinks ==
    ASSUME NEW p
    PROVE  /\ MissingMetadata(p) => p.links # <<>> /\ Has(p) = {}
           /\ MissingImage(p) => p.links # <<>> /\ Has(p) = {}
BY DEF MissingMetadata, MissingImage, PostKind

\* The answer leaves no gap behind that a queued submission did not have, and an
\* open request it did not answer still asks for something.
Benign(p, K) ==
    /\ p.state = row.state /\ p.resolved
    /\ row.links # <<>> => p.links # <<>>
    /\ "source" \notin K /\ MissingSource(row) /\ p.links = <<>> => MissingSource(p)
    /\ Has(p) = {} => Has(row) = {}
    /\ "metadata" \notin K /\ MissingMetadata(row) /\ Has(p) = {} => MissingMetadata(p)
    /\ row.state \in Terminal => ~MissingSource(p) /\ ~MissingMetadata(p) /\ ~MissingImage(p)
    /\ notes' <= used.notes /\ (p.note = "confirmed" => notes' < used.notes)

LEMMA BenignAnswers ==
    ASSUME TypeOK, Orderly, COrderly, Answering
    PROVE  \E p \in RowType, K \in SUBSET Kind : Recomputing(p, K) /\ Benign(p, K)
<1>0. /\ row \in RowType /\ row.links \in Seq(Link) /\ row.resolved /\ notes \in Nat
      /\ used.notes \in Nat /\ used.restarts \in Nat
      /\ notes <= used.notes /\ (row.note = "confirmed" => notes < used.notes) /\ used.notes <= 1
    <2>1. row \in RowType /\ used \in UsedType /\ notes \in Nat
        BY DEF TypeOK
    <2>2. used.notes \in Nat /\ used.restarts \in Nat
        BY <2>1, UsedFacts
    <2>3. used.notes <= 1
        BY <2>2 DEF Orderly
    <2>. QED BY <2>1, <2>2, <2>3, RowFields DEF COrderly, NoReingest, OneNote
<1>1. PICK p \in RowType :
        \/ \E k \in {"source", "moreLinks"}, l \in Link :
            notes' = notes /\ Open(k) /\ Linked(p, l) /\ Recomputing(p, {k})
        \/ \E l \in Link :
            notes' = notes /\ Open("metadata") /\ Bettered(p, l) /\ Recomputing(p, {"metadata"})
        \/ \E f, K : /\ K \subseteq Media \cup {"image", "moreImages"}
                     /\ notes' = notes /\ Pictured(p, f) /\ Recomputing(p, K)
        \/ notes' = notes /\ Waived(p) /\ Recomputing(p, {"source"})
        \/ notes' = notes /\ Trusted(p) /\ Recomputing(p, {"metadata"})
        \/ Prompted /\ Noted(p, "confirmed") /\ Recomputing(p, {"source"})
        \/ Prompted /\ Noted(p, "none") /\ Recomputing(p, {})
        \/ notes' = notes /\ p = row /\ Recomputing(p, {})
    BY DEF Answering
<1>2. ASSUME NEW k \in {"source", "moreLinks"}, NEW l \in Link,
             notes' = notes, Open(k), Linked(p, l), Recomputing(p, {k})
      PROVE  \E q \in RowType, K \in SUBSET Kind : Recomputing(q, K) /\ Benign(q, K)
    <2>1. /\ p.state = row.state /\ p.links = Append(row.links, l) /\ p.resolved /\ p.media = row.media
          /\ p.waived = row.waived /\ p.note = row.note /\ p.meta = row.meta
        BY <1>2 DEF Linked, RowIs
    <2>2. Has(p) = Has(row)
        BY <2>1 DEF Has
    <2>3. p.links # <<>> /\ (row.links # <<>> => Head(p.links) = Head(row.links))
        BY <1>0, <2>1, AppendProperties
    <2>4. row.links # <<>> =>
            /\ ~MissingSource(p) /\ (MissingMetadata(p) <=> MissingMetadata(row))
            /\ MissingImage(p) <=> MissingImage(row)
        <3>1. p.resolved = row.resolved
            BY <1>0, <1>2, RowFields DEF Linked, RowIs
        <3>. QED BY <2>1, <2>2, <2>3, <3>1, SamePost
    <2>5. MissingMetadata(row) => row.links # <<>>
        BY MissingLinks
    <2>6. row.state \in Terminal => row.links # <<>>
        BY <1>2 DEF COrderly, Needed, Complete
    <2>7. Benign(p, {k})
        BY <1>0, <1>2, <2>1, <2>2, <2>3, <2>4, <2>5, <2>6 DEF Benign, COrderly, Complete
    <2>. QED BY <1>2, <2>7, KindsDiffer
<1>3. ASSUME NEW l \in Link, notes' = notes, Open("metadata"), Bettered(p, l), Recomputing(p, {"metadata"})
      PROVE  \E q \in RowType, K \in SUBSET Kind : Recomputing(q, K) /\ Benign(q, K)
    <2>1. row.links # <<>>
        BY <1>3 DEF COrderly, Needed
    <2>2. /\ p.state = row.state /\ p.links = [row.links EXCEPT ![1] = l] /\ p.resolved
          /\ p.media = row.media /\ p.waived = row.waived /\ p.note = row.note /\ p.meta = row.meta
        BY <1>3, <2>1 DEF Bettered, RowIs
    <2>3. p.links # <<>> /\ Has(p) = Has(row)
        BY <1>0, <2>1, <2>2, FirstReplaced DEF Has
    <2>4. ~MissingSource(p)
        BY <2>3 DEF MissingSource
    <2>5. row.state \in Terminal => ~MissingMetadata(p) /\ ~MissingImage(p)
        BY <1>3, <2>3, MissingLinks DEF COrderly, Needed, Complete
    <2>6. Benign(p, {"metadata"})
        BY <1>0, <1>3, <2>2, <2>3, <2>4, <2>5 DEF Benign
    <2>. QED BY <1>3, <2>6, KindsDiffer
<1>4. ASSUME NEW f, NEW K, K \subseteq Media \cup {"image", "moreImages"},
             notes' = notes, Pictured(p, f), Recomputing(p, K)
      PROVE  \E q \in RowType, J \in SUBSET Kind : Recomputing(q, J) /\ Benign(q, J)
    <2>1. /\ p.state = row.state /\ p.links = row.links /\ p.resolved /\ p.media = f
          /\ p.waived = row.waived /\ p.note = row.note /\ p.meta = row.meta
          /\ \A m \in Media : row.media[m].status # "absent" => f[m].status # "absent"
        BY <1>0, <1>4 DEF Pictured, RowIs
    <2>2. Has(row) \subseteq Has(p)
        BY <2>1 DEF Has
    <2>3. MissingSource(p) <=> MissingSource(row)
        BY <2>1 DEF MissingSource
    <2>4. Has(p) = {} => /\ Has(row) = {} /\ (MissingMetadata(p) <=> MissingMetadata(row))
                         /\ MissingImage(p) <=> MissingImage(row)
        <3>1. Has(p) = {} => Has(row) = {} /\ PostKind(p) = PostKind(row)
            BY <2>1, <2>2 DEF PostKind, IsRepost
        <3>. QED BY <1>0, <2>1, <3>1 DEF MissingMetadata, MissingImage
    <2>5. (MissingMetadata(p) => MissingMetadata(row)) /\ (MissingImage(p) => MissingImage(row))
        BY <2>4, MissingLinks
    <2>6. Benign(p, K)
        BY <1>0, <1>4, <2>1, <2>3, <2>4, <2>5 DEF Benign, COrderly, Complete
    <2>. QED BY <1>4, <2>6, KindsDiffer
<1>5. ASSUME NEW K, K \subseteq {"source", "metadata"}, Recomputing(p, K),
             \/ notes' = notes /\ Waived(p) /\ K = {"source"}
             \/ notes' = notes /\ Trusted(p) /\ K = {"metadata"}
             \/ Prompted /\ Noted(p, "confirmed") /\ K = {"source"}
             \/ Prompted /\ Noted(p, "none") /\ K = {}
             \/ notes' = notes /\ p = row /\ K = {}
      PROVE  \E q \in RowType, J \in SUBSET Kind : Recomputing(q, J) /\ Benign(q, J)
    <2>1. /\ p.state = row.state /\ p.links = row.links /\ p.resolved /\ p.media = row.media
          /\ p.waived = row.waived \/ (p.waived /\ K = {"source"})
          /\ p.meta = row.meta \/ (p.meta /\ K = {"metadata"})
          /\ p.note = row.note \/ (p.note = "confirmed" /\ K = {"source"}) \/ p.note = "none"
          /\ p.note = "none" /\ p.note # row.note => Prompted
        BY <1>0, <1>5 DEF Waived, Trusted, Noted, RowIs
    <2>2. Has(p) = Has(row)
        BY <2>1 DEF Has
    <2>3. PostKind(p) = PostKind(row)
        BY <2>1, <2>2 DEF PostKind, IsRepost
    <2>4. (MissingMetadata(p) => MissingMetadata(row)) /\ (MissingImage(p) <=> MissingImage(row))
          /\ ("metadata" \notin K /\ MissingMetadata(row) => MissingMetadata(p))
        BY <1>0, <2>1, <2>3 DEF MissingMetadata, MissingImage
    <2>5. Prompted => row.note # "confirmed"
        BY <1>0 DEF Prompted
    <2>6. (MissingSource(p) => MissingSource(row))
          /\ ("source" \notin K /\ MissingSource(row) => MissingSource(p))
        BY <2>1, <2>5 DEF MissingSource
    <2>7. notes' <= used.notes /\ (p.note = "confirmed" => notes' < used.notes)
        <3>1. CASE Prompted
            BY <1>0, <3>1 DEF Prompted
        <3>2. CASE ~Prompted
            <4>1. notes' = notes /\ p.note = row.note
                BY <1>5, <3>2 DEF Waived, Trusted, RowIs
            <4>. QED BY <1>0, <4>1
        <3>. QED BY <3>1, <3>2
    <2>8. Benign(p, K)
        BY <2>1, <2>2, <2>4, <2>6, <2>7 DEF Benign, COrderly, Complete
    <2>. QED BY <1>5, <2>8, KindsDiffer
<1>. QED BY <1>1, <1>2, <1>3, <1>4, <1>5

LEMMA AnsweringOrderly ==
    ASSUME TypeOK, Orderly => COrderly, Answering, Beside
    PROVE  Orderly' => COrderly'
<1>. SUFFICES ASSUME Orderly' PROVE COrderly'
    OBVIOUS
<1>1. Orderly /\ SameUse(used', used)
    <2>1. PICK q \in RowType : \E K : Recomputing(q, K)
        BY DEF Answering
    <2>2. ask'.late = ask.late /\ SameUse(used', used)
        BY <2>1, RecomputingEffect
    <2>. QED BY <2>2 DEF Orderly, SameUse
<1>2. COrderly
    BY <1>1
<1>3. PICK p \in RowType, K \in SUBSET Kind : Recomputing(p, K) /\ Benign(p, K)
    BY <1>1, <1>2, BenignAnswers
<1>4. /\ row' \in RowType /\ Alike(row', p)
      /\ row'.state = IF p.state \in Terminal THEN p.state ELSE Evaluated(p)
    BY <1>3, RecomputingEffect
<1>5. /\ ask'.open["source"] <= 1 /\ ask'.open["metadata"] <= 1
      /\ Open("source")' => (Open("source") /\ "source" \notin K) \/ MissingSource(p)
      /\ Open("metadata")' => (Open("metadata") /\ "metadata" \notin K) \/ MissingMetadata(p)
      /\ Open("moreLinks")' => Open("moreLinks") \/ p.links # <<>>
    BY <1>2, <1>3, OpenAfter DEF COrderly, OncePerGap
<1>6. /\ MissingSource(row') = MissingSource(p) /\ MissingMetadata(row') = MissingMetadata(p)
      /\ MissingImage(row') = MissingImage(p) /\ Has(row') = Has(p)
    BY <1>4, GapsAlike
<1>7. job' = job /\ asked' = asked
    BY <1>2 DEF COrderly, NoReingest, Beside
<1>8. NoReingest'
    BY <1>2, <1>3, <1>4, <1>7 DEF COrderly, NoReingest, Benign, Alike
<1>9. OneNote'
    <2>1. used'.notes = used.notes /\ used'.restarts = used.restarts
        BY <1>1 DEF SameUse
    <2>2. notes' <= used.notes /\ (row'.note = "confirmed" => notes' < used.notes)
        BY <1>3, <1>4 DEF Benign, Alike
    <2>3. used'.restarts = 0 => replay'.at = "off"
        BY <1>2, <2>1 DEF COrderly, OneNote, Beside
    <2>4. used.notes = 0 => \A i \in 1 .. Len(said') : said'[i].kind # "source"
        <3>1. used.notes = 0 => \A i \in 1 .. Len(said) : said[i].kind # "source"
            BY <1>2 DEF COrderly, OneNote
        <3>2. said \in Seq(SaidType)
            BY DEF TypeOK
        <3>3. ASSUME NEW m \in Media, NEW t \in Text, said' = Append(said, [kind |-> m, text |-> t]),
                     used.notes = 0, NEW i \in 1 .. Len(said')
              PROVE  said'[i].kind # "source"
            <4>1. [kind |-> m, text |-> t] \in SaidType /\ [kind |-> m, text |-> t].kind = m
                BY DEF SaidType
            <4>2. \/ i = Len(said) + 1 /\ said'[i] = [kind |-> m, text |-> t]
                  \/ i \in 1 .. Len(said) /\ said'[i] = said[i]
                BY <3>2, <3>3, <4>1, AppendProperties
            <4>. QED BY <3>1, <3>3, <4>1, <4>2, KindsDiffer
        <3>. QED BY <3>1, <3>3 DEF Beside
    <2>. QED BY <2>1, <2>2, <2>3, <2>4 DEF OneNote
<1>10. Needed'
    <2>1. Open("moreLinks")' \/ "moreLinks" \in job'.plan.ask => row'.links # <<>>
        BY <1>2, <1>3, <1>4, <1>5, <1>7 DEF COrderly, Needed, Benign, Alike
    <2>2. Open("metadata")' => row'.links # <<>>
        BY <1>2, <1>3, <1>4, <1>5, MissingLinks DEF COrderly, Needed, Benign, Alike
    <2>3. Open("source")' /\ row'.links = <<>> => MissingSource(row')
        <3>1. Open("source") /\ "source" \notin K /\ p.links = <<>> => MissingSource(p)
            BY <1>2, <1>3 DEF COrderly, Needed, Benign
        <3>. QED BY <1>4, <1>5, <1>6, <3>1 DEF Alike
    <2>4. Open("metadata")' /\ Has(row') = {} => MissingMetadata(row')
        <3>1. Open("metadata") /\ "metadata" \notin K /\ Has(p) = {} => MissingMetadata(p)
            BY <1>2, <1>3 DEF COrderly, Needed, Benign
        <3>. QED BY <1>5, <1>6, <3>1
    <2>. QED BY <2>1, <2>2, <2>3, <2>4 DEF Needed
<1>11. Complete'
    <2>1. row'.state \in Terminal => row.state \in Terminal
        BY <1>3, <1>4, EvaluatedFacts DEF Benign
    <2>. QED BY <1>3, <1>6, <2>1 DEF Complete, Benign
<1>12. OncePerGap'
    BY <1>5 DEF OncePerGap
<1>. QED BY <1>8, <1>9, <1>10, <1>11, <1>12 DEF COrderly

\* The environment is only used up, and a late request stays on record.
Onward == /\ \A k \in {"notes", "reactions", "reingests", "restarts", "failures", "deletes"} :
                used[k] \in Nat /\ used'[k] \in Nat /\ used'[k] >= used[k]
          /\ ask.late => ask'.late

LEMMA SpentFacts ==
    ASSUME NEW u \in UsedType, NEW n \in UsedType,
           n = u \/ SameUse(n, u) \/ \E j \in {"edits", "notes", "forms", "reactions", "reingests", "restarts", "failures", "deletes"} : OneMore(n, u, j)
    PROVE  \A k \in {"notes", "reactions", "reingests", "restarts", "failures", "deletes"} :
                u[k] \in Nat /\ n[k] \in Nat /\ n[k] >= u[k]
<1>0. \A k \in {"notes", "reactions", "reingests", "restarts", "failures", "deletes"} :
        u[k] \in Nat /\ n[k] \in Nat
    BY UsedFacts
<1>1. CASE n = u
    BY <1>0, <1>1
<1>2. CASE SameUse(n, u)
    BY <1>0, <1>2 DEF SameUse
<1>3. CASE \E j \in {"edits", "notes", "forms", "reactions", "reingests", "restarts", "failures", "deletes"} : OneMore(n, u, j)
    BY <1>0, <1>3 DEF OneMore
<1>. QED BY <1>1, <1>2, <1>3

LEMMA AloneOnward == ASSUME TypeOK, Alone PROVE Onward
<1>. SUFFICES /\ (ask.late => ask'.late)
              /\ \/ used' = used \/ SameUse(used', used)
                 \/ \E j \in {"edits", "notes", "forms", "reactions", "reingests", "restarts", "failures", "deletes"} : OneMore(used', used, j)
    BY Typed, AloneTypes, SpentFacts DEF Onward, TypeOK
<1>1. CASE Stuck
    BY <1>1, EditUse DEF Stuck
<1>2. CASE ReplyNote \/ OpenForm \/ React \/ AskReingest
    BY <1>2, Spending, Keys DEF ReplyNote, TakeNote, OpenForm, React, Decide, AskReingest
<1>3. CASE ReplayNote \/ ReplayNothing \/ ScanReact \/ FetchFails \/ ListThreads
    BY <1>3 DEF ReplayNote, TakeNote, ReplayNothing, ScanReact, Decide, FetchFails, ListThreads
<1>4. ASSUME NEW n \in Msg, Queue(n) \/ DeleteQueueMessage(n)
      PROVE  /\ (ask.late => ask'.late)
             /\ SameUse(used', used) \/ OneMore(used', used, "deletes")
    BY <1>4, QueueEffect, DeleteEffect, Spending, Keys DEF AskIs, DeleteQueueMessage
<1>5. ASSUME NEW m \in Media, NEW t \in Text \cup {None}, SubmitForm(m, t)
      PROVE  (ask.late => ask'.late) /\ SameUse(used', used)
    BY <1>5, SubmitFormEffect DEF SubmitForm
<1>6. CASE SendAndRecord
    BY <1>6, SendAndRecordEffect DEF Sent, AskIs, Performed
<1>7. CASE Teardown \/ Relist \/ Resolve \/ RestoreAlt
    BY <1>7, ReingestEffect DEF Fewer
<1>8. CASE Requeue \/ \E s \in Terminal : Publish(s)
    BY <1>8, PublishEffect
<1>9. CASE Restart
    BY <1>9, RestartEffect
<1>. QED BY <1>1, <1>2, <1>3, <1>4, <1>5, <1>6, <1>7, <1>8, <1>9 DEF Alone

\* A step that leaves what is missing and what is asked as it is.
LEMMA LikewiseOrderly ==
    ASSUME COrderly, Onward, Alike(row', row), ask'.open = ask.open, ~asked',
           job'.at \in {"idle", "sending"}, "moreLinks" \in job'.plan.ask => row.links # <<>>,
           notes' = notes, said' = said, notes \in Nat,
           used'.restarts = 0 => replay'.at = "off",
           row'.state \in Terminal => row.state \in Terminal \/ Gaps(row) = {},
           row \in RowType
    PROVE  COrderly'
<1>1. /\ MissingSource(row') = MissingSource(row) /\ MissingMetadata(row') = MissingMetadata(row)
      /\ MissingImage(row') = MissingImage(row) /\ Has(row') = Has(row)
    BY GapsAlike
<1>2. used.notes \in Nat /\ used'.notes \in Nat /\ used'.notes >= used.notes
    BY DEF Onward
<1>3. Open("source")' = Open("source") /\ Open("metadata")' = Open("metadata")
      /\ Open("moreLinks")' = Open("moreLinks")
    BY DEF Open
<1>4. Needed'
    BY <1>1, <1>3 DEF COrderly, Needed, Alike
<1>5. Complete'
    BY <1>1, GapFacts DEF COrderly, Complete
<1>6. OneNote'
    BY <1>2 DEF COrderly, OneNote, Alike
<1>. QED BY <1>4, <1>5, <1>6 DEF COrderly, NoReingest, OncePerGap, Alike

\* A note is taken.
LEMMA NoteOrderly ==
    ASSUME TypeOK, Orderly', COrderly, ReplyNote
    PROVE  COrderly'
<1>1. /\ Spend("notes") /\ Open("source") /\ Noted(row', "pending") /\ notes' = notes + 1 /\ ask' = ask
      /\ said' = Append(said, [kind |-> "source", text |-> None])
      /\ UNCHANGED <<job, asked, form, replay>>
    BY TakeNoteEffect DEF ReplyNote
<1>2. /\ row'.state = row.state /\ row'.links = row.links /\ row'.resolved = row.resolved
      /\ row'.media = row.media /\ row'.waived = row.waived /\ row'.meta = row.meta
      /\ row'.note = "pending"
    BY <1>1 DEF Noted, RowIs
<1>3. used.notes = 0 /\ used'.notes = 1 /\ used'.restarts = 0 /\ used.restarts = 0
    <2>1. OneMore(used', used, "notes")
        BY <1>1, Spending, Keys
    <2>2. used \in UsedType /\ used' \in UsedType
        BY <2>1, Typed DEF OneMore
    <2>3. used'.notes = used.notes + 1 /\ used'.restarts = used.restarts
        BY <2>1 DEF OneMore
    <2>4. used.notes \in Nat /\ used.restarts \in Nat
        BY <2>2, UsedFacts
    <2>. QED BY <2>3, <2>4 DEF Orderly
<1>4. notes = 0
    BY <1>3 DEF COrderly, OneNote, TypeOK
<1>5. Has(row') = Has(row)
    BY <1>2 DEF Has
<1>6. PostKind(row') = PostKind(row)
    BY <1>2, <1>5 DEF PostKind, IsRepost
<1>7. /\ MissingMetadata(row') = MissingMetadata(row) /\ MissingImage(row') = MissingImage(row)
      /\ MissingSource(row) => MissingSource(row')
      /\ row.links # <<>> => ~MissingSource(row')
    BY <1>2, <1>6 DEF MissingMetadata, MissingImage, MissingSource
<1>8. OneNote'
    BY <1>1, <1>2, <1>3, <1>4 DEF COrderly, OneNote
<1>9. Needed'
    BY <1>1, <1>2, <1>5, <1>7 DEF COrderly, Needed, Open
<1>10. Complete'
    BY <1>1, <1>2, <1>7 DEF COrderly, Needed, Complete
<1>. QED BY <1>1, <1>2, <1>8, <1>9, <1>10 DEF COrderly, NoReingest, OncePerGap

\* A form is submitted.
LEMMA FormOrderly ==
    ASSUME TypeOK, COrderly, Onward, NEW m \in Media, NEW t \in Text \cup {None}, SubmitForm(m, t)
    PROVE  COrderly'
<1>1. PICK f \in [Media -> AltType] :
        /\ \A k \in Media : f[k].status = "absent" <=> row.media[k].status = "absent"
        /\ RowIs(row', row.state, row.links, row.resolved, f, row.waived, row.note, row.meta)
    BY SubmitFormEffect
<1>2. /\ row'.state = row.state /\ row'.links = row.links /\ row'.resolved = row.resolved
      /\ row'.media = f /\ row'.waived = row.waived /\ row'.meta = row.meta /\ row'.note = row.note
    BY <1>1 DEF RowIs
<1>3. Has(row') = Has(row)
    BY <1>1, <1>2 DEF Has
<1>4. PostKind(row') = PostKind(row)
    BY <1>2, <1>3 DEF PostKind, IsRepost
<1>5. /\ MissingMetadata(row') = MissingMetadata(row) /\ MissingImage(row') = MissingImage(row)
      /\ MissingSource(row') = MissingSource(row)
    BY <1>2, <1>4 DEF MissingMetadata, MissingImage, MissingSource
<1>6. UNCHANGED <<ask, job, asked, notes, said, replay>>
    BY DEF SubmitForm
<1>7. used'.notes = used.notes /\ used'.restarts = used.restarts
    BY SubmitFormEffect DEF SameUse
<1>8. OneNote'
    BY <1>2, <1>6, <1>7 DEF COrderly, OneNote
<1>9. Needed' /\ Complete'
    BY <1>2, <1>3, <1>5, <1>6 DEF COrderly, Needed, Complete, Open
<1>. QED BY <1>2, <1>6, <1>8, <1>9 DEF COrderly, NoReingest, OncePerGap

\* What a butterfly decided is recorded, and not late.
LEMMA RecordOrderly ==
    ASSUME TypeOK, Orderly', COrderly, SendAndRecord
    PROVE  COrderly'
<1>1. PICK R : Sent(R)
    BY SendAndRecordEffect
<1>2. PICK n \in AskType :
        /\ Performed(n, ask, job.plan, R)
        /\ AskIs(ask', n.open, n.done, n.cancel, n.checklist, n.conf, n.live, n.gone, n.late \/ Late(n))
    BY <1>1 DEF Sent
<1>3. ask'.open = n.open /\ ~Late(n)
    BY <1>2 DEF AskIs, Orderly
<1>4. job' = Idle /\ UNCHANGED <<row, asked, form, notes, said>>
      /\ (replay' = replay \/ replay.at = "scanning")
    BY DEF SendAndRecord
<1>5. \A k \in Kind : /\ n.open[k] \in Nat /\ ask.open[k] \in Nat
                      /\ \/ n.open[k] = ask.open[k]
                         \/ n.open[k] = ask.open[k] + 1 /\ k \in job.plan.ask
    <2>1. \A k \in Kind : n.open[k] \in Nat /\ ask.open[k] \in Nat
        BY Typed, AskFields
    <2>2. CASE Clash(ask, job.plan, R)
        BY <1>2, <2>1, <2>2 DEF Performed
    <2>3. CASE ~Clash(ask, job.plan, R)
        <3>1. n.open = [k \in Kind |-> ask.open[k] + IF k \in job.plan.ask \ R THEN 1 ELSE 0]
            BY <1>2, <2>3 DEF Performed
        <3>. QED BY <2>1, <3>1
    <2>. QED BY <2>2, <2>3
<1>6. \A k \in {"source", "metadata"} :
        n.open[k] > ask.open[k] => ask.open[k] = 0 /\ k \in Askable(row)
    BY <1>3, <1>5, KindsDiffer DEF Late, Open
<1>7. OncePerGap'
    BY <1>3, <1>5, <1>6, KindsDiffer DEF COrderly, OncePerGap
<1>8. /\ Open("source")' => Open("source") \/ MissingSource(row)
      /\ Open("metadata")' => Open("metadata") \/ MissingMetadata(row)
      /\ Open("moreLinks")' => Open("moreLinks") \/ "moreLinks" \in job.plan.ask
    <2>1. "source" \in Kind /\ "metadata" \in Kind /\ "moreLinks" \in Kind
        BY KindsDiffer
    <2>2. \A k \in Kind : n.open[k] > 0 => ask.open[k] > 0 \/ n.open[k] > ask.open[k]
        BY <1>5
    <2>. QED BY <1>3, <1>5, <1>6, <2>1, <2>2, Typed, GapFacts DEF Open
<1>9. Needed'
    BY <1>4, <1>8, IdleFields, MissingLinks DEF COrderly, Needed
<1>10. used'.notes = used.notes /\ used'.restarts = used.restarts
    BY SendAndRecordEffect DEF SameUse
<1>11. OneNote'
    BY <1>4, <1>10 DEF COrderly, OneNote
<1>. QED BY <1>4, <1>7, <1>9, <1>11, IdleFields DEF COrderly, NoReingest, Complete

\* The other steps keep it, too.
LEMMA AloneOrderly ==
    ASSUME TypeOK, Orderly => COrderly, Alone
    PROVE  Orderly' => COrderly'
<1>. SUFFICES ASSUME Orderly' PROVE COrderly'
    OBVIOUS
<1>1. Onward
    BY AloneOnward
<1>2. Orderly
    BY <1>1 DEF Onward, Orderly
<1>3. /\ COrderly /\ notes \in Nat /\ row \in RowType /\ row.resolved /\ ~asked
      /\ job.at \in {"idle", "sending"}
      /\ "moreLinks" \in job.plan.ask => row.links # <<>>
    BY <1>2 DEF TypeOK, COrderly, NoReingest, Needed
<1>4. used'.reingests = 0 /\ used'.notes + used'.restarts <= 1
    BY DEF Orderly
<1>5. used'.restarts = 0 => used.restarts = 0 /\ replay.at = "off"
    <2>1. used.restarts \in Nat /\ used'.restarts >= used.restarts
        BY <1>1 DEF Onward
    <2>2. used.restarts = 0 => replay.at = "off"
        BY <1>3 DEF COrderly, OneNote
    <2>. QED BY <2>1, <2>2
<1>6. CASE Stuck \/ ReplayNothing \/ OpenForm \/ ListThreads
    <2>1. UNCHANGED <<row, ask, job, asked, notes, said>>
        BY <1>6 DEF Stuck, ReplayNothing, OpenForm, ListThreads, Bystander
    <2>2. used'.restarts = 0 => replay'.at = "off"
        BY <1>5, <1>6 DEF Stuck, ReplayNothing, OpenForm, ListThreads, Bystander
    <2>. QED BY <1>1, <1>3, <2>1, <2>2, LikewiseOrderly DEF Alike
<1>7. CASE ReplyNote
    BY <1>3, <1>7, NoteOrderly
<1>8. CASE ReplayNote
    <2>1. used.notes = 0
        <3>1. used'.restarts # 0
            BY <1>5, <1>8 DEF ReplayNote
        <3>2. used'.restarts \in Nat /\ used'.notes \in Nat /\ used'.notes >= used.notes /\ used.notes \in Nat
            BY <1>1 DEF Onward
        <3>. QED BY <1>4, <3>1, <3>2
    <2>2. replay.next \in 1 .. Len(said)
        <3>1. replay.next \in 1 .. replay.last + 1 /\ replay.last <= Len(said) /\ replay.next <= replay.last
              /\ replay \in ReplayType /\ said \in Seq(SaidType)
            BY <1>8 DEF ReplayNote, TypeOK
        <3>2. replay.next \in Nat /\ replay.last \in Nat
            BY <3>1, ReplayFields
        <3>3. Len(said) \in Nat
            BY <3>1
        <3>. QED BY <3>1, <3>2, <3>3
    <2>. QED BY <1>3, <1>8, <2>1, <2>2 DEF ReplayNote, COrderly, OneNote
<1>9. ASSUME NEW n \in Msg, Queue(n) PROVE COrderly'
    <2>1. Gaps(row) = {} /\ Alike(row', row) /\ ask'.open = ask.open /\ Bystander
        BY <1>9, QueueEffect DEF RowIs, AskIs, Alike, Queue
    <2>. QED BY <1>1, <1>3, <1>5, <2>1, LikewiseOrderly DEF Bystander
<1>10. ASSUME NEW n \in Msg, DeleteQueueMessage(n) PROVE COrderly'
    <2>1. row' = row /\ ask'.open = ask.open /\ Bystander
        BY <1>10, DeleteEffect DEF AskIs, DeleteQueueMessage
    <2>. QED BY <1>1, <1>3, <1>5, <2>1, LikewiseOrderly DEF Bystander, Alike
<1>11. ASSUME NEW m \in Media, NEW t \in Text \cup {None}, SubmitForm(m, t) PROVE COrderly'
    BY <1>1, <1>3, <1>11, FormOrderly
<1>12. CASE React \/ ScanReact
    <2>1. /\ Decide /\ (used'.restarts = 0 => replay'.at = "off")
          /\ UNCHANGED <<ask, asked, form, notes, said>>
        BY <1>5, <1>12 DEF React, ScanReact, Decide
    <2>2. /\ Alike(row', row) /\ job'.at = "sending" /\ job'.plan = Plan(row, ask)
          /\ row'.state = IF row.state \in Terminal THEN row.state ELSE Evaluated(row)
        BY <2>1, DecideEffect
    <2>3. "moreLinks" \in job'.plan.ask => row.links # <<>>
        BY <2>2, Typed, PlanEffect
    <2>4. row'.state \in Terminal => row.state \in Terminal
        BY <1>3, <2>2, EvaluatedFacts
    <2>. QED BY <1>1, <1>3, <2>1, <2>2, <2>3, <2>4, LikewiseOrderly
<1>13. CASE SendAndRecord
    BY <1>3, <1>13, RecordOrderly
<1>14. CASE AskReingest
    <2>1. OneMore(used', used, "reingests")
        BY <1>14, Spending, Keys DEF AskReingest
    <2>2. used'.reingests = used.reingests + 1
        BY <2>1 DEF OneMore
    <2>3. used.reingests \in Nat
        BY <1>1 DEF Onward
    <2>. QED BY <1>4, <2>2, <2>3
<1>15. CASE FetchFails
    BY <1>3, <1>15 DEF FetchFails
<1>16. CASE Teardown \/ Relist \/ Resolve \/ RestoreAlt
    BY <1>3, <1>16, ReingestEffect
<1>17. CASE Requeue \/ \E s \in Terminal : Publish(s)
    <2>1. /\ row.state \in Terminal /\ Alike(row', row) /\ ask' = ask /\ Bystander
        BY <1>17, PublishEffect
    <2>. QED BY <1>1, <1>3, <1>5, <2>1, LikewiseOrderly DEF Bystander
<1>18. CASE Restart
    <2>1. /\ job' = Idle /\ asked' = FALSE /\ ask'.open = ask.open
          /\ OneMore(used', used, "restarts") /\ UNCHANGED <<row, notes, said>>
        BY <1>18, RestartEffect
    <2>2. used'.restarts # 0
        <3>1. used'.restarts = used.restarts + 1
            BY <2>1 DEF OneMore
        <3>2. used.restarts \in Nat
            BY <1>1 DEF Onward
        <3>. QED BY <3>1, <3>2
    <2>. QED BY <1>1, <1>3, <2>1, <2>2, IdleFields, LikewiseOrderly DEF Alike
<1>. QED BY <1>6, <1>7, <1>8, <1>9, <1>10, <1>11, <1>12, <1>13, <1>14, <1>15, <1>16, <1>17, <1>18
        DEF Alone

LEMMA InitOrderly == Init => IOrderly
<1>. SUFFICES ASSUME Init PROVE IOrderly
    OBVIOUS
<1>1. TypeOK
    BY InitTypes
<1>2. row.resolved /\ row.note = "none" /\ row.state = "intent_submitted"
    BY DEF Init
<1>3. \A k \in Kind : ask.open[k] = 0
    BY DEF Init
<1>4. asked = FALSE /\ job = Idle /\ notes = 0 /\ said = <<>> /\ replay = NoReplay
    BY DEF Init
<1>5. OncePerGap /\ Needed
    <2>1. ask.open["source"] = 0 /\ ask.open["metadata"] = 0 /\ ask.open["moreLinks"] = 0
        BY <1>3, KindsDiffer
    <2>2. job.plan.ask = {}
        BY <1>4, IdleFields
    <2>. QED BY <2>1, <2>2 DEF OncePerGap, Needed, Open
<1>6. OneNote
    <2>1. used \in UsedType /\ Len(said) = 0
        BY <1>1, <1>4 DEF TypeOK
    <2>2. used.notes \in Nat
        BY <2>1, UsedFacts
    <2>. QED BY <1>2, <1>4, <2>1, <2>2, ReplayFields DEF OneNote
<1>. QED BY <1>1, <1>2, <1>4, <1>5, <1>6, IdleFields DEF IOrderly, COrderly, NoReingest, Complete, Terminal

LEMMA OrderlyKept == IOrderly /\ [Next]_vars => IOrderly'
<1>. SUFFICES ASSUME IOrderly, [Next]_vars PROVE IOrderly'
    OBVIOUS
<1>1. TypeOK /\ (Orderly => COrderly)
    BY DEF IOrderly
<1>2. TypeOK'
    BY <1>1, TypesKept
<1>3. CASE UNCHANGED vars
    BY <1>1, <1>2, <1>3 DEF vars, IOrderly, Orderly, COrderly, NoReingest, OncePerGap, OneNote, Needed,
                            Complete, Open
<1>4. CASE Next
    BY <1>1, <1>2, <1>4, NextCases, AnsweringOrderly, AloneOrderly DEF IOrderly
<1>. QED BY <1>3, <1>4

LEMMA OrderlyComplete == IOrderly => QueueComplete
<1>. SUFFICES ASSUME TypeOK, Orderly, COrderly, row.state \in Terminal PROVE Gaps(row) \subseteq Media
    BY DEF IOrderly, QueueComplete, Orderly
<1>. QED BY Typed, GapFacts DEF COrderly, Complete

\* handle_confirm_button looks at the gaps once more, and no later answer opens one
\* but for alt text: the request it answers was still needed, or a link stands
\* before it.  With /reingest, a second prompt about a note or a request recorded
\* late there are counterexamples, which is why QueueComplete excludes them.
THEOREM QueuedIsComplete == Spec => []QueueComplete
BY InitOrderly, OrderlyKept, OrderlyComplete, PTL DEF Spec
-----------------------------------------------------------------------------
(* Asked *)

Paid(p, a) == \A k \in Askable(p) : a.open[k] > 0
Followed == used.failures = 0 /\ (Recent \/ used.reingests = 0 \/ used.restarts = 0)

\* Somebody will see to it that what is missing is asked for.
Owed ==
    \/ row.state = "intent_submitted"
    \/ job.at \in {"torn", "listed", "rebuilt", "restored"}
    \/ /\ job.at = "sending"
       /\ \A k \in Askable(row) : Open(k) \/ k \in job.plan.ask
       /\ ~(job.plan.cancel /\ ask.cancel) /\ ~job.plan.offer /\ ~job.plan.check
    \/ replay.at = "scan" /\ (Recent \/ row.state \in Pending)
    \/ replay.at = "replies"
CAsked ==
    /\ Paid(row, ask) \/ Owed
    /\ used.reingests = 0 =>
        (asked = FALSE /\ job.at \in {"idle", "sending"} /\ (Paid(row, ask) \/ row.state \in Pending))
    /\ replay.at = "scanning" => job.at = "sending"

IAsked == TypeOK /\ (Followed => CAsked)

\* A recompute of which Discord refuses nothing asks for all that is missing.
LEMMA RecordedPaid ==
    ASSUME NEW p \in RowType, NEW a \in AskType, NEW i \in ConfId, NEW R, Recorded(p, a, R, i),
           used'.failures = 0
    PROVE  \A k \in Askable(p) : ask'.open[k] > 0
<1>. DEFINE n == Perform(a, Plan(p, a), R, i)
<1>1. /\ Plan(p, a) \in PlanType /\ Plan(p, a).cancel = ~a.cancel
      /\ \A k \in Askable(p) : a.open[k] > 0 \/ k \in Plan(p, a).ask
      /\ Gaps(p) # {} => ~Plan(p, a).offer /\ ~Plan(p, a).check
    BY PlanEffect
<1>2. Performed(n, a, Plan(p, a), R) /\ ask' = n /\ R = {}
    BY <1>1, PerformEffect DEF Recorded
<1>. HIDE DEF n
<1>3. Askable(p) \subseteq Gaps(p) /\ Askable(p) \subseteq Kind
    BY GapFacts
<1>4. \A k \in Kind : a.open[k] \in Nat
    BY AskFields
<1>5. CASE Gaps(p) = {}
    BY <1>3, <1>5
<1>6. CASE Gaps(p) # {}
    <2>1. ~Clash(a, Plan(p, a), R)
        BY <1>1, <1>6 DEF Clash, Posts, Lost
    <2>2. n.open = [k \in Kind |-> a.open[k] + IF k \in Plan(p, a).ask \ R THEN 1 ELSE 0]
        BY <1>2, <2>1 DEF Performed
    <2>3. \A k \in Kind : n.open[k] = a.open[k] + IF k \in Plan(p, a).ask THEN 1 ELSE 0
        BY <1>2, <2>2
    <2>. QED BY <1>1, <1>2, <1>3, <1>4, <2>3
<1>. QED BY <1>5, <1>6

LEMMA Advanced ==
    ASSUME TypeOK, replay' = replay \/ replay' = [replay EXCEPT !.next = @ + 1]
    PROVE  replay'.at = replay.at
<1>1. [replay EXCEPT !.next = @ + 1].at = replay.at
    BY ReplayFields DEF TypeOK
<1>2. CASE replay' = replay
    BY <1>2
<1>3. CASE replay' = [replay EXCEPT !.next = @ + 1]
    BY <1>1, <1>3, Zenon
<1>. QED BY <1>2, <1>3

LEMMA AnsweringAsked ==
    ASSUME TypeOK, Followed => CAsked, Answering, Beside
    PROVE  Followed' => CAsked'
<1>. SUFFICES ASSUME Followed' PROVE CAsked'
    OBVIOUS
<1>1. PICK p \in RowType : \E K : Recomputing(p, K)
    BY DEF Answering
<1>2. PICK K : Recomputing(p, K)
    BY <1>1
<1>3. /\ Alike(row', p) /\ used' \in UsedType /\ SameUse(used', used)
      /\ \E a \in AskType, i \in ConfId : \E R : Answers(a, ask, K) /\ Recorded(p, a, R, i)
    BY <1>2, RecomputingEffect
<1>4. used'.failures = 0 /\ used.failures = 0 /\ used'.reingests = used.reingests
      /\ used'.restarts = used.restarts
    <2>1. used'.failures >= used.failures /\ used'.failures = 0 /\ used'.reingests = used.reingests
          /\ used'.restarts = used.restarts
        BY <1>3 DEF SameUse, Followed
    <2>2. used.failures \in Nat
        BY Typed, UsedFacts
    <2>. QED BY <2>1, <2>2
<1>5. CAsked
    BY <1>4 DEF Followed
<1>6. \A k \in Askable(p) : ask'.open[k] > 0
    BY <1>3, <1>4, RecordedPaid
<1>7. Paid(row, ask)'
    BY <1>3, <1>6, GapsAlike DEF Paid
<1>8. replay'.at = "scanning" => job'.at = "sending"
    <2>1. CASE replay' = replay
        BY <1>5, <2>1 DEF CAsked, Beside
    <2>2. CASE replay' = NoReplay
        BY <2>2, ReplayFields
    <2>3. CASE replay.at = "replies" /\ replay' = [replay EXCEPT !.next = @ + 1]
        <3>1. replay'.at = replay.at
            BY <2>3, ReplayFields DEF TypeOK
        <3>. QED BY <2>3, <3>1
    <2>. QED BY <2>1, <2>2, <2>3 DEF Beside
<1>9. used'.reingests = 0 => asked' = FALSE /\ job'.at \in {"idle", "sending"}
    BY <1>4, <1>5, IdleFields DEF CAsked, Beside
<1>. QED BY <1>7, <1>8, <1>9 DEF CAsked

\* A step after which no more is missing without being asked for.
LEMMA LessAsked ==
    ASSUME CAsked, Onward, \A k \in Askable(row') : k \in Askable(row) \/ Open(k),
           ask'.open = ask.open, ask'.cancel = ask.cancel, job' = job, replay'.at = replay.at,
           used'.reingests = 0 => asked' \in {asked, FALSE},
           row'.state = row.state \/ row.state \in Terminal \/ Askable(row') = {}
    PROVE  CAsked'
<1>1. Paid(row, ask) => Paid(row, ask)'
    BY DEF Paid, Open
<1>2. used'.reingests = 0 => used.reingests = 0
    BY DEF Onward
<1>3. CASE Askable(row') = {}
    <2>1. Paid(row, ask)'
        BY <1>3 DEF Paid
    <2>. QED BY <1>2, <2>1 DEF CAsked
<1>4. CASE row'.state = row.state \/ row.state \in Terminal
    <2>1. row.state \in Pending \cup {"intent_submitted"} => row'.state = row.state
        BY <1>4 DEF Pending, Terminal
    <2>2. Owed => Owed'
        BY <2>1 DEF Owed, Open
    <2>. QED BY <1>1, <1>2, <2>1, <2>2 DEF CAsked
<1>. QED BY <1>3, <1>4

LEMMA NoteLess ==
    ASSUME TypeOK, TakeNote, Open("source")
    PROVE  /\ \A k \in Askable(row') : k \in Askable(row) \/ Open(k)
           /\ row'.state = row.state /\ ask' = ask
<1>1. Noted(row', "pending") /\ row' \in RowType /\ ask' = ask
    BY TakeNoteEffect
<1>2. /\ row'.state = row.state /\ row'.links = row.links /\ row'.resolved = row.resolved
      /\ row'.media = row.media /\ row'.meta = row.meta
    BY <1>1 DEF Noted, RowIs
<1>3. Has(row') = Has(row) /\ MissingAlt(row') = MissingAlt(row)
    BY <1>2 DEF Has, MissingAlt
<1>4. PostKind(row') = PostKind(row)
    BY <1>2, <1>3 DEF PostKind, IsRepost
<1>5. MissingMetadata(row') = MissingMetadata(row) /\ MissingImage(row') = MissingImage(row)
    BY <1>2, <1>4 DEF MissingMetadata, MissingImage
<1>6. Gaps(row') \subseteq Gaps(row) \cup {"source"}
    BY <1>3, <1>5 DEF Gaps
<1>. QED BY <1>1, <1>2, <1>5, <1>6 DEF Askable

LEMMA FormLess ==
    ASSUME TypeOK, NEW m \in Media, NEW t \in Text \cup {None}, SubmitForm(m, t)
    PROVE  /\ Askable(row') \subseteq Askable(row) /\ Gaps(row') \subseteq Gaps(row)
           /\ row'.state = row.state /\ row'.waived = row.waived /\ row'.note = row.note
<1>1. PICK f \in [Media -> AltType] :
        /\ \A k \in Media : /\ f[k].status = "absent" <=> row.media[k].status = "absent"
                            /\ f[k].status = "needed" => row.media[k].status = "needed"
        /\ RowIs(row', row.state, row.links, row.resolved, f, row.waived, row.note, row.meta)
    BY SubmitFormEffect
<1>2. /\ row'.state = row.state /\ row'.links = row.links /\ row'.resolved = row.resolved
      /\ row'.media = f /\ row'.waived = row.waived /\ row'.meta = row.meta /\ row'.note = row.note
    BY <1>1 DEF RowIs
<1>3. Has(row') = Has(row) /\ MissingAlt(row') \subseteq MissingAlt(row)
    BY <1>1, <1>2 DEF Has, MissingAlt
<1>4. PostKind(row') = PostKind(row)
    BY <1>2, <1>3 DEF PostKind, IsRepost
<1>5. /\ MissingMetadata(row') = MissingMetadata(row) /\ MissingImage(row') = MissingImage(row)
      /\ MissingSource(row') = MissingSource(row)
    BY <1>2, <1>4 DEF MissingMetadata, MissingImage, MissingSource
<1>6. Gaps(row') \subseteq Gaps(row)
    BY <1>3, <1>5 DEF Gaps
<1>. QED BY <1>2, <1>5, <1>6 DEF Askable

\* A butterfly is decided on.
LEMMA DecidePaid ==
    ASSUME TypeOK, CAsked, Decide, used'.reingests = used.reingests
    PROVE  CAsked'
<1>1. /\ Alike(row', row) /\ job'.at = "sending" /\ job'.plan = Plan(row, ask)
      /\ row'.state = IF row.state \in Terminal THEN row.state ELSE Evaluated(row)
    BY DecideEffect
<1>2. ask' = ask /\ asked' = asked
    BY DEF Decide
<1>3. Askable(row') = Askable(row) /\ Gaps(row') = Gaps(row) /\ Askable(row) \subseteq Gaps(row)
    BY <1>1, Typed, GapsAlike, GapFacts
<1>4. CASE Gaps(row) = {}
    <2>1. Paid(row, ask)'
        BY <1>3, <1>4 DEF Paid
    <2>. QED BY <1>1, <1>2, <2>1 DEF CAsked
<1>5. CASE Gaps(row) # {}
    <2>1. /\ job'.plan.cancel = ~ask.cancel /\ ~job'.plan.offer /\ ~job'.plan.check
          /\ \A k \in Askable(row) : Open(k) \/ k \in job'.plan.ask
        BY <1>1, <1>5, Typed, PlanEffect DEF Open
    <2>2. Owed'
        BY <1>1, <1>2, <1>3, <2>1 DEF Owed, Open
    <2>3. used.reingests = 0 => Paid(row, ask)' \/ row'.state \in Pending
        <3>1. CASE row.state \in Terminal
            <4>1. used.reingests = 0 => Paid(row, ask)
                BY <3>1 DEF CAsked, Terminal, Pending
            <4>. QED BY <1>2, <1>3, <4>1 DEF Paid
        <3>2. CASE row.state \notin Terminal
            BY <1>1, <1>5, <3>2, Typed, EvaluatedFacts
        <3>. QED BY <3>1, <3>2
    <2>. QED BY <1>1, <1>2, <2>2, <2>3 DEF CAsked
<1>. QED BY <1>4, <1>5

\* What it decided is sent, and nothing refused.
LEMMA RecordPaid ==
    ASSUME TypeOK, CAsked, SendAndRecord, used'.failures = 0
    PROVE  CAsked'
<1>1. PICK R : Sent(R) /\ R = {}
    BY SendAndRecordEffect
<1>2. PICK n \in AskType :
        /\ Performed(n, ask, job.plan, R)
        /\ AskIs(ask', n.open, n.done, n.cancel, n.checklist, n.conf, n.live, n.gone, n.late \/ Late(n))
    BY <1>1 DEF Sent
<1>3. ask'.open = n.open
    BY <1>2 DEF AskIs
<1>4. /\ job.at = "sending" /\ job' = Idle /\ UNCHANGED <<row, asked>>
      /\ replay' = IF replay.at = "scanning" THEN [replay EXCEPT !.at = "scanned"] ELSE replay
    BY DEF SendAndRecord
<1>5. used'.reingests = used.reingests
    BY SendAndRecordEffect DEF SameUse
<1>6. \A k \in Kind : /\ n.open[k] \in Nat /\ ask.open[k] \in Nat
                      /\ Clash(ask, job.plan, R) => n.open[k] = ask.open[k]
                      /\ ~Clash(ask, job.plan, R) => n.open[k] = ask.open[k] + IF k \in job.plan.ask THEN 1 ELSE 0
    <2>1. \A k \in Kind : n.open[k] \in Nat /\ ask.open[k] \in Nat
        BY Typed, AskFields
    <2>2. CASE Clash(ask, job.plan, R)
        BY <1>2, <2>1, <2>2 DEF Performed
    <2>3. CASE ~Clash(ask, job.plan, R)
        <3>1. n.open = [k \in Kind |-> ask.open[k] + IF k \in job.plan.ask \ R THEN 1 ELSE 0]
            BY <1>2, <2>3 DEF Performed
        <3>. QED BY <1>1, <2>1, <2>3, <3>1
    <2>. QED BY <2>2, <2>3
<1>7. Askable(row) \subseteq Kind
    BY Typed, GapFacts
<1>8. Paid(row, ask) => Paid(row, ask)'
    BY <1>3, <1>4, <1>6, <1>7 DEF Paid
<1>9. Owed => Paid(row, ask)' \/ Owed'
    <2>1. ASSUME \A k \in Askable(row) : Open(k) \/ k \in job.plan.ask,
                 ~(job.plan.cancel /\ ask.cancel), ~job.plan.offer, ~job.plan.check
          PROVE  Paid(row, ask)'
        <3>1. ~Clash(ask, job.plan, R)
            BY <2>1 DEF Clash, Posts, Lost
        <3>. QED BY <1>3, <1>4, <1>6, <1>7, <2>1, <3>1 DEF Paid, Open
    <2>2. replay.at \in {"scan", "replies"} => replay' = replay
        BY <1>4
    <2>. QED BY <1>4, <2>1, <2>2 DEF Owed
<1>10. replay'.at # "scanning"
    <2>1. CASE replay.at = "scanning"
        BY <1>4, <2>1, ReplayFields DEF TypeOK
    <2>2. CASE replay.at # "scanning"
        BY <1>4, <2>2
    <2>. QED BY <2>1, <2>2
<1>. QED BY <1>4, <1>5, <1>8, <1>9, <1>10, IdleFields DEF CAsked

LEMMA AloneAsked ==
    ASSUME TypeOK, Followed => CAsked, Alone
    PROVE  Followed' => CAsked'
<1>. SUFFICES ASSUME Followed' PROVE CAsked'
    OBVIOUS
<1>1. Onward
    BY AloneOnward
<1>2. /\ used'.failures = 0 /\ used.failures = 0
      /\ used'.reingests = 0 => used.reingests = 0
      /\ used'.restarts = 0 => used.restarts = 0
    <2>1. used'.failures = 0
        BY DEF Followed
    <2>. QED BY <1>1, <2>1 DEF Onward
<1>3. CAsked
    <2>1. Recent \/ used'.reingests = 0 \/ used'.restarts = 0
        BY DEF Followed
    <2>. QED BY <1>2, <2>1 DEF Followed
<1>4. CASE Stuck \/ OpenForm \/ FetchFails \/ ReplayNothing
    <2>1. UNCHANGED <<row, ask, job>> /\ asked' \in {asked, FALSE}
        BY <1>4 DEF Stuck, OpenForm, FetchFails, ReplayNothing, Bystander
    <2>2. replay'.at = replay.at
        <3>1. replay' = replay \/ replay' = [replay EXCEPT !.next = @ + 1]
            BY <1>4 DEF Stuck, OpenForm, FetchFails, ReplayNothing, Bystander
        <3>. QED BY <3>1, Advanced
    <2>. QED BY <1>1, <1>3, <2>1, <2>2, LessAsked
<1>5. CASE ReplyNote \/ ReplayNote
    <2>1. TakeNote /\ Open("source") /\ UNCHANGED <<job, asked>>
        BY <1>5 DEF ReplyNote, ReplayNote
    <2>2. replay'.at = replay.at
        <3>1. replay' = replay \/ replay' = [replay EXCEPT !.next = @ + 1]
            BY <1>5 DEF ReplyNote, ReplayNote
        <3>. QED BY <3>1, Advanced
    <2>. QED BY <1>1, <1>3, <2>1, <2>2, NoteLess, LessAsked
<1>6. ASSUME NEW n \in Msg, Queue(n) PROVE CAsked'
    <2>1. /\ Gaps(row) = {} /\ Alike(row', row) /\ ask'.open = ask.open /\ ask'.cancel = ask.cancel
          /\ UNCHANGED <<job, asked, replay>>
        BY <1>6, QueueEffect DEF RowIs, AskIs, Alike, Queue, Bystander
    <2>2. Askable(row') = {}
        BY <2>1, Typed, GapsAlike, GapFacts
    <2>. QED BY <1>1, <1>3, <2>1, <2>2, LessAsked
<1>7. ASSUME NEW n \in Msg, DeleteQueueMessage(n) PROVE CAsked'
    <2>1. ask'.open = ask.open /\ ask'.cancel = ask.cancel /\ UNCHANGED <<row, job, asked, replay>>
        BY <1>7, DeleteEffect DEF AskIs, DeleteQueueMessage, Bystander
    <2>. QED BY <1>1, <1>3, <2>1, LessAsked
<1>8. ASSUME NEW m \in Media, NEW t \in Text \cup {None}, SubmitForm(m, t) PROVE CAsked'
    <2>1. UNCHANGED <<ask, job, asked, replay>>
        BY <1>8 DEF SubmitForm
    <2>. QED BY <1>1, <1>3, <1>8, <2>1, FormLess, LessAsked
<1>9. CASE React
    <2>1. OneMore(used', used, "reactions") /\ Decide
        BY <1>9, Spending, Keys DEF React
    <2>2. used'.reingests = used.reingests
        BY <2>1 DEF OneMore
    <2>. QED BY <1>3, <2>1, <2>2, DecidePaid
<1>10. CASE ScanReact
    BY <1>3, <1>10, DecidePaid DEF ScanReact
<1>11. CASE SendAndRecord
    BY <1>2, <1>3, <1>11, RecordPaid
<1>12. CASE AskReingest
    <2>1. OneMore(used', used, "reingests") /\ UNCHANGED <<row, ask, job, replay>>
        BY <1>12, Spending, Keys DEF AskReingest
    <2>2. used'.reingests # 0
        <3>1. used'.reingests = used.reingests + 1
            BY <2>1 DEF OneMore
        <3>2. used.reingests \in Nat
            BY <1>1 DEF Onward
        <3>. QED BY <3>1, <3>2
    <2>. QED BY <1>1, <1>3, <2>1, <2>2, LessAsked
<1>13. CASE Teardown \/ Relist \/ Resolve \/ RestoreAlt
    <2>1. /\ job'.at \in {"torn", "listed", "rebuilt", "restored"} /\ job.at # "sending"
          /\ asked \/ job.at \in {"torn", "listed", "rebuilt", "restored"}
          /\ replay' = replay
        BY <1>13, ReingestEffect
    <2>2. used'.reingests # 0
        BY <1>2, <1>3, <2>1 DEF CAsked
    <2>3. Owed'
        BY <2>1 DEF Owed
    <2>. QED BY <1>3, <2>1, <2>2, <2>3 DEF CAsked
<1>14. CASE Requeue \/ \E s \in Terminal : Publish(s)
    <2>1. /\ row.state \in Terminal /\ Alike(row', row) /\ ask' = ask
          /\ UNCHANGED <<job, asked, replay>>
        BY <1>14, PublishEffect DEF Bystander
    <2>2. Askable(row') = Askable(row)
        BY <2>1, GapsAlike
    <2>. QED BY <1>1, <1>3, <2>1, <2>2, LessAsked
<1>15. CASE Restart
    <2>1. /\ job' = Idle /\ asked' = FALSE /\ ask'.open = ask.open /\ replay'.at = "scan"
          /\ OneMore(used', used, "restarts") /\ UNCHANGED row
        BY <1>15, RestartEffect
    <2>2. used'.restarts = used.restarts + 1 /\ used'.reingests = used.reingests
        BY <2>1 DEF OneMore
    <2>3. used'.restarts # 0
        <3>1. used.restarts \in Nat
            BY <1>1 DEF Onward
        <3>. QED BY <2>2, <3>1
    <2>4. Recent \/ used.reingests = 0
        BY <2>2, <2>3 DEF Followed
    <2>5. Paid(row, ask) => Paid(row, ask)'
        BY <2>1 DEF Paid
    <2>6. Paid(row, ask)' \/ Owed'
        BY <1>3, <2>1, <2>4, <2>5 DEF CAsked, Owed
    <2>. QED BY <1>3, <2>1, <2>2, <2>5, <2>6, IdleFields DEF CAsked
<1>16. CASE ListThreads
    <2>1. /\ UNCHANGED <<row, ask, job, asked, used>>
          /\ replay.at = IF Recent THEN "scanned" ELSE "scan"
          /\ replay' = IF row.state \in Pending THEN [at |-> "replies", next |-> 1, last |-> Len(said)]
                       ELSE NoReplay
        BY <1>16 DEF ListThreads
    <2>2. replay'.at = IF row.state \in Pending THEN "replies" ELSE "off"
        BY <2>1, ReplayFields
    <2>3. Owed => Owed'
        BY <2>1, <2>2 DEF Owed, Open, Pending
    <2>4. Paid(row, ask) => Paid(row, ask)'
        BY <2>1 DEF Paid
    <2>. QED BY <1>3, <2>1, <2>2, <2>3, <2>4 DEF CAsked
<1>. QED BY <1>4, <1>5, <1>6, <1>7, <1>8, <1>9, <1>10, <1>11, <1>12, <1>13, <1>14, <1>15, <1>16
        DEF Alone

LEMMA InitAsked == Init => IAsked
<1>. SUFFICES ASSUME Init PROVE IAsked
    OBVIOUS
<1>1. row.state = "intent_submitted" /\ asked = FALSE /\ job = Idle /\ replay = NoReplay
    BY DEF Init
<1>. QED BY <1>1, InitTypes, IdleFields, ReplayFields DEF IAsked, CAsked, Owed, Pending

LEMMA AskedKept == IAsked /\ [Next]_vars => IAsked'
<1>. SUFFICES ASSUME IAsked, [Next]_vars PROVE IAsked'
    OBVIOUS
<1>1. TypeOK /\ (Followed => CAsked)
    BY DEF IAsked
<1>2. TypeOK'
    BY <1>1, TypesKept
<1>3. CASE UNCHANGED vars
    BY <1>1, <1>2, <1>3 DEF vars, IAsked, Followed, CAsked, Paid, Owed, Open
<1>4. CASE Next
    BY <1>1, <1>2, <1>4, NextCases, AnsweringAsked, AloneAsked DEF IAsked
<1>. QED BY <1>3, <1>4

LEMMA FollowedAsked == IAsked => Asked
BY DEF IAsked, Followed, CAsked, Paid, Owed, Asked, Settles, Open

\* recompute_and_request asks for what it finds missing, and what else changes the
\* row either asks for less or leaves a beat, the boot scan or the thread catch-up
\* that will ask, even when answers come between a butterfly's decision and its
\* record.
THEOREM MissingIsAsked == Spec => []Asked
BY InitAsked, AskedKept, FollowedAsked, PTL DEF Spec

-----------------------------------------------------------------------------
(* QueueOffered *)

\* Without a butterfly on record nothing is asked that is not missing any more.
Undecided ==
    /\ job.at # "sending"
    /\ ask.open["source"] <= 1
    /\ row.waived \/ row.note = "confirmed" => ~Open("source")
    /\ ask.conf.row = "open" /\ job.at = "idle" => Gaps(row) = {}
COffered ==
    /\ ask.gone = {} /\ replay.at = "off"
    /\ ask.conf.row = "open" => ask.conf.msg \in ask.live
    /\ row.state \in Terminal <=> ask.conf.row = "confirmed"
    /\ row.state = "ready_to_queue" =>
        \/ ask.conf.row = "open"
        \/ job.at = "sending" /\ job.plan.offer /\ ~(job.plan.cancel /\ ask.cancel)
    /\ job.at = "sending" => ~job.plan.retire
    /\ used.reactions = 0 => Undecided
IOffered == TypeOK /\ (Undisturbed => COffered)

\* A recompute with its requests as they are now, over the state there is.
LEMMA RecordedOffer ==
    ASSUME NEW p \in RowType, NEW a \in AskType, NEW i \in ConfId, NEW R, Recorded(p, a, R, i),
           used'.failures = 0, a.gone = {}, p.state \in Terminal <=> a.conf.row = "confirmed",
           a.conf.row = "open" => a.conf.msg \in a.live
    PROVE  /\ ask'.gone = {}
           /\ ask'.conf.row = "open" => ask'.conf.msg \in ask'.live
           /\ ask'.conf.row = "confirmed" <=> p.state \in Terminal
           /\ ask'.conf.row = "open" => Gaps(p) = {}
           /\ p.state \notin Terminal /\ Gaps(p) = {} => ask'.conf.row = "open"
<1>. DEFINE n == Perform(a, Plan(p, a), R, i)
            plan == Plan(p, a)
<1>1. /\ plan \in PlanType /\ plan.cancel = ~a.cancel /\ plan.conf = a.conf
      /\ plan.retire <=> p.state \notin Terminal /\ Gaps(p) # {} /\ a.conf.row = "open"
      /\ plan.offer <=> p.state \notin Terminal /\ Gaps(p) = {} /\ a.conf.row # "open"
    BY PlanEffect
<1>2. Performed(n, a, plan, R) /\ ask' = n /\ R = {}
    BY <1>1, PerformEffect DEF Recorded
<1>. HIDE DEF n, plan
<1>3. a.conf \in ConfType /\ a.conf.row \in {"none", "open", "confirmed"} /\ a.cancel \in BOOLEAN
      /\ [a.conf EXCEPT !.row = "none"].row = "none"
    BY AskFields, ConfFields
<1>4. ~Lost(a, plan) /\ (Posts(a, plan, R) <=> plan.offer)
    BY <1>1, <1>2 DEF Lost, Posts
<1>5. /\ ~plan.retire => Retained(a, plan) = a.conf
      /\ plan.retire => Retained(a, plan).row = "none"
    BY <1>1, <1>3, <1>4 DEF Retained
<1>6. ~Clash(a, plan, R)
    BY <1>1, <1>2, <1>3, <1>4, <1>5 DEF Clash
<1>7. /\ n.gone = {}
      /\ plan.offer => n.conf.row = "open" /\ n.conf.msg \in n.live
      /\ ~plan.offer => n.conf = Retained(a, plan)
      /\ ~plan.retire => a.live \subseteq n.live
    BY <1>2, <1>4, <1>6 DEF Performed
<1>8. CASE plan.offer
    BY <1>1, <1>2, <1>7, <1>8
<1>9. CASE ~plan.offer /\ plan.retire
    BY <1>1, <1>2, <1>5, <1>7, <1>9
<1>10. CASE ~plan.offer /\ ~plan.retire
    BY <1>1, <1>2, <1>3, <1>5, <1>7, <1>10
<1>. QED BY <1>8, <1>9, <1>10

\* The answer: it keeps the state, and who has it confirmed or waived has it asked
\* for no more.
LEMMA AnswerKinds ==
    ASSUME TypeOK, Answering
    PROVE  \E p \in RowType, K \in SUBSET Kind :
                /\ Recomputing(p, K) /\ p.state = row.state
                /\ "source" \notin K /\ (p.waived \/ p.note = "confirmed")
                        => row.waived \/ row.note = "confirmed"
<1>1. PICK p \in RowType :
        \/ \E k \in {"source", "moreLinks"}, l \in Link :
            notes' = notes /\ Open(k) /\ Linked(p, l) /\ Recomputing(p, {k})
        \/ \E l \in Link :
            notes' = notes /\ Open("metadata") /\ Bettered(p, l) /\ Recomputing(p, {"metadata"})
        \/ \E f, K : /\ K \subseteq Media \cup {"image", "moreImages"}
                     /\ notes' = notes /\ Pictured(p, f) /\ Recomputing(p, K)
        \/ notes' = notes /\ Waived(p) /\ Recomputing(p, {"source"})
        \/ notes' = notes /\ Trusted(p) /\ Recomputing(p, {"metadata"})
        \/ Prompted /\ Noted(p, "confirmed") /\ Recomputing(p, {"source"})
        \/ Prompted /\ Noted(p, "none") /\ Recomputing(p, {})
        \/ notes' = notes /\ p = row /\ Recomputing(p, {})
    BY DEF Answering
<1>. DEFINE Keeps(K) == /\ Recomputing(p, K) /\ p.state = row.state
                        /\ "source" \in K \/ (p.waived = row.waived /\ (p.note = row.note \/ p.note = "none"))
<1>2. ASSUME NEW K \in SUBSET Kind, Keeps(K)
      PROVE  \E q \in RowType, J \in SUBSET Kind :
                /\ Recomputing(q, J) /\ q.state = row.state
                /\ "source" \notin J /\ (q.waived \/ q.note = "confirmed")
                        => row.waived \/ row.note = "confirmed"
    BY <1>2
<1>3. ASSUME NEW k \in {"source", "moreLinks"}, NEW l \in Link, Linked(p, l), Recomputing(p, {k})
      PROVE  \E K \in SUBSET Kind : Keeps(K)
    BY <1>3, KindsDiffer DEF Linked, RowIs
<1>4. ASSUME NEW l \in Link, Bettered(p, l), Recomputing(p, {"metadata"})
      PROVE  \E K \in SUBSET Kind : Keeps(K)
    BY <1>4, KindsDiffer DEF Bettered, RowIs
<1>5. ASSUME NEW f, NEW K, K \subseteq Media \cup {"image", "moreImages"}, Pictured(p, f), Recomputing(p, K)
      PROVE  \E J \in SUBSET Kind : Keeps(J)
    BY <1>5, KindsDiffer DEF Pictured, RowIs
<1>6. ASSUME NEW K, \/ Waived(p) /\ K = {"source"}
                    \/ Trusted(p) /\ K = {"metadata"}
                    \/ Noted(p, "confirmed") /\ K = {"source"}
                    \/ Noted(p, "none") /\ K = {}
                    \/ p = row /\ K = {},
             Recomputing(p, K)
      PROVE  \E J \in SUBSET Kind : Keeps(J)
    <2>1. K \in SUBSET Kind
        BY <1>6, KindsDiffer
    <2>2. p.state = row.state
        BY <1>6 DEF Waived, Trusted, Noted, RowIs
    <2>3. "source" \in K \/ (p.waived = row.waived /\ (p.note = row.note \/ p.note = "none"))
        BY <1>6 DEF Waived, Trusted, Noted, RowIs
    <2>. QED BY <1>6, <2>1, <2>2, <2>3
<1>7. \E K \in SUBSET Kind : Keeps(K)
    BY <1>1, <1>3, <1>4, <1>5, <1>6
<1>. QED BY <1>2, <1>7

LEMMA AnsweringOffered ==
    ASSUME TypeOK, Undisturbed => COffered, Answering, Beside, Undisturbed'
    PROVE  COffered'
<1>1. PICK p \in RowType, K \in SUBSET Kind :
        /\ Recomputing(p, K) /\ p.state = row.state
        /\ "source" \notin K /\ (p.waived \/ p.note = "confirmed")
                => row.waived \/ row.note = "confirmed"
    BY AnswerKinds
<1>2. /\ row' \in RowType /\ Alike(row', p) /\ used' \in UsedType /\ SameUse(used', used)
      /\ row'.state = IF p.state \in Terminal THEN p.state ELSE Evaluated(p)
    BY <1>1, RecomputingEffect
<1>3. PICK a \in AskType, i \in ConfId : \E R : Answers(a, ask, K) /\ Recorded(p, a, R, i)
    BY <1>1, RecomputingEffect
<1>4. PICK R : Answers(a, ask, K) /\ Recorded(p, a, R, i)
    BY <1>3
<1>5. used'.failures = 0 /\ used'.reactions = used.reactions /\ COffered
    <2>1. /\ used.failures \in Nat /\ used.deletes \in Nat /\ used.restarts \in Nat
          /\ used'.failures \in Nat /\ used'.deletes \in Nat /\ used'.restarts \in Nat
        BY <1>2, Typed, UsedFacts
    <2>2. used'.failures = 0 /\ used'.deletes = 0 /\ used'.restarts = 0 /\ used'.reactions <= 1
        BY <2>1 DEF Undisturbed
    <2>3. /\ used'.reactions = used.reactions /\ used.failures = 0 /\ used.deletes = 0
          /\ used.restarts = 0
        BY <1>2, <2>1, <2>2 DEF SameUse
    <2>. QED BY <2>2, <2>3 DEF Undisturbed
<1>6. /\ a.gone = {} /\ (p.state \in Terminal <=> a.conf.row = "confirmed")
      /\ a.conf.row = "open" => a.conf.msg \in a.live
    BY <1>1, <1>4, <1>5 DEF Answers, COffered
<1>7. /\ ask'.gone = {}
      /\ ask'.conf.row = "open" => ask'.conf.msg \in ask'.live
      /\ ask'.conf.row = "confirmed" <=> p.state \in Terminal
      /\ ask'.conf.row = "open" => Gaps(p) = {}
      /\ p.state \notin Terminal /\ Gaps(p) = {} => ask'.conf.row = "open"
    BY <1>4, <1>5, <1>6, RecordedOffer
<1>8. Gaps(row') = Gaps(p)
    BY <1>2, GapsAlike
<1>9. /\ row'.state \in Terminal <=> p.state \in Terminal
      /\ row'.state = "ready_to_queue" => p.state \notin Terminal /\ Gaps(p) = {}
    BY <1>2, EvaluatedFacts DEF Terminal
<1>10. replay' = replay
    BY <1>5 DEF COffered, Beside
<1>11. job' = job \/ job'.at = "idle"
    BY IdleFields DEF Beside
<1>12. used.reactions = 0 => Undecided'
    <2>. SUFFICES ASSUME used.reactions = 0 PROVE Undecided'
        OBVIOUS
    <2>1. /\ job.at # "sending" /\ ask.open["source"] <= 1
          /\ row.waived \/ row.note = "confirmed" => ~Open("source")
        BY <1>5 DEF COffered, Undecided
    <2>2. "source" \in Kind /\ ask.open["source"] \in Nat /\ a.open["source"] \in Nat
        BY Typed, AskFields, KindsDiffer
    <2>3. /\ "source" \notin K => a.open["source"] = ask.open["source"]
          /\ "source" \in K => a.open["source"] = 0
        BY <1>4, <2>1, <2>2 DEF Answers
    <2>4. \/ ask'.open["source"] = a.open["source"]
          \/ /\ ask'.open["source"] = 1 /\ MissingSource(p)
        BY <1>4, <2>2, RecordedOpen, PlanEffect, GapFacts
    <2>5. ask'.open["source"] <= 1
        BY <2>1, <2>2, <2>3, <2>4
    <2>6. row'.waived \/ row'.note = "confirmed" => ~Open("source")'
        <3>1. row'.waived = p.waived /\ row'.note = p.note
            BY <1>2 DEF Alike
        <3>. QED BY <1>1, <2>1, <2>2, <2>3, <2>4, <3>1 DEF Open, MissingSource
    <2>. QED BY <1>7, <1>8, <1>11, <2>1, <2>5, <2>6 DEF Undecided
<1>. QED BY <1>5, <1>7, <1>9, <1>10, <1>11, <1>12 DEF COffered

\* A step beside the requests and the row's state.
LEMMA LikewiseOffered ==
    ASSUME COffered, Onward, ask' = ask, job' = job, replay' = replay, row'.state = row.state,
           row'.waived = row.waived,
           row'.note = row.note \/ row'.note = "pending",
           Undecided /\ ask.conf.row = "open" /\ Gaps(row) = {} => Gaps(row') = {}
    PROVE  COffered'
<1>1. used'.reactions = 0 => used.reactions = 0
    BY DEF Onward
<1>2. Undecided => Undecided'
    BY DEF Undecided, Open
<1>. QED BY <1>1, <1>2 DEF COffered

LEMMA NoteOffered ==
    ASSUME TypeOK, COffered, Onward, ReplyNote
    PROVE  COffered'
<1>1. /\ Open("source") /\ Noted(row', "pending") /\ ask' = ask /\ UNCHANGED <<job, replay>>
    BY TakeNoteEffect DEF ReplyNote
<1>2. /\ row'.state = row.state /\ row'.links = row.links /\ row'.resolved = row.resolved
      /\ row'.media = row.media /\ row'.waived = row.waived /\ row'.meta = row.meta
      /\ row'.note = "pending"
    BY <1>1 DEF Noted, RowIs
<1>3. Has(row') = Has(row) /\ MissingAlt(row') = MissingAlt(row)
    BY <1>2 DEF Has, MissingAlt
<1>4. PostKind(row') = PostKind(row)
    BY <1>2, <1>3 DEF PostKind, IsRepost
<1>5. MissingMetadata(row') = MissingMetadata(row) /\ MissingImage(row') = MissingImage(row)
    BY <1>2, <1>4 DEF MissingMetadata, MissingImage
<1>6. ASSUME Undecided, Gaps(row) = {} PROVE Gaps(row') = {}
    <2>1. ~MissingSource(row)
        BY <1>6, Typed, GapFacts
    <2>2. ~MissingSource(row')
        BY <1>1, <1>2, <1>6, <2>1 DEF MissingSource, Undecided
    <2>. QED BY <1>3, <1>5, <1>6, <2>1, <2>2 DEF Gaps
<1>. QED BY <1>1, <1>2, <1>6, LikewiseOffered

LEMMA DecideOffered ==
    ASSUME TypeOK, COffered, Undecided, Decide, replay' = replay, used'.reactions # 0
    PROVE  COffered'
<1>1. /\ job.at = "idle" /\ Alike(row', row) /\ job'.at = "sending" /\ job'.plan = Plan(row, ask)
      /\ row'.state = IF row.state \in Terminal THEN row.state ELSE Evaluated(row)
    BY DecideEffect
<1>2. ask' = ask
    BY DEF Decide
<1>3. /\ job'.plan.cancel = ~ask.cancel
      /\ job'.plan.retire <=> row.state \notin Terminal /\ Gaps(row) # {} /\ ask.conf.row = "open"
      /\ job'.plan.offer <=> row.state \notin Terminal /\ Gaps(row) = {} /\ ask.conf.row # "open"
    BY <1>1, Typed, PlanEffect
<1>4. /\ row'.state \in Terminal <=> row.state \in Terminal
      /\ row'.state = "ready_to_queue" => row.state \notin Terminal /\ Gaps(row) = {}
    BY <1>1, Typed, EvaluatedFacts DEF Terminal
<1>5. ~job'.plan.retire
    BY <1>1, <1>3 DEF Undecided
<1>. QED BY <1>1, <1>2, <1>3, <1>4, <1>5 DEF COffered

LEMMA RecordOffered ==
    ASSUME TypeOK, COffered, SendAndRecord, used'.failures = 0
    PROVE  COffered'
<1>1. PICK R : Sent(R) /\ R = {}
    BY SendAndRecordEffect
<1>2. PICK n \in AskType :
        /\ Performed(n, ask, job.plan, R)
        /\ AskIs(ask', n.open, n.done, n.cancel, n.checklist, n.conf, n.live, n.gone, n.late \/ Late(n))
    BY <1>1 DEF Sent
<1>3. ask'.conf = n.conf /\ ask'.live = n.live /\ ask'.gone = n.gone
    BY <1>2 DEF AskIs
<1>4. /\ job.at = "sending" /\ job' = Idle /\ row' = row /\ replay' = replay
    BY DEF SendAndRecord, COffered
<1>5. ~job.plan.retire /\ ~Lost(ask, job.plan) /\ (Posts(ask, job.plan, R) <=> job.plan.offer)
      /\ Retained(ask, job.plan) = ask.conf
    BY <1>1, <1>4 DEF COffered, Lost, Posts, Retained
<1>6. Clash(ask, job.plan, R) <=> \/ job.plan.cancel /\ ask.cancel
                                  \/ job.plan.offer /\ ask.conf.row # "none"
    BY <1>1, <1>5 DEF Clash
<1>7. /\ n.gone = {} /\ ask.live \subseteq n.live
      /\ Clash(ask, job.plan, R) \/ ~job.plan.offer => n.conf = ask.conf
      /\ ~Clash(ask, job.plan, R) /\ job.plan.offer => n.conf.row = "open" /\ n.conf.msg \in n.live
    BY <1>2, <1>5 DEF Performed, COffered
<1>8. ask.conf.row \in {"none", "open", "confirmed"}
    BY Typed, AskFields, ConfFields
<1>9. used'.reactions # 0
    <2>1. used'.reactions = used.reactions
        BY SendAndRecordEffect DEF SameUse
    <2>. QED BY <1>4, <2>1 DEF COffered, Undecided
<1>10. /\ ask'.conf.row = "open" => ask'.conf.msg \in ask'.live
       /\ row.state \in Terminal <=> ask'.conf.row = "confirmed"
       /\ row.state = "ready_to_queue" => ask'.conf.row = "open"
    <2>1. CASE Clash(ask, job.plan, R) \/ ~job.plan.offer
        BY <1>3, <1>6, <1>7, <1>8, <2>1 DEF COffered, Terminal
    <2>2. CASE ~Clash(ask, job.plan, R) /\ job.plan.offer
        BY <1>3, <1>6, <1>7, <2>2 DEF COffered
    <2>. QED BY <2>1, <2>2
<1>. QED BY <1>3, <1>4, <1>7, <1>9, <1>10, IdleFields DEF COffered

LEMMA AloneOffered ==
    ASSUME TypeOK, Undisturbed => COffered, Alone, Undisturbed'
    PROVE  COffered'
<1>1. Onward
    BY AloneOnward
<1>2. /\ used'.failures = 0 /\ used'.deletes = 0 /\ used'.restarts = 0 /\ used'.reactions <= 1
      /\ used.failures = 0 /\ used.deletes = 0 /\ used.restarts = 0 /\ used.reactions <= 1
    <2>1. used'.failures \in Nat /\ used'.deletes \in Nat /\ used'.restarts \in Nat
        BY <1>1 DEF Onward
    <2>2. used'.failures = 0 /\ used'.deletes = 0 /\ used'.restarts = 0 /\ used'.reactions <= 1
        BY <2>1 DEF Undisturbed
    <2>3. \A k \in {"failures", "deletes", "restarts", "reactions"} :
            used[k] \in Nat /\ used'[k] \in Nat /\ used'[k] >= used[k]
        BY <1>1 DEF Onward
    <2>. QED BY <2>2, <2>3
<1>3. COffered
    BY <1>2 DEF Undisturbed
<1>4. CASE Stuck \/ OpenForm \/ AskReingest \/ FetchFails
    <2>1. UNCHANGED <<row, ask, job, replay>>
        BY <1>4 DEF Stuck, OpenForm, AskReingest, FetchFails, Bystander
    <2>. QED BY <1>1, <1>3, <2>1, LikewiseOffered
<1>5. CASE ReplayNote \/ ReplayNothing \/ ScanReact \/ ListThreads
    BY <1>3, <1>5 DEF ReplayNote, ReplayNothing, ScanReact, ListThreads, COffered
<1>6. CASE ReplyNote
    BY <1>1, <1>3, <1>6, NoteOffered
<1>7. ASSUME NEW n \in Msg, Queue(n) PROVE COffered'
    <2>1. /\ RowIs(row', "queued", row.links, row.resolved, row.media, row.waived, row.note, row.meta)
          /\ UNCHANGED <<job, replay>> /\ SameUse(used', used)
        BY <1>7, QueueEffect DEF Queue, Bystander
    <2>2. PICK c \in ConfType :
            /\ c.row = "confirmed"
            /\ AskIs(ask', ask.open, ask.done, ask.cancel, ask.checklist, c, ask.live \ {n},
                     ask.gone, ask.late)
        BY <1>7, QueueEffect
    <2>3. /\ row'.state = "queued" /\ row'.waived = row.waived /\ row'.note = row.note
          /\ ask'.conf.row = "confirmed" /\ ask'.open = ask.open /\ ask'.gone = ask.gone
          /\ used'.reactions = used.reactions
        BY <2>1, <2>2 DEF RowIs, AskIs, SameUse
    <2>4. Undecided => Undecided'
        BY <2>1, <2>3 DEF Undecided, Open
    <2>. QED BY <1>3, <2>1, <2>3, <2>4 DEF COffered, Terminal
<1>8. ASSUME NEW n \in Msg, DeleteQueueMessage(n) PROVE COffered'
    <2>1. OneMore(used', used, "deletes")
        BY <1>8, Spending, Keys DEF DeleteQueueMessage
    <2>2. used'.deletes = used.deletes + 1
        BY <2>1 DEF OneMore
    <2>. QED BY <1>2, <2>2
<1>9. ASSUME NEW m \in Media, NEW t \in Text \cup {None}, SubmitForm(m, t) PROVE COffered'
    <2>1. UNCHANGED <<ask, job, replay>>
        BY <1>9 DEF SubmitForm
    <2>2. Gaps(row) = {} => Gaps(row') = {}
        BY <1>9, FormLess
    <2>. QED BY <1>1, <1>3, <1>9, <2>1, <2>2, FormLess, LikewiseOffered
<1>10. CASE React
    <2>1. OneMore(used', used, "reactions") /\ Decide /\ replay' = replay
        BY <1>10, Spending, Keys DEF React
    <2>2. used'.reactions = used.reactions + 1 /\ used.reactions \in Nat
        BY <1>1, <2>1 DEF OneMore, Onward
    <2>3. used.reactions = 0 /\ used'.reactions # 0
        BY <1>2, <2>2
    <2>. QED BY <1>3, <2>1, <2>3, DecideOffered DEF COffered
<1>11. CASE SendAndRecord
    BY <1>2, <1>3, <1>11, RecordOffered
<1>12. CASE Teardown \/ Relist \/ Resolve \/ RestoreAlt
    <2>1. /\ row'.state = row.state /\ row'.waived = row.waived /\ row'.note = row.note
          /\ job'.at \in {"torn", "listed", "rebuilt", "restored"} /\ job.at # "sending"
          /\ Fewer(ask', ask) /\ ask' \in AskType /\ UNCHANGED <<replay, used>>
        BY <1>12, ReingestEffect
    <2>2. "source" \in Kind /\ "source" \notin Media
        BY KindsDiffer
    <2>3. /\ ask'.conf = ask.conf /\ ask'.live = ask.live /\ ask'.gone = ask.gone
          /\ ask'.open["source"] = ask.open["source"]
        BY <2>1, <2>2 DEF Fewer
    <2>4. Undecided => Undecided'
        BY <2>1, <2>3 DEF Undecided, Open
    <2>. QED BY <1>3, <2>1, <2>3, <2>4 DEF COffered
<1>13. CASE Requeue \/ \E s \in Terminal : Publish(s)
    <2>1. /\ row.state \in Terminal /\ row'.state \in Terminal /\ Alike(row', row) /\ ask' = ask
          /\ UNCHANGED <<job, replay>> /\ SameUse(used', used)
        BY <1>13, PublishEffect DEF Bystander
    <2>2. Gaps(row') = Gaps(row) /\ used'.reactions = used.reactions
        BY <2>1, GapsAlike DEF SameUse
    <2>3. Undecided => Undecided'
        BY <2>1, <2>2 DEF Undecided, Open, Alike
    <2>. QED BY <1>3, <2>1, <2>2, <2>3 DEF COffered, Terminal
<1>14. CASE Restart
    <2>1. OneMore(used', used, "restarts")
        BY <1>14, RestartEffect
    <2>2. used'.restarts = used.restarts + 1
        BY <2>1 DEF OneMore
    <2>. QED BY <1>2, <2>2
<1>. QED BY <1>4, <1>5, <1>6, <1>7, <1>8, <1>9, <1>10, <1>11, <1>12, <1>13, <1>14 DEF Alone

LEMMA InitOffered == Init => IOffered
<1>. SUFFICES ASSUME Init PROVE IOffered
    OBVIOUS
<1>1. /\ row.state = "intent_submitted" /\ ~row.waived /\ row.note = "none"
      /\ job = Idle /\ replay = NoReplay /\ ask.gone = {} /\ ask.conf = NoConf
    BY DEF Init
<1>2. ask.open["source"] = 0
    BY KindsDiffer DEF Init
<1>3. ask.conf.row = "none" /\ job.at = "idle" /\ replay.at = "off"
    <2>1. NoConf.row = "none"
        BY DEF NoConf
    <2>. QED BY <1>1, <2>1, IdleFields, ReplayFields
<1>4. Undecided
    BY <1>1, <1>2, <1>3 DEF Undecided
<1>5. COffered
    BY <1>1, <1>3, <1>4 DEF COffered, Terminal
<1>. QED BY <1>5, InitTypes DEF IOffered

LEMMA OfferedKept == IOffered /\ [Next]_vars => IOffered'
<1>. SUFFICES ASSUME IOffered, [Next]_vars PROVE IOffered'
    OBVIOUS
<1>1. TypeOK /\ (Undisturbed => COffered)
    BY DEF IOffered
<1>2. TypeOK'
    BY <1>1, TypesKept
<1>3. CASE UNCHANGED vars
    BY <1>1, <1>2, <1>3 DEF vars, IOffered, Undisturbed, COffered, Undecided, Open
<1>4. CASE Next
    BY <1>1, <1>2, <1>4, NextCases, AnsweringOffered, AloneOffered DEF IOffered
<1>. QED BY <1>3, <1>4

LEMMA OfferedWorks == IOffered => QueueOffered
BY DEF IOffered, COffered, QueueOffered, Settles

\* The Queue button of a submission that is ready works: what retires it or posts
\* the next one is decided on the requests as they are, but for one butterfly, and
\* that one finds no button it could wrongly retire.
THEOREM ReadyIsOffered == Spec => []QueueOffered
BY InitOffered, OfferedKept, OfferedWorks, PTL DEF Spec

-----------------------------------------------------------------------------
(* QueueKept *)

LEMMA QueueKeptByStep ==
    ASSUME TypeOK, Next, row.state \in Terminal
    PROVE  row'.state \in Terminal
<1>1. CASE Answering
    <2>1. PICK p \in RowType, K \in SUBSET Kind : Recomputing(p, K) /\ p.state = row.state
        BY <1>1, AnswerKinds
    <2>. QED BY <2>1, RecomputingEffect
<1>2. CASE Stuck \/ ReplayNothing \/ OpenForm \/ SendAndRecord \/ AskReingest \/ FetchFails \/ ListThreads
    BY <1>2 DEF Stuck, ReplayNothing, OpenForm, SendAndRecord, AskReingest, FetchFails, ListThreads
<1>3. CASE ReplyNote \/ ReplayNote
    BY <1>3, TakeNoteEffect DEF ReplyNote, ReplayNote, Noted, RowIs
<1>4. ASSUME NEW n \in Msg, Queue(n) \/ DeleteQueueMessage(n) PROVE row'.state \in Terminal
    BY <1>4, QueueEffect DEF DeleteQueueMessage
<1>5. ASSUME NEW m \in Media, NEW t \in Text \cup {None}, SubmitForm(m, t) PROVE row'.state \in Terminal
    BY <1>5, SubmitFormEffect DEF RowIs
<1>6. CASE React \/ ScanReact
    BY <1>6, DecideEffect DEF React, ScanReact
<1>7. CASE Teardown \/ Relist \/ Resolve \/ RestoreAlt
    BY <1>7, ReingestEffect
<1>8. CASE Requeue \/ \E s \in Terminal : Publish(s)
    BY <1>8, PublishEffect
<1>9. CASE Restart
    BY <1>9, RestartEffect
<1>. QED BY <1>1, <1>2, <1>3, <1>4, <1>5, <1>6, <1>7, <1>8, <1>9, NextCases DEF Alone

\* What was queued, posted or blocked is never taken back into curation: every
\* write of the state but Settled's is to a terminal one, and Settled leaves a
\* terminal one alone, however old the decision it belongs to is.
THEOREM QueueNeverLost == Spec => QueueKept
<1>1. TypeOK /\ [Next]_vars => [row.state \in Terminal => row'.state \in Terminal]_vars
    BY QueueKeptByStep
<1>2. TypeOK /\ [Next]_vars => TypeOK'
    BY TypesKept
<1>. QED BY InitTypes, <1>1, <1>2, PTL DEF Spec, QueueKept

=============================================================================
