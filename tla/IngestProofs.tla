---------------------------- MODULE IngestProofs ----------------------------
(***************************************************************************)
(* Theorems about Ingest: what a gather writes by ids lands on the rows it *)
(* planned for, a path leads to its row's own file, the metadata of a link *)
(* is of its url, a submission has one video, and a description stays with *)
(* its file.                                                               *)
(*                                                                         *)
(* The tasks come first: the lock of a message makes the submission of a   *)
(* task at work its own, as long as the task is not cut.  Then the rows,   *)
(* then what a gather has under way, then the disk.                        *)
(***************************************************************************)
EXTENDS Ingest, FiniteSetTheorems, WellFoundedInduction, TLAPS

-----------------------------------------------------------------------------
(* The tables.                                                             *)

LEMMA IdsAreNumbers == MaxId \in Nat /\ Id = 1 .. MaxId /\ None \notin Id /\ 0 \notin Id
BY IngestAssumption DEF Id

LEMMA LeastNumber == ASSUME NEW T, T \subseteq Nat, T # {}
                     PROVE  \E n \in T : \A k \in T : n <= k
<1>1. PICK n \in T : \A k \in T : <<k, n>> \notin OpToRel(<, Nat)
    BY NatLessThanWellFounded, WFMin, Zenon
<1>2. \A k \in T : ~(k < n)
    BY <1>1, Zenon DEF OpToRel
<1>3. \A k \in T : n <= k
    BY <1>2
<1>. QED BY <1>3

LEMMA NextIdAbove ==
    ASSUME NEW U, U \subseteq Id
    PROVE  NextId(U) \in Nat \ {0} /\ \A x \in U : x < NextId(U)
<1>1. CASE U = {}
    BY <1>1 DEF NextId
<1>2. CASE U # {}
    <2>. DEFINE T == {MaxId - x : x \in U}
    <2>0. MaxId \in Nat /\ \A x \in U : x \in Int /\ 1 <= x /\ x <= MaxId
        BY IdsAreNumbers
    <2>1. T \subseteq Nat /\ T # {}
        <3>1. \A x \in U : MaxId - x \in Nat
            BY <2>0
        <3>. QED BY <1>2, <3>1
    <2>. HIDE DEF T
    <2>2. PICK n \in T : \A k \in T : n <= k
        BY <2>1, LeastNumber
    <2>3. PICK x \in U : n = MaxId - x
        BY <2>2 DEF T
    <2>4. \A y \in U : x >= y
        <3>1. \A y \in U : MaxId - y \in T
            BY DEF T
        <3>. QED BY <2>0, <2>2, <2>3, <3>1
    <2>5. Max(U) \in U /\ \A y \in U : Max(U) >= y
        BY <2>4 DEF Max
    <2>6. Max(U) \in Int /\ 1 <= Max(U)
        BY <2>0, <2>5
    <2>7. \A y \in U : y < Max(U) + 1
        BY <2>0, <2>5, <2>6
    <2>. QED BY <1>2, <2>6, <2>7 DEF NextId
<1>. QED BY <1>1, <1>2

PlanLink   == [id : Id, url : Url]
Skeleton   == [id : Id, file : File]
OutcomeRow == [id : Id, url : Url, uri : Url \cup {None}, video : BOOLEAN]

LEMMA PrimaryIsFirst ==
    ASSUME NEW plan, plan \subseteq PlanLink, plan # {}
    PROVE  Primary(plan) \in plan /\ \A k \in plan : Primary(plan).id <= k.id
<1>. DEFINE T == {l.id : l \in plan}
<1>1. T \subseteq Nat /\ T # {}
    BY IdsAreNumbers DEF PlanLink
<1>. HIDE DEF T
<1>2. PICK n \in T : \A k \in T : n <= k
    BY <1>1, LeastNumber
<1>. USE DEF T
<1>3. PICK l \in plan : n = l.id
    BY <1>2
<1>4. \A k \in plan : l.id <= k.id
    BY <1>2, <1>3
<1>. QED BY <1>4 DEF Primary

\* Rows inserted: those there stay, and the new ones get free ids, in order.
LEMMA InsertRows ==
    ASSUME NEW X, \A x \in X : x.sub \in Id,
           NEW tab \in [Id -> X \cup {NoRow}], NEW new \in Seq(X), Fits(tab, Len(new))
    PROVE  /\ Insert(tab, new) \in [Id -> X \cup {NoRow}]
           /\ Rows(tab) \subseteq Rows(Insert(tab, new))
           /\ \A r \in Rows(tab) : Insert(tab, new)[r] = tab[r]
           /\ \A r \in Rows(Insert(tab, new)) \ Rows(tab) :
                  \E i \in 1 .. Len(new) : r = NextId(Rows(tab)) + i - 1
                                           /\ Insert(tab, new)[r] = new[i]
           /\ \A i \in 1 .. Len(new) :
                  /\ NextId(Rows(tab)) + i - 1 \in Rows(Insert(tab, new)) \ Rows(tab)
                  /\ Insert(tab, new)[NextId(Rows(tab)) + i - 1] = new[i]
<1>. DEFINE n == NextId(Rows(tab))
            t == Insert(tab, new)
<1>1. n \in Nat \ {0} /\ \A r \in Rows(tab) : r \in Id /\ r < n
    BY NextIdAbove DEF Rows
<1>2. Len(new) \in Nat /\ \A i \in 1 .. Len(new) : new[i] \in X /\ new[i] # NoRow
    BY IdsAreNumbers DEF NoRow
<1>3. \A i \in 1 .. Len(new) : n + i - 1 \in Id
    BY <1>1, <1>2, IdsAreNumbers DEF Fits
<1>4. t = [r \in Id |-> IF r \in n .. n + Len(new) - 1 THEN new[r - n + 1] ELSE tab[r]]
    BY DEF Insert
<1>. HIDE DEF n, t
<1>5. \A r \in Id : r \in n .. n + Len(new) - 1 =>
          r - n + 1 \in 1 .. Len(new) /\ r = n + (r - n + 1) - 1 /\ t[r] = new[r - n + 1]
    BY <1>1, <1>2, <1>4, IdsAreNumbers
<1>6. \A r \in Id : r \notin n .. n + Len(new) - 1 => t[r] = tab[r]
    BY <1>4
<1>7. t \in [Id -> X \cup {NoRow}]
    BY <1>2, <1>4, <1>5, <1>6
<1>8. \A r \in Rows(tab) : r \in Id /\ r \notin n .. n + Len(new) - 1 /\ t[r] = tab[r]
    BY <1>1, <1>2, <1>6, IdsAreNumbers
<1>9. Rows(tab) \subseteq Rows(t)
    BY <1>8 DEF Rows
<1>10. \A r \in Rows(t) \ Rows(tab) : \E i \in 1 .. Len(new) : r = n + i - 1 /\ t[r] = new[i]
    BY <1>5, <1>6 DEF Rows
<1>11. \A i \in 1 .. Len(new) : n + i - 1 \in Rows(t) \ Rows(tab) /\ t[n + i - 1] = new[i]
    <2>. SUFFICES ASSUME NEW i \in 1 .. Len(new)
                  PROVE  n + i - 1 \in Rows(t) \ Rows(tab) /\ t[n + i - 1] = new[i]
        OBVIOUS
    <2>1. n + i - 1 \in n .. n + Len(new) - 1 /\ (n + i - 1) - n + 1 = i
        BY <1>1, <1>2
    <2>2. t[n + i - 1] = new[i]
        BY <1>3, <1>5, <2>1
    <2>3. n + i - 1 \in Id
        BY <1>3
    <2>. QED BY <1>2, <1>8, <2>1, <2>2, <2>3 DEF Rows
<1>. QED BY <1>7, <1>8, <1>9, <1>10, <1>11 DEF n, t

LEMMA DeleteRows ==
    ASSUME NEW X, NEW tab \in [Id -> X \cup {NoRow}], NEW rs \in SUBSET Id
    PROVE  /\ Delete(tab, rs) \in [Id -> X \cup {NoRow}]
           /\ Rows(Delete(tab, rs)) = Rows(tab) \ rs
           /\ \A r \in Rows(tab) \ rs : Delete(tab, rs)[r] = tab[r]
BY DEF Delete, Rows

LEMMA StrayRow ==
    ASSUME NEW row \in AttachmentRow, NEW b
    PROVE  [row EXCEPT !.stray = b] = [sub |-> row.sub, file |-> row.file, path |-> row.path,
                                       alt |-> row.alt, stray |-> b]
BY DEF AttachmentRow

\* What attaching a video makes of tab: new has its rows, and at most one more.
Attaches(tab, ls, s, outs, stray, new) ==
    /\ new \in [Id -> AttachmentRow \cup {NoRow}]
    /\ Rows(tab) \subseteq Rows(new) /\ \A r \in Rows(tab) : new[r] = tab[r]
    /\ \A r \in Rows(new) \ Rows(tab) :
           /\ ~HasVideo(tab, s)
           /\ \A q \in Rows(new) \ Rows(tab) : q = r
           /\ \E o \in outs : /\ o.video /\ ls[o.id] # NoRow
                               /\ new[r] = [sub |-> s, file |-> o.url, path |-> VideoPath(s, o.id),
                                             alt |-> FALSE, stray |-> stray]
    /\ (\E o \in outs : o.video /\ ls[o.id] # NoRow) => HasVideo(new, s)

LEMMA AttachRows ==
    ASSUME NEW tab \in [Id -> AttachmentRow \cup {NoRow}], NEW ls, NEW s \in Id,
           NEW outs, outs \subseteq OutcomeRow, NEW stray \in BOOLEAN, Fits(tab, 1)
    PROVE  Attaches(tab, ls, s, outs, stray, AttachVideo(tab, ls, s, outs, stray))
<1>. DEFINE fresh == {o \in outs : o.video /\ ls[o.id] # NoRow}
            new == AttachVideo(tab, ls, s, outs, stray)
<1>1. CASE fresh = {} \/ HasVideo(tab, s)
    BY <1>1 DEF AttachVideo, Attaches
<1>2. CASE ~(fresh = {} \/ HasVideo(tab, s))
    <2>. DEFINE o == CHOOSE o \in fresh : TRUE
                row == [sub |-> s, file |-> o.url, path |-> VideoPath(s, o.id),
                        alt |-> FALSE, stray |-> stray]
    <2>1. o \in fresh /\ o \in OutcomeRow /\ o.url \in Url /\ o.id \in Id
        BY <1>2 DEF OutcomeRow
    <2>2. [Attachment(s, o.url, VideoPath(s, o.id)) EXCEPT !.stray = stray] = row
        <3>1. /\ Attachment(s, o.url, VideoPath(s, o.id)) \in AttachmentRow
              /\ Attachment(s, o.url, VideoPath(s, o.id))
                     = [sub |-> s, file |-> o.url, path |-> VideoPath(s, o.id),
                        alt |-> FALSE, stray |-> FALSE]
            BY <2>1 DEF Attachment, AttachmentRow, VideoPath
        <3>. HIDE DEF row, o
        <3>2. [Attachment(s, o.url, VideoPath(s, o.id)) EXCEPT !.stray = stray]
                  = [sub |-> s, file |-> o.url, path |-> VideoPath(s, o.id),
                     alt |-> FALSE, stray |-> stray]
            BY <3>1, StrayRow
        <3>. QED BY <3>2 DEF row
    <2>3. row \in AttachmentRow
        BY <2>1 DEF AttachmentRow, VideoPath
    <2>4. new = Insert(tab, <<row>>)
        BY <1>2, <2>2 DEF AttachVideo
    <2>. HIDE DEF row, o, new
    <2>. DEFINE one == <<row>>
    <2>5. one \in Seq(AttachmentRow) /\ Len(one) = 1 /\ one[1] = row
        BY <2>3
    <2>. HIDE DEF one
    <2>6. \A x \in AttachmentRow : x.sub \in Id
        BY DEF AttachmentRow
    <2>7. /\ new \in [Id -> AttachmentRow \cup {NoRow}]
          /\ Rows(tab) \subseteq Rows(new) /\ \A r \in Rows(tab) : new[r] = tab[r]
          /\ \A r \in Rows(new) \ Rows(tab) : \E i \in 1 .. 1 : r = NextId(Rows(tab)) + i - 1
                                                              /\ new[r] = one[i]
          /\ \A i \in 1 .. 1 : NextId(Rows(tab)) + i - 1 \in Rows(new) \ Rows(tab)
                               /\ new[NextId(Rows(tab)) + i - 1] = one[i]
        <3>1. new = Insert(tab, one) /\ Fits(tab, Len(one))
            BY <2>4, <2>5 DEF one
        <3>2. /\ Insert(tab, one) \in [Id -> AttachmentRow \cup {NoRow}]
              /\ Rows(tab) \subseteq Rows(Insert(tab, one))
              /\ \A r \in Rows(tab) : Insert(tab, one)[r] = tab[r]
              /\ \A r \in Rows(Insert(tab, one)) \ Rows(tab) :
                     \E i \in 1 .. Len(one) : r = NextId(Rows(tab)) + i - 1
                                              /\ Insert(tab, one)[r] = one[i]
              /\ \A i \in 1 .. Len(one) :
                     /\ NextId(Rows(tab)) + i - 1 \in Rows(Insert(tab, one)) \ Rows(tab)
                     /\ Insert(tab, one)[NextId(Rows(tab)) + i - 1] = one[i]
            BY <2>5, <2>6, <3>1, InsertRows, Zenon
        <3>. QED BY <2>5, <3>1, <3>2
    <2>8. \A r \in Rows(new) \ Rows(tab) : r = NextId(Rows(tab)) + 1 - 1 /\ new[r] = row
        BY <2>5, <2>7
    <2>9. NextId(Rows(tab)) + 1 - 1 \in Rows(new) /\ new[NextId(Rows(tab)) + 1 - 1] = row
        BY <2>5, <2>7
    <2>10. HasVideo(new, s)
        BY <2>1, <2>9 DEF HasVideo, Of, row
    <2>11. \A r \in Rows(new) \ Rows(tab) :
              \E p \in outs : /\ p.video /\ ls[p.id] # NoRow
                             /\ new[r] = [sub |-> s, file |-> p.url, path |-> VideoPath(s, p.id),
                                           alt |-> FALSE, stray |-> stray]
        BY <2>1, <2>8 DEF row
    <2>12. ~HasVideo(tab, s)
        BY <1>2
    <2>13. \A r, q \in Rows(new) \ Rows(tab) : q = r
        BY <2>8
    <2>. QED BY <2>7, <2>10, <2>11, <2>12, <2>13 DEF new, Attaches
<1>. QED BY <1>1, <1>2

-----------------------------------------------------------------------------
(* The types, and who holds a lock.                                        *)

Working == {"teardown", "skeletons", "gather", "close"}

TaskRec ==
    [pc : {"idle", "wait"} \cup Working, kind : {None, "butterfly", "reingest"},
     msg : Message \cup {None}, sub : Id \cup {0}, files : Seq(File), urls : Seq(Url),
     keep : SUBSET (File \cup Url), plan : SUBSET PlanLink, rows : SUBSET Skeleton,
     got : SUBSET Skeleton, todo : SUBSET Skeleton, outs : SUBSET OutcomeRow,
     video : BOOLEAN, old : SUBSET Id, cut : BOOLEAN]

Types ==
    /\ content \in [Message -> [files : Seq(File), urls : Seq(Url)]]
    /\ subs \in [Id -> Message \cup {None}]
    /\ atts \in [Id -> AttachmentRow \cup {NoRow}] /\ links \in [Id -> LinkRow \cup {NoRow}]
    /\ dirs \subseteq Id /\ \A p \in DOMAIN disk : p[1] \in dirs
    /\ lock \in [Message -> Task \cup {None}] /\ task \in [Task -> TaskRec]
    /\ answered \subseteq Id \X (File \cup Url)
    /\ left \in [{"handlers", "events"} -> Nat]

\* What a task is at, and what it can have with it there.
Fit(k) ==
    /\ k.pc # "idle" => /\ k.msg \in Message
                        /\ k.files \in {Content[k.msg].files, Edited[k.msg].files}
    /\ k.pc \in Working <=> k.sub # 0
    /\ k.pc = "teardown" => k.kind = "reingest"
    /\ k.keep # {} => k.kind = "reingest" /\ k.pc # "teardown" /\ k.sub # 0
    /\ k.pc \notin {"gather", "close"} => k.got = {} /\ k.todo = {} /\ k.outs = {}
    /\ k.got \subseteq k.rows /\ k.todo \subseteq k.rows
    /\ \A o \in k.outs : o.uri \in {None, o.url}

Shape == \A t \in Task : Fit(task[t])

\* A task at work holds its message's lock, and its submission is of that message for
\* as long as it is not cut.
Held ==
    /\ \A t \in Task : task[t].pc \in Working => lock[task[t].msg] = t
    /\ \A m \in Message : lock[m] # None => task[lock[m]].pc \in Working /\ task[lock[m]].msg = m
    /\ \A t \in Task : task[t].pc \in Working /\ ~task[t].cut => subs[task[t].sub] = task[t].msg
    /\ \A s1, s2 \in Live : subs[s1] = subs[s2] => s1 = s2
    /\ \A m \in Message : content[m].files \in {Content[m].files, Edited[m].files}

-----------------------------------------------------------------------------
(* What the larger steps do to the tables.                                 *)

LEMMA OutcomeOf ==
    ASSUME NEW l \in PlanLink, NEW first \in BOOLEAN, NEW video \in BOOLEAN,
           NEW o \in Outcomes(l, first, video)
    PROVE  /\ o \in OutcomeRow /\ o.id = l.id /\ o.url = l.url /\ o.uri \in {None, l.url}
           /\ o.video => first /\ ~video
<1>. DEFINE vs == {Best(l, first, video).video, FALSE}
<1>1. PICK uri \in {Uri(l.url), None}, v \in vs : o = Outcome(l, uri, v)
    <2>1. \A x : x \in Outcomes(l, first, video) =>
                 \E uri \in {Uri(l.url), None}, v \in vs : x = Outcome(l, uri, v)
        BY DEF Outcomes, Outcome
    <2>. HIDE DEF vs
    <2>. QED BY <2>1, Zenon
<1>2. uri \in {None, l.url}
    BY DEF Uri
<1>3. v \in BOOLEAN /\ (v => first /\ ~video)
    BY DEF Best, Outcome
<1>. QED BY <1>1, <1>2, <1>3 DEF Outcome, OutcomeRow, PlanLink

\* What a task at work has written, of the message's files and links.
LEMMA SkeletonEffect ==
    ASSUME Types, NEW t \in Task, Skeletons(t), task[t].sub \in Live
    PROVE  /\ atts' \in [Id -> AttachmentRow \cup {NoRow}] /\ links' \in [Id -> LinkRow \cup {NoRow}]
           /\ Rows(atts) \subseteq Rows(atts') /\ \A r \in Rows(atts) : atts'[r] = atts[r]
           /\ Rows(links) \subseteq Rows(links') /\ \A r \in Rows(links) : links'[r] = links[r]
           /\ \A r \in Rows(atts') \ Rows(atts) :
                  \E i \in DOMAIN task[t].files :
                      /\ r = NextId(Rows(atts)) + i - 1
                      /\ atts'[r] = [sub |-> task[t].sub, file |-> task[t].files[i], path |-> NoPath,
                                     alt |-> FALSE, stray |-> task[t].cut]
           /\ \A i \in DOMAIN task[t].files :
                  \E r \in Rows(atts') \ Rows(atts) : atts'[r].file = task[t].files[i]
           /\ \A r \in Rows(links') \ Rows(links) : links'[r].meta = None /\ links'[r].uri = None
<1>. DEFINE s == task[t].sub  files == task[t].files  urls == task[t].urls
            Row(i) == [Attachment(s, files[i], NoPath) EXCEPT !.stray = task[t].cut]
            na == [i \in DOMAIN files |-> Row(i)]
            nl == [i \in DOMAIN urls |-> SubmissionLink(s, urls[i])]
<1>1. s \in Id /\ files \in Seq(File) /\ urls \in Seq(Url) /\ task[t].cut \in BOOLEAN
    BY DEF Types, TaskRec, Live
<1>2. /\ Fits(atts, Len(files)) /\ Fits(links, Len(urls))
      /\ atts' = Insert(atts, na) /\ links' = Insert(links, nl)
    BY Zenon DEF Skeletons
<1>. HIDE DEF s, files, urls
<1>3. \A i \in DOMAIN files : /\ Row(i) = [sub |-> s, file |-> files[i], path |-> NoPath, alt |-> FALSE,
                                           stray |-> task[t].cut]
                              /\ Row(i) \in AttachmentRow
    <2>. SUFFICES ASSUME NEW i \in DOMAIN files
                  PROVE  /\ Row(i) = [sub |-> s, file |-> files[i], path |-> NoPath, alt |-> FALSE,
                                      stray |-> task[t].cut]
                         /\ Row(i) \in AttachmentRow
        BY Zenon
    <2>1. files[i] \in File
        BY <1>1
    <2>2. Attachment(s, files[i], NoPath) \in AttachmentRow
        BY <1>1, <2>1 DEF Attachment, AttachmentRow
    <2>3. Row(i) = [sub |-> s, file |-> files[i], path |-> NoPath, alt |-> FALSE, stray |-> task[t].cut]
        <3>. HIDE DEF Row
        <3>1. \A x \in AttachmentRow : \A b :
                  [x EXCEPT !.stray = b] = [sub |-> x.sub, file |-> x.file, path |-> x.path,
                                            alt |-> x.alt, stray |-> b]
            BY StrayRow
        <3>2. Row(i) = [sub |-> Attachment(s, files[i], NoPath).sub,
                        file |-> Attachment(s, files[i], NoPath).file,
                        path |-> Attachment(s, files[i], NoPath).path,
                        alt |-> Attachment(s, files[i], NoPath).alt, stray |-> task[t].cut]
            BY <2>2, <3>1, Zenon DEF Row
        <3>. QED BY <3>2 DEF Attachment
    <2>. HIDE DEF Row
    <2>. QED BY <1>1, <2>1, <2>3 DEF AttachmentRow
<1>4. \A i \in DOMAIN urls : nl[i].meta = None /\ nl[i].uri = None /\ nl[i] \in LinkRow
    BY <1>1 DEF SubmissionLink, LinkRow
<1>. HIDE DEF Row, nl
<1>5. DOMAIN files = 1 .. Len(files) /\ DOMAIN urls = 1 .. Len(urls)
    BY <1>1
<1>6. /\ na \in Seq(AttachmentRow) /\ Len(na) = Len(files)
      /\ \A i \in DOMAIN files : na[i] = Row(i)
    BY <1>1, <1>3, <1>5
<1>. HIDE DEF na
<1>7. nl \in Seq(LinkRow) /\ Len(nl) = Len(urls)
    BY <1>1, <1>4, <1>5 DEF nl
<1>8. (\A x \in AttachmentRow : x.sub \in Id) /\ (\A x \in LinkRow : x.sub \in Id)
    BY DEF AttachmentRow, LinkRow
<1>9. /\ atts' \in [Id -> AttachmentRow \cup {NoRow}]
      /\ Rows(atts) \subseteq Rows(atts') /\ \A r \in Rows(atts) : atts'[r] = atts[r]
      /\ \A r \in Rows(atts') \ Rows(atts) :
             \E i \in 1 .. Len(na) : r = NextId(Rows(atts)) + i - 1 /\ atts'[r] = na[i]
      /\ \A i \in 1 .. Len(na) : /\ NextId(Rows(atts)) + i - 1 \in Rows(atts') \ Rows(atts)
                                 /\ atts'[NextId(Rows(atts)) + i - 1] = na[i]
    <2>1. atts \in [Id -> AttachmentRow \cup {NoRow}] /\ Fits(atts, Len(na)) /\ atts' = Insert(atts, na)
        BY <1>2, <1>6 DEF Types
    <2>2. /\ Insert(atts, na) \in [Id -> AttachmentRow \cup {NoRow}]
          /\ Rows(atts) \subseteq Rows(Insert(atts, na))
          /\ \A r \in Rows(atts) : Insert(atts, na)[r] = atts[r]
          /\ \A r \in Rows(Insert(atts, na)) \ Rows(atts) :
                 \E i \in 1 .. Len(na) : r = NextId(Rows(atts)) + i - 1 /\ Insert(atts, na)[r] = na[i]
          /\ \A i \in 1 .. Len(na) : /\ NextId(Rows(atts)) + i - 1 \in Rows(Insert(atts, na)) \ Rows(atts)
                                     /\ Insert(atts, na)[NextId(Rows(atts)) + i - 1] = na[i]
        BY <1>6, <1>8, <2>1, InsertRows, Zenon
    <2>. QED BY <2>1, <2>2
<1>10. /\ links' \in [Id -> LinkRow \cup {NoRow}]
       /\ Rows(links) \subseteq Rows(links') /\ \A r \in Rows(links) : links'[r] = links[r]
       /\ \A r \in Rows(links') \ Rows(links) :
              \E i \in 1 .. Len(nl) : r = NextId(Rows(links)) + i - 1 /\ links'[r] = nl[i]
    <2>1. links \in [Id -> LinkRow \cup {NoRow}] /\ Fits(links, Len(nl)) /\ links' = Insert(links, nl)
        BY <1>2, <1>7 DEF Types
    <2>2. /\ Insert(links, nl) \in [Id -> LinkRow \cup {NoRow}]
          /\ Rows(links) \subseteq Rows(Insert(links, nl))
          /\ \A r \in Rows(links) : Insert(links, nl)[r] = links[r]
          /\ \A r \in Rows(Insert(links, nl)) \ Rows(links) :
                 \E i \in 1 .. Len(nl) : r = NextId(Rows(links)) + i - 1 /\ Insert(links, nl)[r] = nl[i]
          /\ \A i \in 1 .. Len(nl) : /\ NextId(Rows(links)) + i - 1 \in Rows(Insert(links, nl)) \ Rows(links)
                                     /\ Insert(links, nl)[NextId(Rows(links)) + i - 1] = nl[i]
        BY <1>7, <1>8, <2>1, InsertRows, Zenon
    <2>. QED BY <2>1, <2>2
<1>11. \A r \in Rows(atts') \ Rows(atts) :
           \E i \in DOMAIN files :
               /\ r = NextId(Rows(atts)) + i - 1
               /\ atts'[r] = [sub |-> s, file |-> files[i], path |-> NoPath, alt |-> FALSE,
                              stray |-> task[t].cut]
    <2>. SUFFICES ASSUME NEW r \in Rows(atts') \ Rows(atts)
                  PROVE  \E i \in DOMAIN files :
                             /\ r = NextId(Rows(atts)) + i - 1
                             /\ atts'[r] = [sub |-> s, file |-> files[i], path |-> NoPath, alt |-> FALSE,
                                            stray |-> task[t].cut]
        BY Zenon
    <2>1. PICK i \in 1 .. Len(na) : r = NextId(Rows(atts)) + i - 1 /\ atts'[r] = na[i]
        BY <1>9
    <2>2. i \in DOMAIN files
        BY <1>5, <1>6
    <2>. QED BY <1>3, <1>6, <2>1, <2>2, Zenon
<1>12. \A i \in DOMAIN files : \E r \in Rows(atts') \ Rows(atts) : atts'[r].file = files[i]
    <2>. SUFFICES ASSUME NEW i \in DOMAIN files
                  PROVE  \E r \in Rows(atts') \ Rows(atts) : atts'[r].file = files[i]
        BY Zenon
    <2>1. i \in 1 .. Len(na)
        BY <1>5, <1>6
    <2>2. /\ NextId(Rows(atts)) + i - 1 \in Rows(atts') \ Rows(atts)
          /\ atts'[NextId(Rows(atts)) + i - 1] = Row(i)
        BY <1>6, <1>9, <2>1, Zenon
    <2>3. Row(i).file = files[i]
        BY <1>3
    <2>. QED BY <2>2, <2>3, Zenon
<1>13. \A r \in Rows(links') \ Rows(links) : links'[r].meta = None /\ links'[r].uri = None
    BY <1>4, <1>5, <1>7, <1>10
<1>. QED BY <1>9, <1>10, <1>11, <1>12, <1>13 DEF s, files

\* The links, with the outcomes of a transaction's resolving written onto them.
Resolution(tab, outs) ==
    [l \in Id |-> IF tab[l] # NoRow /\ \E o \in outs : o.id = l
                  THEN Resolved(tab[l], CHOOSE o \in outs : o.id = l, FALSE)
                  ELSE tab[l]]

\* The links of s resolved within a transaction: every one of them, and nothing else.
Resolves(s, tab, replaced, outs, commits) ==
    /\ \A o \in outs : /\ o.id \in Of(tab, s) /\ o.url = tab[o.id].url
                       /\ o.uri \in {None, o.url}
                       /\ o.video => s \in dirs' /\ ~HasVideo(atts, s)
    /\ \A o, p \in outs : o.video /\ p.video => o.id = p.id /\ o.url = p.url
    /\ \A l \in Of(tab, s) : \E o \in outs : o.id = l
    /\ \/ UNCHANGED disk /\ \A o \in outs : ~o.video
       \/ \E o \in outs : o.video /\ Write(VideoPath(s, o.id), o.url, ~commits)
    /\ dirs' \in {dirs, dirs \cup {s}}
    /\ commits =>
           /\ links' = Resolution(tab, outs)
           /\ Fits(atts, 1) /\ atts' = AttachVideo(atts, tab, s, outs, FALSE)
           /\ task' = [k \in Task |-> [task[k] EXCEPT !.old = IF task[k].sub = s
                                           THEN task[k].old \cup replaced ELSE task[k].old]]
    /\ ~commits => UNCHANGED <<links, atts, task>>

LEMMA ResolveEffect ==
    ASSUME Types, NEW s \in Id, NEW tab \in [Id -> LinkRow \cup {NoRow}], NEW replaced,
           ResolveInSession(s, tab, replaced)
    PROVE  \E outs \in SUBSET OutcomeRow, commits \in BOOLEAN :
               Resolves(s, tab, replaced, outs, commits)
<1>. DEFINE plan == {[id |-> l, url |-> tab[l].url] : l \in Of(tab, s)}
            results == UNION {Outcomes(l, l = Primary(plan), HasVideo(atts, s)) : l \in plan}
<1>1. PICK outs \in kSubset(Cardinality(plan), results), commits \in BOOLEAN :
          /\ {o.id : o \in outs} = {l.id : l \in plan}
          /\ IF \E o \in outs : o.video
             THEN LET o == CHOOSE o \in outs : o.video IN Write(VideoPath(s, o.id), o.url, ~commits)
             ELSE UNCHANGED disk
          /\ IF commits
             THEN /\ links' = [l \in Id |-> IF tab[l] # NoRow /\ \E o \in outs : o.id = l
                                            THEN Resolved(tab[l], CHOOSE o \in outs : o.id = l, FALSE)
                                            ELSE tab[l]]
                  /\ Fits(atts, 1) /\ atts' = AttachVideo(atts, tab, s, outs, FALSE)
                  /\ task' = [k \in Task |-> [task[k] EXCEPT !.old = IF task[k].sub = s
                                                  THEN task[k].old \cup replaced ELSE task[k].old]]
             ELSE UNCHANGED <<links, atts, task>>
    BY DEF ResolveInSession, WriteBack
<1>2. dirs' = IF plan = {} THEN dirs ELSE dirs \cup {s}
    BY DEF ResolveInSession
<1>3. \A l \in plan : l \in PlanLink /\ l.id \in Of(tab, s) /\ l.url = tab[l.id].url
    BY DEF Of, Rows, PlanLink, LinkRow
<1>4. \A o \in outs : \E l \in plan : o \in Outcomes(l, l = Primary(plan), HasVideo(atts, s))
    BY <1>1 DEF kSubset
<1>5. HasVideo(atts, s) \in BOOLEAN
    BY DEF HasVideo
<1>6. \A l \in Of(tab, s) : \E o \in outs : o.id = l
    <2>1. \A l \in Of(tab, s) : [id |-> l, url |-> tab[l].url] \in plan
        OBVIOUS
    <2>2. \A l \in Of(tab, s) : \E k \in plan : k.id = l
        BY <2>1
    <2>. HIDE DEF plan
    <2>. QED BY <1>1, <2>2
<1>. HIDE DEF plan
<1>7. \A o \in outs : \E l \in plan :
          /\ o \in OutcomeRow /\ o.id = l.id /\ o.url = l.url /\ o.uri \in {None, l.url}
          /\ o.video => l = Primary(plan) /\ ~HasVideo(atts, s)
    <2>. SUFFICES ASSUME NEW o \in outs
                  PROVE  \E l \in plan :
                             /\ o \in OutcomeRow /\ o.id = l.id /\ o.url = l.url /\ o.uri \in {None, l.url}
                             /\ o.video => l = Primary(plan) /\ ~HasVideo(atts, s)
        BY Zenon
    <2>1. PICK l \in plan : o \in Outcomes(l, l = Primary(plan), HasVideo(atts, s))
        BY <1>4
    <2>2. l \in PlanLink /\ (l = Primary(plan)) \in BOOLEAN
        BY <1>3
    <2>3. /\ o \in OutcomeRow /\ o.id = l.id /\ o.url = l.url /\ o.uri \in {None, l.url}
          /\ o.video => (l = Primary(plan)) /\ ~HasVideo(atts, s)
        BY <1>5, <2>1, <2>2, OutcomeOf, Zenon
    <2>. QED BY <2>3
<1>8. \A o \in outs : /\ o.id \in Of(tab, s) /\ o.url = tab[o.id].url /\ o.uri \in {None, o.url}
                      /\ o.video => s \in dirs' /\ ~HasVideo(atts, s)
    BY <1>2, <1>3, <1>7
<1>9. \A o, p \in outs : o.video /\ p.video => o.id = p.id /\ o.url = p.url
    BY <1>7
<1>10. \/ UNCHANGED disk /\ \A o \in outs : ~o.video
       \/ \E o \in outs : o.video /\ Write(VideoPath(s, o.id), o.url, ~commits)
    BY <1>1
<1>11. outs \in SUBSET OutcomeRow /\ dirs' \in {dirs, dirs \cup {s}}
    BY <1>2, <1>7
<1>12. Resolves(s, tab, replaced, outs, commits)
    BY <1>1, <1>6, <1>8, <1>9, <1>10, <1>11, Zenon DEF Resolves, Resolution
<1>. QED BY <1>11, <1>12

\* What a gather stores: paths in rows that stay, and maybe a video.
LEMMA PersistEffect ==
    ASSUME Types, NEW t \in Task, Persist(t), task[t].sub \in Id
    PROVE  \E stored \in [Id -> AttachmentRow \cup {NoRow}] :
               /\ Rows(stored) = Rows(atts)
               /\ \A r \in Rows(atts) : /\ stored[r].sub = atts[r].sub /\ stored[r].file = atts[r].file
                                        /\ stored[r].alt = atts[r].alt
                                        /\ \/ stored[r] = atts[r]
                                           \/ /\ \E a \in task[t].got : a.id = r
                                              /\ stored[r].path = FilePath(task[t].sub, r)
                                              /\ stored[r].stray = task[t].cut
               /\ Fits(stored, 1)
               /\ atts' = AttachVideo(stored, links, task[t].sub, task[t].outs, task[t].cut)
<1>. DEFINE s == task[t].sub
            Got(r) == \E a \in task[t].got : a.id = r
            stored == [r \in Id |-> IF atts[r] # NoRow /\ Got(r)
                                    THEN [atts[r] EXCEPT !.path = FilePath(s, r), !.stray = task[t].cut]
                                    ELSE atts[r]]
<1>1. atts' = AttachVideo(stored, links, s, task[t].outs, task[t].cut) /\ Fits(atts, 1)
    BY Zenon DEF Persist
<1>2. atts \in [Id -> AttachmentRow \cup {NoRow}] /\ task[t].cut \in BOOLEAN /\ s \in Id
    BY DEF Types, TaskRec
<1>. HIDE DEF Got, s
<1>3. \A r \in Id : /\ stored[r] \in AttachmentRow \cup {NoRow} /\ (stored[r] = NoRow <=> atts[r] = NoRow)
                    /\ stored[r] # NoRow =>
                          /\ stored[r].sub = atts[r].sub /\ stored[r].file = atts[r].file
                          /\ stored[r].alt = atts[r].alt
                          /\ \/ stored[r] = atts[r]
                             \/ Got(r) /\ stored[r].path = FilePath(s, r) /\ stored[r].stray = task[t].cut
    <2>. SUFFICES ASSUME NEW r \in Id, atts[r] # NoRow, Got(r)
                  PROVE  /\ stored[r] \in AttachmentRow /\ stored[r] # NoRow
                         /\ stored[r].sub = atts[r].sub /\ stored[r].file = atts[r].file
                         /\ stored[r].alt = atts[r].alt
                         /\ stored[r].path = FilePath(s, r) /\ stored[r].stray = task[t].cut
        BY <1>2
    <2>1. atts[r] \in AttachmentRow
        BY <1>2
    <2>2. stored[r] = [atts[r] EXCEPT !.path = FilePath(s, r), !.stray = task[t].cut]
        OBVIOUS
    <2>. HIDE DEF stored
    <2>3. stored[r].sub \in Id /\ stored[r].sub # None
        BY <2>1, <2>2, IdsAreNumbers DEF AttachmentRow
    <2>4. FilePath(s, r) \in {NoPath} \cup (Id \X {"file", "linkvid"} \X Id)
        BY <1>2 DEF FilePath
    <2>5. stored[r] # NoRow
        BY <2>3 DEF NoRow
    <2>. QED BY <1>2, <2>1, <2>2, <2>4, <2>5 DEF AttachmentRow
<1>4. stored \in [Id -> AttachmentRow \cup {NoRow}]
    BY <1>3
<1>. HIDE DEF stored
<1>5. Rows(stored) = Rows(atts) /\ \A r \in Rows(atts) : r \in Id /\ stored[r] # NoRow
    BY <1>3 DEF Rows
<1>6. Fits(stored, 1)
    BY <1>1, <1>5 DEF Fits
<1>. QED BY <1>1, <1>3, <1>4, <1>5, <1>6 DEF Got, s

\* A file in a reply: a row of its own, or none.
LEMMA ReplyFileEffect ==
    ASSUME Types, NEW s \in Id, NEW f \in File, ReplyFile(s, f)
    PROVE  LET r == NextId(Rows(atts)) IN
           /\ r \in Id \ Rows(atts) /\ dirs' = dirs \cup {s}
           /\ \A q \in Of(atts, s) : atts[q].file # f
           /\ \E stored, commits \in BOOLEAN :
                  /\ IF stored THEN Write(FilePath(s, r), f, ~commits) ELSE UNCHANGED disk
                  /\ ~commits => UNCHANGED atts
                  /\ commits =>
                       /\ atts' \in [Id -> AttachmentRow \cup {NoRow}]
                       /\ Rows(atts) \subseteq Rows(atts') /\ \A q \in Rows(atts) : atts'[q] = atts[q]
                       /\ Rows(atts') = Rows(atts) \cup {r}
                       /\ atts'[r] = [sub |-> s, file |-> f, alt |-> FALSE, stray |-> FALSE,
                                      path |-> IF stored THEN FilePath(s, r) ELSE NoPath]
<1>. DEFINE r == NextId(Rows(atts))
<1>1. PICK stored \in BOOLEAN, commits \in BOOLEAN :
          /\ IF stored THEN Write(FilePath(s, r), f, ~commits) ELSE UNCHANGED disk
          /\ atts' = IF commits
                     THEN Insert(atts, <<Attachment(s, f, IF stored THEN FilePath(s, r) ELSE NoPath)>>)
                     ELSE atts
    BY Zenon DEF ReplyFile
<1>2. r \in Id /\ dirs' = dirs \cup {s} /\ \A q \in Of(atts, s) : atts[q].file # f
    BY DEF ReplyFile
<1>3. r \notin Rows(atts)
    <2>1. Rows(atts) \subseteq Id
        BY DEF Rows
    <2>2. r \in Nat \ {0} /\ \A x \in Rows(atts) : x < r
        BY <2>1, NextIdAbove
    <2>. QED BY <2>2
<1>. DEFINE row == [sub |-> s, file |-> f, alt |-> FALSE, stray |-> FALSE,
                    path |-> IF stored THEN FilePath(s, r) ELSE NoPath]
            one == <<row>>
<1>. HIDE DEF r
<1>4. CASE ~commits
    BY <1>1, <1>2, <1>3, <1>4 DEF r
<1>5. CASE commits
    <2>1. row \in AttachmentRow
        BY <1>2 DEF AttachmentRow, FilePath
    <2>2. atts' = Insert(atts, one)
        BY <1>1, <1>5 DEF Attachment
    <2>. HIDE DEF row
    <2>3. one \in Seq(AttachmentRow) /\ Len(one) = 1 /\ one[1] = row
        BY <2>1
    <2>. HIDE DEF one
    <2>4. \A x \in AttachmentRow : x.sub \in Id
        BY DEF AttachmentRow
    <2>5. atts \in [Id -> AttachmentRow \cup {NoRow}] /\ Fits(atts, Len(one))
        BY <1>2, <2>3, IdsAreNumbers DEF Types, Fits, r
    <2>6. /\ Insert(atts, one) \in [Id -> AttachmentRow \cup {NoRow}]
          /\ Rows(atts) \subseteq Rows(Insert(atts, one))
          /\ \A q \in Rows(atts) : Insert(atts, one)[q] = atts[q]
          /\ \A q \in Rows(Insert(atts, one)) \ Rows(atts) :
                 \E i \in 1 .. Len(one) : q = NextId(Rows(atts)) + i - 1 /\ Insert(atts, one)[q] = one[i]
          /\ \A i \in 1 .. Len(one) : /\ NextId(Rows(atts)) + i - 1 \in Rows(Insert(atts, one)) \ Rows(atts)
                                      /\ Insert(atts, one)[NextId(Rows(atts)) + i - 1] = one[i]
        BY <2>3, <2>4, <2>5, InsertRows, Zenon
    <2>7. r \in Nat /\ r + 1 - 1 = r
        BY <1>2, IdsAreNumbers
    <2>8. r \in Rows(atts') /\ atts'[r] = row
        BY <2>2, <2>3, <2>6, <2>7 DEF r
    <2>9. Rows(atts') = Rows(atts) \cup {r}
        BY <2>2, <2>3, <2>6, <2>7, <2>8 DEF r
    <2>10. atts' \in [Id -> AttachmentRow \cup {NoRow}] /\ \A q \in Rows(atts) : atts'[q] = atts[q]
        BY <2>2, <2>6
    <2>. QED BY <1>1, <1>2, <1>3, <1>5, <2>8, <2>9, <2>10 DEF r, row
<1>. QED BY <1>4, <1>5

LEMMA WriteKeepsPlaces ==
    ASSUME NEW p, NEW what, NEW stray, Write(p, what, stray)
    PROVE  DOMAIN disk' = DOMAIN disk \cup {p}
BY DEF Write

-----------------------------------------------------------------------------
(* The tasks: types, shapes, locks.                                        *)

LEMMA TypesInit == Init => Types
<1>. SUFFICES ASSUME Init PROVE Types
    OBVIOUS
<1>1. Blank \in TaskRec
    BY DEF Blank, TaskRec
<1>2. DOMAIN disk = {}
    BY DEF Init
<1>. QED BY <1>1, <1>2, IngestAssumption DEF Init, Types

\* A task given back its lock.
LEMMA FinishTypes ==
    ASSUME Types, NEW t \in Task, Finish(t)
    PROVE  task' \in [Task -> TaskRec] /\ lock' \in [Message -> Task \cup {None}]
BY DEF Types, Finish, Blank, TaskRec

LEMMA CutTypes ==
    ASSUME Types, NEW s
    PROVE  /\ Cut(s) \in [Task -> TaskRec]
           /\ \A k \in Task : Cut(s)[k] = [task[k] EXCEPT !.cut = task[k].cut \/ task[k].sub = s]
<1>1. \A k \in TaskRec, b \in BOOLEAN : [k EXCEPT !.cut = b] \in TaskRec
    BY DEF TaskRec
<1>2. \A k \in Task : task[k] \in TaskRec /\ (task[k].cut \/ task[k].sub = s) \in BOOLEAN
    BY DEF Types, TaskRec
<1>3. \A k \in Task : [task[k] EXCEPT !.cut = task[k].cut \/ task[k].sub = s] \in TaskRec
    BY <1>1, <1>2
<1>. QED BY <1>3, Zenon DEF Cut

LEMMA FetchTypes ==
    ASSUME Types, NEW t \in Task, Fetch(t)
    PROVE  Types'
<1>1. PICK m \in Message, kind \in {"butterfly", "reingest"} :
          task' = [task EXCEPT ![t] = [Blank EXCEPT !.pc = "wait", !.kind = kind, !.msg = m,
                                         !.files = content[m].files, !.urls = content[m].urls]]
    BY DEF Fetch
<1>2. content[m].files \in Seq(File) /\ content[m].urls \in Seq(Url)
    BY DEF Types
<1>3. task' \in [Task -> TaskRec]
    BY <1>1, <1>2 DEF Types, Blank, TaskRec
<1>4. left' \in [{"handlers", "events"} -> Nat]
    BY DEF Fetch, Spend, Types
<1>. QED BY <1>3, <1>4 DEF Fetch, Types, db, vol

LEMMA EnterTypes ==
    ASSUME Types, NEW t \in Task, Enter(t)
    PROVE  Types'
<1>. DEFINE m == task[t].msg
<1>1. CASE Finish(t) /\ UNCHANGED subs
    BY <1>1, FinishTypes DEF Enter, Types, vol
<1>2. CASE /\ SubOf(m) = {} /\ NextId(Live) \in Id
           /\ subs' = [subs EXCEPT ![NextId(Live)] = m]
           /\ task' = [task EXCEPT ![t].pc = "skeletons", ![t].sub = NextId(Live)]
           /\ lock' = [lock EXCEPT ![m] = t]
    <2>1. subs' \in [Id -> Message \cup {None}]
        BY <1>2 DEF Types, TaskRec
    <2>2. task' \in [Task -> TaskRec]
        <3>1. \A k \in TaskRec, n \in Id : [k EXCEPT !.pc = "skeletons", !.sub = n] \in TaskRec
            BY DEF TaskRec, Working
        <3>2. task \in [Task -> TaskRec]
            BY DEF Types
        <3>. QED BY <1>2, <3>1, <3>2
    <2>3. lock' \in [Message -> Task \cup {None}]
        BY <1>2 DEF Types
    <2>. QED BY <2>1, <2>2, <2>3 DEF Enter, Types, vol
<1>3. CASE /\ \E s \in SubOf(m) : task' = [task EXCEPT ![t].pc = "teardown", ![t].sub = s]
           /\ lock' = [lock EXCEPT ![m] = t] /\ UNCHANGED subs
    <2>1. task' \in [Task -> TaskRec]
        <3>1. \A k \in TaskRec, n \in Id : [k EXCEPT !.pc = "teardown", !.sub = n] \in TaskRec
            BY DEF TaskRec, Working
        <3>2. task \in [Task -> TaskRec] /\ SubOf(m) \subseteq Id
            BY DEF Types, SubOf, Live
        <3>3. PICK n \in Id : task' = [task EXCEPT ![t].pc = "teardown", ![t].sub = n]
            BY <1>3, <3>2
        <3>. QED BY <3>1, <3>2, <3>3
    <2>2. lock' \in [Message -> Task \cup {None}]
        BY <1>3 DEF Types
    <2>. QED BY <1>3, <2>1, <2>2 DEF Enter, Types, vol
<1>. QED BY <1>1, <1>2, <1>3 DEF Enter

LEMMA TearDownTypes ==
    ASSUME Types, NEW t \in Task, TearDown(t)
    PROVE  Types'
<1>. DEFINE s == task[t].sub
<1>1. CASE s \in Live
    <2>. DEFINE base == IF task[t].cut THEN Cut(s) ELSE task
    <2>1. base \in [Task -> TaskRec]
        BY CutTypes DEF Types
    <2>2. task' = [base EXCEPT ![t].pc = "skeletons", ![t].keep = Described(s)]
        BY <1>1, Zenon DEF TearDown
    <2>3. Described(s) \subseteq File \cup Url
        BY DEF Described, Of, Rows, Types, AttachmentRow
    <2>. HIDE DEF base
    <2>4. task' \in [Task -> TaskRec]
        <3>1. \A k \in TaskRec, a \in SUBSET (File \cup Url) :
                  [k EXCEPT !.pc = "skeletons", !.keep = a] \in TaskRec
            BY DEF TaskRec, Working
        <3>. QED BY <2>1, <2>2, <2>3, <3>1
    <2>5. /\ atts' \in [Id -> AttachmentRow \cup {NoRow}]
          /\ links' \in [Id -> LinkRow \cup {NoRow}]
        BY <1>1 DEF TearDown, Types, Delete
    <2>6. answered' \subseteq answered
        BY <1>1 DEF TearDown
    <2>. QED BY <1>1, <2>4, <2>5, <2>6 DEF TearDown, Types, vol
<1>2. CASE s \notin Live
    BY <1>2, FinishTypes DEF TearDown, Types, vol
<1>. QED BY <1>1, <1>2

LEMMA SkeletonsTypes ==
    ASSUME Types, Shape, NEW t \in Task, Skeletons(t)
    PROVE  Types'
<1>. DEFINE s == task[t].sub
<1>1. s \in Id
    BY DEF Skeletons, Shape, Fit, Types, TaskRec, Working
<1>2. CASE s \in Live
    <2>. DEFINE rows == {[id |-> r, file |-> atts'[r].file] : r \in Rows(atts') \ Rows(atts)}
                plan == {[id |-> l, url |-> links'[l].url] : l \in Of(links', s)}
                video == HasVideo(atts', s)
    <2>1. /\ task' = [task EXCEPT ![t].pc = "gather", ![t].rows = rows, ![t].todo = rows,
                                  ![t].plan = plan, ![t].video = video, ![t].old = {}]
          /\ dirs' = dirs \cup {s}
        BY <1>2, Zenon DEF Skeletons
    <2>2. rows \subseteq Skeleton
        <3>1. \A r \in Rows(atts') \ Rows(atts) : r \in Id /\ \E i \in DOMAIN task[t].files :
                  atts'[r].file = task[t].files[i]
            <4>1. \A r \in Rows(atts') \ Rows(atts) : \E i \in DOMAIN task[t].files :
                      atts'[r] = [sub |-> s, file |-> task[t].files[i], path |-> NoPath, alt |-> FALSE,
                                  stray |-> task[t].cut]
                BY <1>2, SkeletonEffect, Zenon
            <4>2. \A r \in Rows(atts') : r \in Id
                BY DEF Rows
            <4>3. ASSUME NEW r \in Rows(atts') \ Rows(atts)
                  PROVE  \E i \in DOMAIN task[t].files : atts'[r].file = task[t].files[i]
                <5>1. PICK i \in DOMAIN task[t].files :
                          atts'[r] = [sub |-> s, file |-> task[t].files[i], path |-> NoPath, alt |-> FALSE,
                                      stray |-> task[t].cut]
                    BY <4>1
                <5>2. atts'[r].file = task[t].files[i]
                    BY <5>1
                <5>. QED BY <5>2
            <4>. QED BY <4>2, <4>3
        <3>2. task[t].files \in Seq(File)
            BY DEF Types, TaskRec
        <3>3. \A i \in DOMAIN task[t].files : task[t].files[i] \in File
            BY <3>2
        <3>4. \A r \in Rows(atts') \ Rows(atts) : r \in Id /\ atts'[r].file \in File
            BY <3>1, <3>3
        <3>. QED BY <3>4 DEF Skeleton
    <2>3. plan \subseteq PlanLink
        BY <1>2, SkeletonEffect DEF Of, Rows, LinkRow, PlanLink
    <2>4. video \in BOOLEAN
        BY DEF HasVideo
    <2>. HIDE DEF rows, plan, video
    <2>5. task' \in [Task -> TaskRec]
        <3>1. \A k \in TaskRec, a \in SUBSET Skeleton, b \in SUBSET PlanLink, v \in BOOLEAN :
                  [k EXCEPT !.pc = "gather", !.rows = a, !.todo = a, !.plan = b, !.video = v,
                            !.old = {}] \in TaskRec
            <4>. SUFFICES ASSUME NEW k \in TaskRec, NEW a \in SUBSET Skeleton, NEW b \in SUBSET PlanLink,
                                 NEW v \in BOOLEAN
                          PROVE  [k EXCEPT !.pc = "gather", !.rows = a, !.todo = a, !.plan = b,
                                           !.video = v, !.old = {}] \in TaskRec
                OBVIOUS
            <4>. QED BY DEF TaskRec, Working
        <3>2. task \in [Task -> TaskRec]
            BY DEF Types
        <3>. QED BY <2>1, <2>2, <2>3, <2>4, <3>1, <3>2
    <2>6. dirs' \subseteq Id
        BY <1>1, <2>1 DEF Types
    <2>. QED BY <1>2, <2>1, <2>5, <2>6, SkeletonEffect DEF Skeletons, Types
<1>3. CASE s \notin Live
    <2>1. task' \in [Task -> TaskRec]
        <3>1. \A k \in TaskRec : [k EXCEPT !.pc = "close"] \in TaskRec
            BY DEF TaskRec, Working
        <3>2. task' = [task EXCEPT ![t].pc = "close"] /\ task \in [Task -> TaskRec]
            BY <1>3 DEF Skeletons, Types
        <3>. QED BY <3>1, <3>2
    <2>. QED BY <1>3, <2>1 DEF Skeletons, Types
<1>. QED BY <1>2, <1>3

LEMMA GatherFileTypes ==
    ASSUME Types, NEW t \in Task, GatherFile(t)
    PROVE  Types'
<1>. DEFINE s == task[t].sub
<1>1. PICK a \in task[t].todo :
          \/ /\ s \in dirs
             /\ Write(FilePath(s, a.id), a.file, task[t].cut)
             /\ task' = [task EXCEPT ![t].todo = @ \ {a}, ![t].got = @ \cup {a}]
             /\ UNCHANGED left
          \/ /\ IF s \in dirs THEN Spend("events") ELSE UNCHANGED left
             /\ task' = [task EXCEPT ![t].todo = @ \ {a}] /\ UNCHANGED disk
    BY DEF GatherFile
<1>2. task' \in [Task -> TaskRec]
    <2>1. \A k \in TaskRec, a1 \in SUBSET Skeleton, b \in SUBSET Skeleton :
              [k EXCEPT !.todo = a1, !.got = b] \in TaskRec /\ [k EXCEPT !.todo = a1] \in TaskRec
        BY DEF TaskRec
    <2>2. task \in [Task -> TaskRec] /\ task[t].todo \ {a} \in SUBSET Skeleton
          /\ task[t].got \cup {a} \in SUBSET Skeleton
        BY DEF Types, TaskRec
    <2>3. [task[t] EXCEPT !.todo = task[t].todo \ {a}] \in TaskRec
        BY <2>1, <2>2
    <2>4. [task[t] EXCEPT !.todo = task[t].todo \ {a}, !.got = task[t].got \cup {a}] \in TaskRec
        BY <2>1, <2>2
    <2>. QED BY <1>1, <2>2, <2>3, <2>4
<1>3. left' \in [{"handlers", "events"} -> Nat]
    <2>1. UNCHANGED left \/ Spend("events")
        BY <1>1
    <2>. QED BY <2>1 DEF Types, Spend
<1>4. \A p \in DOMAIN disk' : p[1] \in dirs
    <2>1. FilePath(s, a.id)[1] = s
        BY DEF FilePath
    <2>2. (s \in dirs /\ DOMAIN disk' = DOMAIN disk \cup {FilePath(s, a.id)}) \/ UNCHANGED disk
        BY <1>1, WriteKeepsPlaces
    <2>. QED BY <2>1, <2>2 DEF Types
<1>. QED BY <1>2, <1>3, <1>4 DEF GatherFile, Types, db

LEMMA GatherLinkOutcome ==
    ASSUME Types, NEW t \in Task, GatherLink(t)
    PROVE  \E l \in task[t].plan, o \in OutcomeRow :
               /\ o.id = l.id /\ o.url = l.url /\ o.uri \in {None, l.url}
               /\ \A p \in task[t].outs : p.id # l.id
               /\ o.video => /\ l = Primary(task[t].plan) /\ ~task[t].video
                             /\ task[t].sub \in dirs
               /\ IF o.video THEN Write(VideoPath(task[t].sub, l.id), l.url, Outdated(t, l))
                  ELSE UNCHANGED disk
               /\ task' = [task EXCEPT ![t].outs = task[t].outs \cup {o}]
<1>. DEFINE rest == {l \in task[t].plan : \A o \in task[t].outs : o.id # l.id}
            l == Primary(rest)
<1>1. task[t].plan \subseteq PlanLink /\ task[t].video \in BOOLEAN
    BY DEF Types, TaskRec
<1>2. l \in rest
    BY <1>1, PrimaryIsFirst DEF GatherLink
<1>3. PICK o \in Outcomes(l, l = Primary(task[t].plan), task[t].video) :
          /\ o.video => task[t].sub \in dirs
          /\ IF o.video THEN Write(VideoPath(task[t].sub, l.id), l.url, Outdated(t, l))
             ELSE UNCHANGED disk
          /\ task' = [task EXCEPT ![t].outs = task[t].outs \cup {o}]
    BY DEF GatherLink
<1>4. l \in task[t].plan /\ l \in PlanLink /\ \A p \in task[t].outs : p.id # l.id
    BY <1>1, <1>2
<1>. HIDE DEF l
<1>5. (l = Primary(task[t].plan)) \in BOOLEAN
    OBVIOUS
<1>6. /\ o \in OutcomeRow /\ o.id = l.id /\ o.url = l.url /\ o.uri \in {None, l.url}
      /\ o.video => (l = Primary(task[t].plan)) /\ ~task[t].video
    BY <1>1, <1>3, <1>4, <1>5, OutcomeOf, Zenon
<1>. QED BY <1>3, <1>4, <1>6

LEMMA GatherLinkTypes ==
    ASSUME Types, NEW t \in Task, GatherLink(t)
    PROVE  Types'
<1>1. PICK l \in task[t].plan, o \in OutcomeRow :
          /\ o.video => task[t].sub \in dirs
          /\ IF o.video THEN Write(VideoPath(task[t].sub, l.id), l.url, Outdated(t, l))
             ELSE UNCHANGED disk
          /\ task' = [task EXCEPT ![t].outs = task[t].outs \cup {o}]
    BY GatherLinkOutcome
<1>2. task' \in [Task -> TaskRec]
    <2>1. \A k \in TaskRec, a \in SUBSET OutcomeRow : [k EXCEPT !.outs = a] \in TaskRec
        BY DEF TaskRec
    <2>2. task \in [Task -> TaskRec] /\ task[t].outs \cup {o} \in SUBSET OutcomeRow
        BY DEF Types, TaskRec
    <2>. QED BY <1>1, <2>1, <2>2
<1>3. \A p \in DOMAIN disk' : p[1] \in dirs
    <2>1. VideoPath(task[t].sub, l.id)[1] = task[t].sub
        BY DEF VideoPath
    <2>2. \/ task[t].sub \in dirs /\ DOMAIN disk' = DOMAIN disk \cup {VideoPath(task[t].sub, l.id)}
          \/ UNCHANGED disk
        BY <1>1, WriteKeepsPlaces
    <2>. QED BY <2>1, <2>2 DEF Types
<1>4. left' \in [{"handlers", "events"} -> Nat]
    BY DEF GatherLink, Types, Spend
<1>. QED BY <1>2, <1>3, <1>4 DEF GatherLink, Types, db

LEMMA SetLink ==
    ASSUME NEW link \in LinkRow, NEW u, NEW v, NEW b
    PROVE  [link EXCEPT !.meta = u, !.uri = v, !.stray = b]
               = [sub |-> link.sub, url |-> link.url, meta |-> u, uri |-> v, stray |-> b]
<1>. DEFINE r1 == [link EXCEPT !.meta = u]
            r2 == [r1 EXCEPT !.uri = v]
            r3 == [r2 EXCEPT !.stray = b]
            S  == [sub : Id, url : Url, meta : {u}, uri : Url \cup {None, v}, stray : BOOLEAN]
<1>1. r1 \in S /\ r1 = [sub |-> link.sub, url |-> link.url, meta |-> u, uri |-> link.uri,
                        stray |-> link.stray]
    BY DEF LinkRow
<1>. HIDE DEF r1
<1>2. r2 \in S /\ r2 = [sub |-> r1.sub, url |-> r1.url, meta |-> r1.meta, uri |-> v,
                        stray |-> r1.stray]
    BY <1>1
<1>. HIDE DEF r2
<1>3. r3 = [sub |-> r2.sub, url |-> r2.url, meta |-> r2.meta, uri |-> r2.uri, stray |-> b]
    BY <1>2
<1>. HIDE DEF r3
<1>4. r3 = [sub |-> link.sub, url |-> link.url, meta |-> u, uri |-> v, stray |-> b]
    BY <1>1, <1>2, <1>3
<1>. QED BY <1>4 DEF r1, r2, r3

LEMMA WrittenBack ==
    ASSUME NEW tab \in [Id -> LinkRow \cup {NoRow}], NEW l \in Id, tab[l] # NoRow,
           NEW o \in OutcomeRow, NEW b \in BOOLEAN
    PROVE  /\ Resolved(tab[l], o, b) \in LinkRow
           /\ Resolved(tab[l], o, b) = [sub |-> tab[l].sub, url |-> tab[l].url, meta |-> o.url,
                                        uri |-> o.uri, stray |-> b]
<1>1. tab[l] \in LinkRow /\ o.url \in Url /\ o.uri \in Url \cup {None}
    BY DEF OutcomeRow
<1>2. Resolved(tab[l], o, b) = [sub |-> tab[l].sub, url |-> tab[l].url, meta |-> o.url,
                                uri |-> o.uri, stray |-> b]
    BY <1>1, SetLink DEF Resolved
<1>. QED BY <1>1, <1>2 DEF LinkRow

\* The links as a gather leaves them.
LEMMA PersistLinks ==
    ASSUME Types, NEW t \in Task, Persist(t)
    PROVE  /\ links' \in [Id -> LinkRow \cup {NoRow}]
           /\ \A l \in Id :
                  \/ links'[l] = links[l]
                  \/ /\ links[l] # NoRow /\ links'[l] # NoRow
                     /\ \E o \in task[t].outs :
                            /\ o.id = l
                            /\ links'[l] = [sub |-> links[l].sub, url |-> links[l].url, meta |-> o.url,
                                            uri |-> o.uri,
                                            stray |-> task[t].cut \/ links[l].url # o.url]
<1>. DEFINE outs == task[t].outs
            Stray(o) == task[t].cut \/ links[o.id].url # o.url
            The(l) == CHOOSE o \in outs : o.id = l
<1>1. outs \subseteq OutcomeRow /\ task[t].cut \in BOOLEAN /\ links \in [Id -> LinkRow \cup {NoRow}]
    BY DEF Types, TaskRec
<1>2. links' = [l \in Id |-> IF links[l] # NoRow /\ \E o \in outs : o.id = l
                             THEN Resolved(links[l], The(l), Stray(The(l)))
                             ELSE links[l]]
    BY Zenon DEF Persist, WriteBack
<1>3. \A l \in Id : (\E o \in outs : o.id = l) => The(l) \in outs /\ The(l).id = l
    BY Zenon
<1>4. \A o \in outs : Stray(o) \in BOOLEAN
    BY <1>1
<1>. HIDE DEF The, Stray, outs
<1>5. ASSUME NEW l \in Id, links[l] # NoRow, \E o \in outs : o.id = l
      PROVE  /\ links'[l] \in LinkRow
             /\ links'[l] = [sub |-> links[l].sub, url |-> links[l].url, meta |-> The(l).url,
                             uri |-> The(l).uri, stray |-> Stray(The(l))]
    <2>1. links'[l] = Resolved(links[l], The(l), Stray(The(l)))
        BY <1>2, <1>5
    <2>2. The(l) \in OutcomeRow /\ Stray(The(l)) \in BOOLEAN
        BY <1>1, <1>3, <1>4, <1>5
    <2>3. /\ Resolved(links[l], The(l), Stray(The(l))) \in LinkRow
          /\ Resolved(links[l], The(l), Stray(The(l)))
                 = [sub |-> links[l].sub, url |-> links[l].url, meta |-> The(l).url,
                    uri |-> The(l).uri, stray |-> Stray(The(l))]
        BY <1>1, <1>5, <2>2, WrittenBack, Zenon
    <2>. QED BY <2>1, <2>3
<1>6. \A l \in Id : ~(links[l] # NoRow /\ \E o \in outs : o.id = l) => links'[l] = links[l]
    BY <1>2
<1>7. links' \in [Id -> LinkRow \cup {NoRow}]
    <2>1. \A l \in Id : links'[l] \in LinkRow \cup {NoRow}
        BY <1>1, <1>5, <1>6
    <2>2. \E f : links' = [l \in Id |-> f[l]]
        <3>. DEFINE g == [l \in Id |-> IF links[l] # NoRow /\ \E o \in outs : o.id = l
                                       THEN Resolved(links[l], The(l), Stray(The(l)))
                                       ELSE links[l]]
        <3>1. links' = [l \in Id |-> g[l]]
            BY <1>2
        <3>. QED BY <3>1
    <2>. QED BY <2>1, <2>2
<1>8. ASSUME NEW l \in Id, links'[l] # links[l]
      PROVE  /\ links[l] # NoRow /\ links'[l] # NoRow
             /\ \E o \in outs :
                    /\ o.id = l
                    /\ links'[l] = [sub |-> links[l].sub, url |-> links[l].url, meta |-> o.url,
                                    uri |-> o.uri, stray |-> task[t].cut \/ links[l].url # o.url]
    <2>1. links[l] # NoRow /\ \E o \in outs : o.id = l
        BY <1>6, <1>8
    <2>2. The(l) \in outs /\ The(l).id = l
        BY <1>3, <2>1
    <2>3. /\ links'[l] \in LinkRow
          /\ links'[l] = [sub |-> links[l].sub, url |-> links[l].url, meta |-> The(l).url,
                          uri |-> The(l).uri, stray |-> Stray(The(l))]
        BY <1>5, <2>1
    <2>4. Stray(The(l)) = (task[t].cut \/ links[l].url # The(l).url)
        BY <2>2, Zenon DEF Stray
    <2>5. links'[l] # NoRow
        BY <2>3, IdsAreNumbers DEF LinkRow, NoRow
    <2>. QED BY <2>1, <2>2, <2>3, <2>4, <2>5, Zenon
<1>. QED BY <1>7, <1>8 DEF outs

LEMMA PersistTypes ==
    ASSUME Types, Shape, NEW t \in Task, Persist(t)
    PROVE  Types'
<1>1. task[t].sub \in Id /\ task[t].outs \subseteq OutcomeRow /\ task[t].cut \in BOOLEAN
    BY DEF Types, TaskRec, Shape, Fit, Working, Persist
<1>2. PICK stored \in [Id -> AttachmentRow \cup {NoRow}] :
          /\ Fits(stored, 1)
          /\ atts' = AttachVideo(stored, links, task[t].sub, task[t].outs, task[t].cut)
    BY <1>1, PersistEffect
<1>3. atts' \in [Id -> AttachmentRow \cup {NoRow}]
    BY <1>1, <1>2, AttachRows DEF Attaches
<1>4. task' \in [Task -> TaskRec]
    <2>1. \A k \in TaskRec : [k EXCEPT !.pc = "close"] \in TaskRec
        BY DEF TaskRec, Working
    <2>2. task' = [task EXCEPT ![t].pc = "close"] /\ task \in [Task -> TaskRec]
        BY DEF Persist, Types
    <2>. QED BY <2>1, <2>2
<1>5. UNCHANGED <<content, subs, dirs, disk, lock, answered, left>>
    BY DEF Persist, vol
<1>. QED BY <1>3, <1>4, <1>5, PersistLinks DEF Types

\* Descriptions put back: they are all that changes.
LEMMA RestoreEffect ==
    ASSUME Types, NEW t \in Task, task[t].sub \in Id
    PROVE  LET new == Restored(t) IN
           /\ new \in [Id -> AttachmentRow \cup {NoRow}] /\ Rows(new) = Rows(atts)
           /\ \A r \in Rows(atts) :
                  /\ new[r].sub = atts[r].sub /\ new[r].file = atts[r].file
                  /\ new[r].path = atts[r].path /\ new[r].stray = atts[r].stray
                  /\ new[r].alt = (atts[r].alt \/ (atts[r].sub = task[t].sub /\ atts[r].file \in task[t].keep))
<1>. DEFINE new == Restored(t)
            Kept(r) == atts[r].sub = task[t].sub /\ atts[r].file \in task[t].keep
<1>1. new = [r \in Id |-> IF Kept(r) THEN [atts[r] EXCEPT !.alt = TRUE] ELSE atts[r]]
    BY DEF Restored
<1>2. \A x \in AttachmentRow : [x EXCEPT !.alt = TRUE] \in AttachmentRow
    BY DEF AttachmentRow
<1>3. \A x \in AttachmentRow : x # NoRow /\ x.sub \in Id /\ x.alt \in BOOLEAN
    BY IdsAreNumbers DEF AttachmentRow, NoRow
<1>4. \A r \in Id : Kept(r) => atts[r] \in AttachmentRow
    BY IdsAreNumbers DEF Types, NoRow
<1>. HIDE DEF Kept, new
<1>5. new \in [Id -> AttachmentRow \cup {NoRow}]
    BY <1>1, <1>2, <1>4 DEF Types
<1>6. Rows(new) = Rows(atts)
    BY <1>1, <1>2, <1>3, <1>4 DEF Rows
<1>7. \A r \in Rows(atts) : r \in Id /\ atts[r] \in AttachmentRow
    BY DEF Rows, Types
<1>8. \A x \in AttachmentRow :
          LET y == [x EXCEPT !.alt = TRUE] IN
          y.sub = x.sub /\ y.file = x.file /\ y.path = x.path /\ y.stray = x.stray /\ y.alt = TRUE
    BY DEF AttachmentRow
<1>9. \A r \in Rows(atts) : /\ new[r].sub = atts[r].sub /\ new[r].file = atts[r].file
                            /\ new[r].path = atts[r].path /\ new[r].stray = atts[r].stray
                            /\ new[r].alt = (atts[r].alt \/ Kept(r))
    BY <1>1, <1>3, <1>7, <1>8
<1>. QED BY <1>5, <1>6, <1>9 DEF Kept, new

LEMMA RestoreTypes ==
    ASSUME Types, Shape, NEW t \in Task, Restore(t)
    PROVE  Types'
<1>1. task[t].sub \in Id
    BY DEF Types, TaskRec, Shape, Fit, Working, Restore
<1>2. atts' \in [Id -> AttachmentRow \cup {NoRow}]
    BY <1>1, RestoreEffect DEF Restore
<1>3. answered' \subseteq answered /\ Finish(t)
    BY DEF Restore
<1>. QED BY <1>2, <1>3, FinishTypes DEF Restore, Types, vol

\* What goes with a submission.
LEMMA DeleteStays ==
    ASSUME Types, NEW rs \in SUBSET Id
    PROVE  /\ Rows(Delete(atts, rs)) = Rows(atts) \ rs
           /\ \A r \in Rows(atts) \ rs : Delete(atts, rs)[r] = atts[r]
           /\ Rows(Delete(links, rs)) = Rows(links) \ rs
           /\ \A r \in Rows(links) \ rs : Delete(links, rs)[r] = links[r]
<1>1. Rows(Delete(atts, rs)) = Rows(atts) \ rs /\ Rows(Delete(links, rs)) = Rows(links) \ rs
    BY DEF Delete, Rows
<1>2. /\ \A r \in Rows(atts) \ rs : Delete(atts, rs)[r] = atts[r]
      /\ \A r \in Rows(links) \ rs : Delete(links, rs)[r] = links[r]
    BY DEF Delete, Rows
<1>. QED BY <1>1, <1>2

LEMMA DropEffect ==
    ASSUME Types, NEW s \in Id, Drop(s)
    PROVE  /\ subs' \in [Id -> Message \cup {None}] /\ subs'[s] = None
           /\ \A x \in Id \ {s} : subs'[x] = subs[x]
           /\ atts' \in [Id -> AttachmentRow \cup {NoRow}] /\ links' \in [Id -> LinkRow \cup {NoRow}]
           /\ Rows(atts') = {r \in Rows(atts) : atts[r].sub # s}
           /\ \A r \in Rows(atts') : atts'[r] = atts[r]
           /\ Rows(links') = {r \in Rows(links) : links[r].sub # s}
           /\ \A r \in Rows(links') : links'[r] = links[r]
           /\ answered' = {a \in answered : a[1] # s}
<1>1. subs' \in [Id -> Message \cup {None}] /\ subs'[s] = None /\ \A x \in Id \ {s} : subs'[x] = subs[x]
    BY DEF Drop, Types
<1>2. atts' = Delete(atts, Of(atts, s)) /\ links' = Delete(links, Of(links, s))
    BY DEF Drop
<1>3. /\ atts' \in [Id -> AttachmentRow \cup {NoRow}] /\ Rows(atts') = Rows(atts) \ Of(atts, s)
      /\ \A r \in Rows(atts) \ Of(atts, s) : atts'[r] = atts[r]
    <2>1. atts \in [Id -> AttachmentRow \cup {NoRow}] /\ Of(atts, s) \in SUBSET Id
        BY DEF Types, Of, Rows
    <2>2. Delete(atts, Of(atts, s)) \in [Id -> AttachmentRow \cup {NoRow}]
        BY <2>1, DeleteRows, Zenon
    <2>3. Rows(Delete(atts, Of(atts, s))) = Rows(atts) \ Of(atts, s)
        BY <2>1, DeleteRows, Zenon
    <2>4. \A r \in Rows(atts) \ Of(atts, s) : Delete(atts, Of(atts, s))[r] = atts[r]
        BY DEF Delete, Rows
    <2>. QED BY <1>2, <2>2, <2>3, <2>4
<1>4. /\ links' \in [Id -> LinkRow \cup {NoRow}] /\ Rows(links') = Rows(links) \ Of(links, s)
      /\ \A r \in Rows(links) \ Of(links, s) : links'[r] = links[r]
    <2>1. links \in [Id -> LinkRow \cup {NoRow}] /\ Of(links, s) \in SUBSET Id
        BY DEF Types, Of, Rows
    <2>2. Delete(links, Of(links, s)) \in [Id -> LinkRow \cup {NoRow}]
        BY <2>1, DeleteRows, Zenon
    <2>3. Rows(Delete(links, Of(links, s))) = Rows(links) \ Of(links, s)
        BY <2>1, DeleteRows, Zenon
    <2>4. \A r \in Rows(links) \ Of(links, s) : Delete(links, Of(links, s))[r] = links[r]
        BY DEF Delete, Rows
    <2>. QED BY <1>2, <2>2, <2>3, <2>4
<1>. QED BY <1>1, <1>3, <1>4 DEF Drop, Of

LEMMA RemoveFilesEffect ==
    ASSUME Types, NEW s \in Id, RemoveFiles(s)
    PROVE  /\ dirs' = dirs \ {s} /\ DOMAIN disk' = {p \in DOMAIN disk : p[1] # s}
           /\ \A p \in DOMAIN disk' : disk'[p] = disk[p]
BY DEF RemoveFiles

LEMMA SettleTypes ==
    ASSUME Types, Shape, NEW t \in Task, Settle(t)
    PROVE  Types'
<1>. DEFINE s == task[t].sub
<1>1. CASE s \in Live /\ Duplicate(s)
    <2>1. s \in Id /\ Drop(s) /\ RemoveFiles(s)
        BY <1>1 DEF Settle, Live
    <2>2. task' \in [Task -> TaskRec]
        <3>1. task' = [Cut(s) EXCEPT ![t] = Blank] /\ Blank \in TaskRec
            BY <1>1 DEF Settle, Blank, TaskRec
        <3>. QED BY <3>1, CutTypes
    <2>3. lock' \in [Message -> Task \cup {None}]
        BY <1>1 DEF Settle, Types
    <2>4. dirs' \subseteq Id /\ \A p \in DOMAIN disk' : p[1] \in dirs'
        BY <2>1, RemoveFilesEffect DEF Types
    <2>5. answered' \subseteq answered
        BY <2>1 DEF Drop
    <2>. QED BY <2>1, <2>2, <2>3, <2>4, <2>5, DropEffect DEF Settle, Types
<1>2. CASE ~(s \in Live /\ Duplicate(s))
    BY <1>2, FinishTypes DEF Settle, Types, db, vol
<1>. QED BY <1>1, <1>2

\* The links that a reply has resolved.
LEMMA ReplyCases ==
    ASSUME Types, NEW s \in Live, NEW u \in Url, ReplyLink(s, u) \/ ReplyMetadata(s, u)
    PROVE  \E tab \in [Id -> LinkRow \cup {NoRow}], replaced \in SUBSET Id :
               /\ \A l \in Rows(links) : /\ l \in Rows(tab) /\ tab[l].sub = links[l].sub
                                         /\ tab[l] = links[l] \/ (l \in replaced /\ links[l].sub = s)
               /\ \A l \in Rows(tab) \ Rows(links) : tab[l].sub = s
               /\ ResolveInSession(s, tab, replaced)
<1>0. s \in Id
    BY DEF Live
<1>1. CASE ReplyLink(s, u)
    <2>. DEFINE row == SubmissionLink(s, u)
                one == <<row>>
                tab == Insert(links, one)
    <2>1. row \in LinkRow /\ row.sub = s
        BY <1>0 DEF SubmissionLink, LinkRow
    <2>2. ResolveInSession(s, tab, {}) /\ Fits(links, 1)
        BY <1>1 DEF ReplyLink
    <2>. HIDE DEF row
    <2>3. one \in Seq(LinkRow) /\ Len(one) = 1 /\ one[1] = row
        BY <2>1
    <2>. HIDE DEF one
    <2>4. \A x \in LinkRow : x.sub \in Id
        BY DEF LinkRow
    <2>5. links \in [Id -> LinkRow \cup {NoRow}] /\ Fits(links, Len(one))
        BY <2>2, <2>3 DEF Types
    <2>6. /\ tab \in [Id -> LinkRow \cup {NoRow}]
          /\ Rows(links) \subseteq Rows(tab)
          /\ \A q \in Rows(links) : tab[q] = links[q]
          /\ \A q \in Rows(tab) \ Rows(links) :
                 \E i \in 1 .. Len(one) : q = NextId(Rows(links)) + i - 1 /\ tab[q] = one[i]
        BY <2>3, <2>4, <2>5, InsertRows, Zenon
    <2>. HIDE DEF tab
    <2>7. \A q \in Rows(tab) \ Rows(links) : tab[q].sub = s
        BY <2>1, <2>3, <2>6
    <2>8. {} \in SUBSET Id
        OBVIOUS
    <2>9. \A l \in Rows(links) : /\ l \in Rows(tab) /\ tab[l].sub = links[l].sub
                                 /\ tab[l] = links[l] \/ (l \in {} /\ links[l].sub = s)
        BY <2>6
    <2>. QED BY <2>2, <2>6, <2>7, <2>8, <2>9, Zenon
<1>2. CASE ReplyMetadata(s, u)
    <2>. DEFINE primary == {l \in Of(links, s) : \A k \in Of(links, s) : l <= k}
                New(l) == [links[l] EXCEPT !.url = u, !.meta = None]
                tab == [l \in Id |-> IF l \in primary THEN New(l) ELSE links[l]]
    <2>1. ResolveInSession(s, tab, primary)
        BY <1>2, Zenon DEF ReplyMetadata
    <2>2. \A x \in LinkRow : [x EXCEPT !.url = u] \in LinkRow
        BY DEF LinkRow
    <2>3. \A x \in LinkRow : [x EXCEPT !.meta = None] \in LinkRow
        BY DEF LinkRow
    <2>4. \A l \in primary : l \in Id /\ links[l] \in LinkRow /\ links[l].sub = s
        BY DEF Of, Rows, Types
    <2>5. \A l \in primary : New(l) \in LinkRow /\ New(l).sub = s
        BY <2>2, <2>3, <2>4 DEF LinkRow
    <2>. HIDE DEF primary, New
    <2>6. tab \in [Id -> LinkRow \cup {NoRow}]
        BY <2>5 DEF Types
    <2>7. \A l \in primary : tab[l] # NoRow /\ tab[l].sub = s
        BY <1>0, <2>4, <2>5, IdsAreNumbers DEF NoRow
    <2>8. \A l \in Id \ primary : tab[l] = links[l]
        OBVIOUS
    <2>. HIDE DEF tab
    <2>9. primary \in SUBSET Id
        BY <2>4
    <2>10. \A l \in Rows(links) : /\ l \in Rows(tab) /\ tab[l].sub = links[l].sub
                                  /\ tab[l] = links[l] \/ (l \in primary /\ links[l].sub = s)
        BY <2>4, <2>7, <2>8 DEF Rows
    <2>11. \A l \in Rows(tab) \ Rows(links) : tab[l].sub = s
        BY <2>7, <2>8 DEF Rows
    <2>. QED BY <2>1, <2>6, <2>9, <2>10, <2>11, Zenon
<1>. QED BY <1>1, <1>2

\* What a reply that commits makes of the links.
Relinked(tab, outs, new) ==
    /\ new \in [Id -> LinkRow \cup {NoRow}] /\ Rows(new) = Rows(tab)
    /\ \A l \in Rows(tab) :
           /\ new[l].sub = tab[l].sub /\ new[l].url = tab[l].url
           /\ \/ new[l] = tab[l] /\ \A o \in outs : o.id # l
              \/ \E o \in outs : o.id = l /\ new[l].meta = o.url /\ new[l].uri = o.uri

LEMMA ResolvedLinks ==
    ASSUME NEW tab \in [Id -> LinkRow \cup {NoRow}], NEW outs, outs \subseteq OutcomeRow
    PROVE  Relinked(tab, outs, Resolution(tab, outs))
<1>. DEFINE new == Resolution(tab, outs)
<1>0. new = [l \in Id |-> IF tab[l] # NoRow /\ \E o \in outs : o.id = l
                          THEN Resolved(tab[l], CHOOSE o \in outs : o.id = l, FALSE)
                          ELSE tab[l]]
    BY DEF Resolution
<1>. HIDE DEF new
<1>. DEFINE The(l) == CHOOSE o \in outs : o.id = l
            In(l) == \E o \in outs : o.id = l
<1>1. \A l \in Id : In(l) => The(l) \in outs /\ The(l).id = l
    BY Zenon
<1>2. \A l \in Id : new[l] = IF tab[l] # NoRow /\ In(l) THEN Resolved(tab[l], The(l), FALSE) ELSE tab[l]
    BY <1>0
<1>3. DOMAIN new = Id /\ new = [l \in Id |-> new[l]]
    BY <1>0, Zenon
<1>. HIDE DEF The
<1>4. ASSUME NEW l \in Id, tab[l] # NoRow, In(l)
      PROVE  /\ new[l] \in LinkRow
             /\ new[l] = [sub |-> tab[l].sub, url |-> tab[l].url, meta |-> The(l).url,
                          uri |-> The(l).uri, stray |-> FALSE]
    <2>1. The(l) \in OutcomeRow /\ FALSE \in BOOLEAN
        BY <1>1, <1>4
    <2>2. /\ Resolved(tab[l], The(l), FALSE) \in LinkRow
          /\ Resolved(tab[l], The(l), FALSE)
                 = [sub |-> tab[l].sub, url |-> tab[l].url, meta |-> The(l).url,
                    uri |-> The(l).uri, stray |-> FALSE]
        BY <1>4, <2>1, WrittenBack, Zenon
    <2>. QED BY <1>2, <1>4, <2>2
<1>. HIDE DEF In
<1>5. \A x \in LinkRow : x # NoRow
    BY IdsAreNumbers DEF LinkRow, NoRow
<1>6. \A l \in Id : new[l] \in LinkRow \cup {NoRow} /\ (new[l] = NoRow <=> tab[l] = NoRow)
    BY <1>2, <1>4, <1>5
<1>7. new \in [Id -> LinkRow \cup {NoRow}]
    BY <1>3, <1>6
<1>8. Rows(new) = Rows(tab)
    BY <1>6 DEF Rows
<1>9. ASSUME NEW l \in Rows(tab)
      PROVE  /\ new[l].sub = tab[l].sub /\ new[l].url = tab[l].url
             /\ \/ new[l] = tab[l] /\ \A o \in outs : o.id # l
                \/ \E o \in outs : o.id = l /\ new[l].meta = o.url /\ new[l].uri = o.uri
    <2>1. l \in Id /\ tab[l] # NoRow
        BY DEF Rows
    <2>2. CASE In(l)
        <3>1. new[l] = [sub |-> tab[l].sub, url |-> tab[l].url, meta |-> The(l).url,
                        uri |-> The(l).uri, stray |-> FALSE]
            BY <1>4, <2>1, <2>2
        <3>2. /\ new[l].sub = tab[l].sub /\ new[l].url = tab[l].url
              /\ new[l].meta = The(l).url /\ new[l].uri = The(l).uri
            BY <3>1
        <3>. QED BY <1>1, <2>1, <2>2, <3>2, Zenon
    <2>3. CASE ~In(l)
        BY <1>2, <2>1, <2>3 DEF In
    <2>. QED BY <2>2, <2>3
<1>. QED BY <1>7, <1>8, <1>9 DEF Relinked, new

LEMMA RepliedOnto ==
    ASSUME NEW s, NEW tab \in [Id -> LinkRow \cup {NoRow}], NEW replaced,
           NEW outs \in SUBSET OutcomeRow, Resolves(s, tab, replaced, outs, TRUE)
    PROVE  Relinked(tab, outs, links')
BY ResolvedLinks DEF Resolves

LEMMA ReplyTypes ==
    ASSUME Types, Reply
    PROVE  Types'
<1>1. PICK s \in Live : \/ \E f \in Supplied \cap File : ReplyFile(s, f)
                        \/ \E u \in Supplied \cap Url : ReplyLink(s, u) \/ ReplyMetadata(s, u)
    BY DEF Reply
<1>2. s \in Id
    BY DEF Live
<1>3. left' \in [{"handlers", "events"} -> Nat]
    BY DEF Reply, Spend, Types
<1>4. UNCHANGED <<content, subs, lock, answered>>
    BY DEF Reply
<1>5. ASSUME NEW f \in Supplied \cap File, ReplyFile(s, f)
      PROVE  Types'
    <2>1. UNCHANGED <<links, task>> /\ dirs' = dirs \cup {s}
        BY <1>5 DEF ReplyFile
    <2>2. PICK stored, commits \in BOOLEAN :
              /\ IF stored THEN Write(FilePath(s, NextId(Rows(atts))), f, ~commits) ELSE UNCHANGED disk
              /\ ~commits => UNCHANGED atts
              /\ commits => atts' \in [Id -> AttachmentRow \cup {NoRow}]
        BY <1>2, <1>5, ReplyFileEffect
    <2>3. FilePath(s, NextId(Rows(atts)))[1] = s
        BY DEF FilePath
    <2>4. \A p \in DOMAIN disk' : p[1] \in dirs'
        <3>1. UNCHANGED disk \/ DOMAIN disk' = DOMAIN disk \cup {FilePath(s, NextId(Rows(atts)))}
            BY <2>2, WriteKeepsPlaces
        <3>2. s \in dirs' /\ dirs \subseteq dirs'
            BY <2>1
        <3>3. \A p \in DOMAIN disk : p[1] \in dirs
            BY DEF Types
        <3>. QED BY <2>3, <3>1, <3>2, <3>3
    <2>5. atts' \in [Id -> AttachmentRow \cup {NoRow}]
        BY <2>2 DEF Types
    <2>. QED BY <1>2, <1>3, <1>4, <2>1, <2>4, <2>5 DEF Types
<1>6. ASSUME NEW u \in Url, ReplyLink(s, u) \/ ReplyMetadata(s, u)
      PROVE  Types'
    <2>1. PICK tab \in [Id -> LinkRow \cup {NoRow}], replaced \in SUBSET Id :
              ResolveInSession(s, tab, replaced)
        BY <1>6, ReplyCases
    <2>2. PICK outs \in SUBSET OutcomeRow, commits \in BOOLEAN :
              Resolves(s, tab, replaced, outs, commits)
        BY <1>2, <2>1, ResolveEffect
    <2>3. \A p \in DOMAIN disk' : p[1] \in dirs'
        <3>1. \A l : VideoPath(s, l)[1] = s
            BY DEF VideoPath
        <3>2. \/ UNCHANGED disk
              \/ s \in dirs' /\ \E l : DOMAIN disk' = DOMAIN disk \cup {VideoPath(s, l)}
            BY <2>2, WriteKeepsPlaces DEF Resolves
        <3>3. dirs \subseteq dirs'
            BY <2>2 DEF Resolves
        <3>. QED BY <3>1, <3>2, <3>3 DEF Types
    <2>4. dirs' \subseteq Id
        BY <1>2, <2>2 DEF Types, Resolves
    <2>5. links' \in [Id -> LinkRow \cup {NoRow}]
        <3>1. CASE commits
            BY <2>2, <3>1, RepliedOnto DEF Relinked
        <3>2. CASE ~commits
            BY <2>2, <3>2 DEF Types, Resolves
        <3>. QED BY <3>1, <3>2
    <2>6. atts' \in [Id -> AttachmentRow \cup {NoRow}]
        <3>1. CASE commits
            <4>1. /\ atts \in [Id -> AttachmentRow \cup {NoRow}] /\ Fits(atts, 1)
                  /\ atts' = AttachVideo(atts, tab, s, outs, FALSE)
                BY <2>2, <3>1 DEF Types, Resolves
            <4>. QED BY <1>2, <4>1, AttachRows DEF Attaches
        <3>2. CASE ~commits
            BY <2>2, <3>2 DEF Types, Resolves
        <3>. QED BY <3>1, <3>2
    <2>7. task' \in [Task -> TaskRec]
        <3>1. CASE commits
            <4>. DEFINE Old(k) == IF task[k].sub = s THEN task[k].old \cup replaced ELSE task[k].old
            <4>1. \A k \in TaskRec, a \in SUBSET Id : [k EXCEPT !.old = a] \in TaskRec
                BY DEF TaskRec
            <4>2. \A k \in Task : task[k] \in TaskRec /\ Old(k) \in SUBSET Id
                BY DEF Types, TaskRec
            <4>3. task' = [k \in Task |-> [task[k] EXCEPT !.old = Old(k)]]
                BY <2>2, <3>1 DEF Resolves
            <4>. HIDE DEF Old
            <4>4. \A k \in Task : [task[k] EXCEPT !.old = Old(k)] \in TaskRec
                BY <4>1, <4>2
            <4>. QED BY <4>3, <4>4
        <3>2. CASE ~commits
            BY <2>2, <3>2 DEF Types, Resolves
        <3>. QED BY <3>1, <3>2
    <2>. QED BY <1>3, <1>4, <2>3, <2>4, <2>5, <2>6, <2>7 DEF Types
<1>. QED BY <1>1, <1>5, <1>6

LEMMA DescribeEffect ==
    ASSUME Types, NEW r \in Id, Describe(r)
    PROVE  /\ atts' \in [Id -> AttachmentRow \cup {NoRow}] /\ Rows(atts') = Rows(atts) /\ r \in Rows(atts)
           /\ \A q \in Rows(atts) : /\ atts'[q].sub = atts[q].sub /\ atts'[q].file = atts[q].file
                                    /\ atts'[q].path = atts[q].path /\ atts'[q].stray = atts[q].stray
                                    /\ atts'[q].alt = (atts[q].alt \/ q = r)
<1>1. atts[r] \in AttachmentRow /\ r \in Rows(atts)
    BY DEF Describe, Types, Rows
<1>2. \A x \in AttachmentRow :
          LET y == [x EXCEPT !.alt = TRUE] IN
          /\ y \in AttachmentRow /\ y.sub = x.sub /\ y.file = x.file /\ y.path = x.path
          /\ y.stray = x.stray /\ y.alt = TRUE
    BY DEF AttachmentRow
<1>3. atts' = [atts EXCEPT ![r] = [atts[r] EXCEPT !.alt = TRUE]]
    BY DEF Describe
<1>4. \A x \in AttachmentRow : x # NoRow /\ x.alt \in BOOLEAN
    BY IdsAreNumbers DEF AttachmentRow, NoRow
<1>5. atts' \in [Id -> AttachmentRow \cup {NoRow}] /\ Rows(atts') = Rows(atts)
    BY <1>1, <1>2, <1>3, <1>4 DEF Types, Rows
<1>6. \A q \in Rows(atts) : q \in Id /\ atts[q] \in AttachmentRow
    BY DEF Rows, Types
<1>7. /\ atts'[r] = [atts[r] EXCEPT !.alt = TRUE]
      /\ \A q \in Rows(atts) : q # r => atts'[q] = atts[q]
    BY <1>1, <1>3, <1>6 DEF Types
<1>8. /\ atts'[r].sub = atts[r].sub /\ atts'[r].file = atts[r].file
      /\ atts'[r].path = atts[r].path /\ atts'[r].stray = atts[r].stray /\ atts'[r].alt = TRUE
    BY <1>1, <1>2, <1>7
<1>9. \A q \in Rows(atts) : atts[q].alt \in BOOLEAN
    BY <1>4, <1>6
<1>10. \A q \in Rows(atts) : /\ atts'[q].sub = atts[q].sub /\ atts'[q].file = atts[q].file
                             /\ atts'[q].path = atts[q].path /\ atts'[q].stray = atts[q].stray
                             /\ atts'[q].alt = (atts[q].alt \/ q = r)
    BY <1>7, <1>8, <1>9
<1>. QED BY <1>1, <1>5, <1>10

LEMMA RemoveEffect ==
    ASSUME Types, NEW s \in Id, Remove(s)
    PROVE  /\ s \in Live /\ RemoveFiles(s) /\ task' = Cut(s) /\ UNCHANGED <<content, lock>>
           /\ \/ Drop(s)
              \/ /\ UNCHANGED <<subs, links, answered>>
                 /\ atts' \in [Id -> AttachmentRow \cup {NoRow}] /\ Rows(atts') = Rows(atts)
                 /\ \A q \in Rows(atts) :
                        /\ atts'[q].sub = atts[q].sub /\ atts'[q].file = atts[q].file
                        /\ atts'[q].path = atts[q].path /\ atts'[q].alt = atts[q].alt
                        /\ atts'[q].stray = (atts[q].stray \/ atts[q].sub = s)
<1>1. CASE Drop(s)
    BY <1>1 DEF Remove
<1>2. CASE /\ atts' = [r \in Id |-> IF atts[r].sub = s THEN [atts[r] EXCEPT !.stray = TRUE] ELSE atts[r]]
           /\ UNCHANGED <<subs, links, answered>>
    <2>1. \A x \in AttachmentRow :
              LET y == [x EXCEPT !.stray = TRUE] IN
              /\ y \in AttachmentRow /\ y.sub = x.sub /\ y.file = x.file /\ y.path = x.path
              /\ y.alt = x.alt /\ y.stray = TRUE
        BY DEF AttachmentRow
    <2>2. \A x \in AttachmentRow : x # NoRow /\ x.stray \in BOOLEAN
        BY IdsAreNumbers DEF AttachmentRow, NoRow
    <2>3. \A r \in Id : atts[r].sub = s => atts[r] \in AttachmentRow
        BY IdsAreNumbers DEF Types, NoRow
    <2>4. atts' \in [Id -> AttachmentRow \cup {NoRow}] /\ Rows(atts') = Rows(atts)
        BY <1>2, <2>1, <2>2, <2>3 DEF Types, Rows
    <2>5. \A q \in Rows(atts) : q \in Id /\ atts[q] \in AttachmentRow
        BY DEF Rows, Types
    <2>6. \A q \in Rows(atts) : IF atts[q].sub = s THEN atts'[q] = [atts[q] EXCEPT !.stray = TRUE]
                                ELSE atts'[q] = atts[q]
        BY <1>2, <2>5
    <2>7. \A q \in Rows(atts) :
              /\ atts'[q].sub = atts[q].sub /\ atts'[q].file = atts[q].file
              /\ atts'[q].path = atts[q].path /\ atts'[q].alt = atts[q].alt
              /\ atts'[q].stray = (atts[q].stray \/ atts[q].sub = s)
        <3>. SUFFICES ASSUME NEW q \in Rows(atts)
                      PROVE  /\ atts'[q].sub = atts[q].sub /\ atts'[q].file = atts[q].file
                             /\ atts'[q].path = atts[q].path /\ atts'[q].alt = atts[q].alt
                             /\ atts'[q].stray = (atts[q].stray \/ atts[q].sub = s)
            BY Zenon
        <3>1. atts[q] \in AttachmentRow /\ atts[q].stray \in BOOLEAN
            BY <2>2, <2>5
        <3>2. CASE atts[q].sub = s
            <4>1. atts'[q] = [atts[q] EXCEPT !.stray = TRUE]
                BY <2>6, <3>2
            <4>. QED BY <2>1, <3>1, <3>2, <4>1
        <3>3. CASE atts[q].sub # s
            BY <2>6, <3>1, <3>3
        <3>. QED BY <3>2, <3>3
    <2>. QED BY <1>2, <2>4, <2>7 DEF Remove
<1>. QED BY <1>1, <1>2 DEF Remove

LEMMA TypesKept ==
    ASSUME Types, Shape, [Next]_vars
    PROVE  Types'
<1>1. CASE UNCHANGED vars
    BY <1>1 DEF Types, vars, db, vol
<1>2. CASE Reply
    BY <1>2, ReplyTypes
<1>3. ASSUME NEW r \in Id, Describe(r)
      PROVE  Types'
    <2>1. /\ atts' \in [Id -> AttachmentRow \cup {NoRow}] /\ r \in Rows(atts)
        BY <1>3, DescribeEffect
    <2>2. answered' \subseteq Id \X (File \cup Url)
        BY <1>3, <2>1 DEF Describe, Types, Rows, AttachmentRow
    <2>3. left' \in [{"handlers", "events"} -> Nat]
        BY <1>3 DEF Describe, Spend, Types
    <2>. QED BY <1>3, <2>1, <2>2, <2>3 DEF Describe, Types, vol
<1>4. ASSUME NEW s \in Id, Remove(s)
      PROVE  Types'
    <2>1. task' \in [Task -> TaskRec]
        BY <1>4, RemoveEffect, CutTypes
    <2>2. dirs' \subseteq Id /\ \A p \in DOMAIN disk' : p[1] \in dirs'
        <3>1. /\ dirs' = dirs \ {s} /\ DOMAIN disk' = {p \in DOMAIN disk : p[1] # s}
            BY <1>4, RemoveEffect, RemoveFilesEffect
        <3>. QED BY <3>1 DEF Types
    <2>3. left' \in [{"handlers", "events"} -> Nat]
        BY <1>4 DEF Remove, Spend, Types
    <2>4. UNCHANGED <<content, lock>>
        BY <1>4, RemoveEffect
    <2>5. CASE Drop(s)
        BY <2>1, <2>2, <2>3, <2>4, <2>5, DropEffect DEF Types
    <2>6. CASE ~Drop(s)
        BY <1>4, <2>1, <2>2, <2>3, <2>4, <2>6, RemoveEffect DEF Types
    <2>. QED BY <2>5, <2>6
<1>5. ASSUME NEW m \in Message, Edit(m)
      PROVE  Types'
    <2>1. content' \in [Message -> [files : Seq(File), urls : Seq(Url)]]
        BY <1>5, IngestAssumption DEF Edit, Types
    <2>2. left' \in [{"handlers", "events"} -> Nat]
        BY <1>5 DEF Edit, Spend, Types
    <2>. QED BY <1>5, <2>1, <2>2 DEF Edit, Types, db, vol
<1>6. CASE Stop
    <2>1. Blank \in TaskRec
        BY DEF Blank, TaskRec
    <2>2. task' \in [Task -> TaskRec] /\ lock' \in [Message -> Task \cup {None}]
        BY <1>6, <2>1 DEF Stop
    <2>3. answered' \subseteq answered /\ left' \in [{"handlers", "events"} -> Nat]
        BY <1>6 DEF Stop, Spend, Types
    <2>. QED BY <1>6, <2>2, <2>3 DEF Stop, Types, db, vol
<1>. QED BY <1>1, <1>2, <1>3, <1>4, <1>5, <1>6, FetchTypes, EnterTypes, TearDownTypes, SkeletonsTypes,
            GatherFileTypes, GatherLinkTypes, PersistTypes, RestoreTypes, SettleTypes DEF Next

\* The fields of a task that its steps set, and those they leave.
SameJob(n, k) == /\ n.kind = k.kind /\ n.msg = k.msg /\ n.files = k.files /\ n.urls = k.urls
SamePlan(n, k) == n.plan = k.plan /\ n.rows = k.rows /\ n.video = k.video
SameWork(n, k) == n.got = k.got /\ n.todo = k.todo /\ n.outs = k.outs

LEMMA SetPc ==
    ASSUME NEW k \in TaskRec, NEW p
    PROVE  LET n == [k EXCEPT !.pc = p] IN
           /\ SameJob(n, k) /\ SamePlan(n, k) /\ SameWork(n, k)
           /\ n.pc = p /\ n.sub = k.sub /\ n.keep = k.keep /\ n.old = k.old /\ n.cut = k.cut
BY DEF TaskRec, SameJob, SamePlan, SameWork

LEMMA SetCut ==
    ASSUME NEW k \in TaskRec, NEW b
    PROVE  LET n == [k EXCEPT !.cut = b] IN
           /\ SameJob(n, k) /\ SamePlan(n, k) /\ SameWork(n, k)
           /\ n.pc = k.pc /\ n.sub = k.sub /\ n.keep = k.keep /\ n.old = k.old /\ n.cut = b
BY DEF TaskRec, SameJob, SamePlan, SameWork

LEMMA SetOld ==
    ASSUME NEW k \in TaskRec, NEW a
    PROVE  LET n == [k EXCEPT !.old = a] IN
           /\ SameJob(n, k) /\ SamePlan(n, k) /\ SameWork(n, k)
           /\ n.pc = k.pc /\ n.sub = k.sub /\ n.keep = k.keep /\ n.old = a /\ n.cut = k.cut
BY DEF TaskRec, SameJob, SamePlan, SameWork

LEMMA FitSame ==
    ASSUME NEW n, NEW k, SameJob(n, k), SamePlan(n, k), SameWork(n, k), n.pc = k.pc, n.sub = k.sub,
           n.keep = k.keep, Fit(k)
    PROVE  Fit(n)
BY DEF Fit, SameJob, SamePlan, SameWork

LEMMA BlankFit == Blank \in TaskRec /\ Fit(Blank) /\ Blank.sub = 0 /\ Blank.pc = "idle" /\ Blank.keep = {}
                  /\ Blank.cut = FALSE
BY DEF Blank, TaskRec, Fit, Working

\* What a step makes of the task that takes it, and of the others.
Others(t) == \A k \in Task \ {t} : task'[k] = task[k]
Advanced(t) ==
    \/ Finish(t)
    \/ /\ Others(t)
       /\ LET n == task'[t]  k == task[t] IN
          /\ SameJob(n, k) /\ n.sub = k.sub /\ n.keep = k.keep /\ n.cut = k.cut
          /\ Fit(n) /\ {n.pc, k.pc} \subseteq Working \ {"teardown"} /\ UNCHANGED lock

LEMMA FinishTask ==
    ASSUME Types, NEW t \in Task, Finish(t)
    PROVE  Others(t) /\ task'[t] = Blank
BY DEF Finish, Others, Types

LEMMA SkeletonsTask ==
    ASSUME Types, Shape, NEW t \in Task, Skeletons(t)
    PROVE  /\ Advanced(t) /\ Others(t) /\ UNCHANGED lock /\ task'[t].got = {} /\ task'[t].outs = {}
           /\ task[t].sub \in Live =>
                /\ task'[t].pc = "gather" /\ task'[t].old = {}
                /\ task'[t].rows = {[id |-> r, file |-> atts'[r].file] : r \in Rows(atts') \ Rows(atts)}
                /\ task'[t].plan = {[id |-> l, url |-> links'[l].url] : l \in Of(links', task[t].sub)}
                /\ task'[t].video = HasVideo(atts', task[t].sub)
           /\ task[t].sub \notin Live => /\ UNCHANGED <<atts, links>> /\ task'[t].pc = "close"
<1>. DEFINE s == task[t].sub
            rows == {[id |-> r, file |-> atts'[r].file] : r \in Rows(atts') \ Rows(atts)}
            plan == {[id |-> l, url |-> links'[l].url] : l \in Of(links', s)}
            video == HasVideo(atts', s)
<1>0. task \in [Task -> TaskRec] /\ task[t] \in TaskRec /\ Fit(task[t]) /\ UNCHANGED lock
      /\ task[t].pc = "skeletons"
    BY DEF Types, Shape, Fit, Skeletons
<1>. HIDE DEF rows, plan, video
<1>1. CASE s \in Live
    <2>1. task' = [task EXCEPT ![t].pc = "gather", ![t].rows = rows, ![t].todo = rows,
                               ![t].plan = plan, ![t].video = video, ![t].old = {}]
        BY <1>1, Zenon DEF Skeletons, rows, plan, video
    <2>. DEFINE n == [task[t] EXCEPT !.pc = "gather", !.rows = rows, !.todo = rows, !.plan = plan,
                                     !.video = video, !.old = {}]
    <2>2. task'[t] = n
        BY <1>0, <2>1, Zenon
    <2>3. Others(t)
        BY <1>0, <2>1, Zenon DEF Others
    <2>4. /\ SameJob(n, task[t]) /\ n.pc = "gather" /\ n.sub = task[t].sub
          /\ n.keep = task[t].keep /\ n.cut = task[t].cut
          /\ n.rows = rows /\ n.todo = rows /\ n.plan = plan /\ n.video = video /\ n.old = {}
          /\ n.got = task[t].got /\ n.outs = task[t].outs
        BY <1>0 DEF TaskRec, SameJob
    <2>. HIDE DEF n
    <2>5. Fit(task'[t]) /\ task'[t].got = {} /\ task'[t].outs = {}
        BY <1>0, <2>2, <2>4 DEF Fit, SameJob, Working
    <2>6. Advanced(t)
        BY <1>0, <2>2, <2>3, <2>4, <2>5 DEF Advanced, Working
    <2>. QED BY <1>0, <1>1, <2>2, <2>3, <2>4, <2>5, <2>6 DEF rows, plan, video
<1>2. CASE s \notin Live
    <2>1. task' = [task EXCEPT ![t].pc = "close"] /\ UNCHANGED <<atts, links>>
        BY <1>2 DEF Skeletons
    <2>. DEFINE n == [task[t] EXCEPT !.pc = "close"]
    <2>2. task'[t] = n
        BY <1>0, <2>1, Zenon
    <2>3. Others(t)
        BY <1>0, <2>1, Zenon DEF Others
    <2>4. /\ SameJob(n, task[t]) /\ SamePlan(n, task[t]) /\ SameWork(n, task[t])
          /\ n.pc = "close" /\ n.sub = task[t].sub /\ n.keep = task[t].keep /\ n.old = task[t].old
          /\ n.cut = task[t].cut
        BY <1>0, SetPc
    <2>. HIDE DEF n
    <2>5. Fit(task'[t]) /\ task'[t].got = {} /\ task'[t].outs = {}
        BY <1>0, <2>2, <2>4 DEF Fit, SameJob, SamePlan, SameWork, Working
    <2>6. Advanced(t)
        BY <1>0, <2>2, <2>3, <2>4, <2>5 DEF Advanced, Working
    <2>. QED BY <1>0, <1>2, <2>1, <2>2, <2>3, <2>4, <2>5, <2>6
<1>. QED BY <1>1, <1>2

LEMMA GatherFileTask ==
    ASSUME Types, Shape, NEW t \in Task, GatherFile(t)
    PROVE  /\ Advanced(t) /\ Others(t) /\ UNCHANGED lock
           /\ task'[t].pc = "gather" /\ task[t].pc = "gather" /\ SamePlan(task'[t], task[t])
           /\ task'[t].outs = task[t].outs /\ task'[t].old = task[t].old
           /\ \E a \in task[t].todo :
                  \/ /\ task'[t].got = task[t].got \cup {a} /\ task[t].sub \in dirs
                     /\ Write(FilePath(task[t].sub, a.id), a.file, task[t].cut)
                  \/ task'[t].got = task[t].got /\ UNCHANGED disk
<1>1. PICK a \in task[t].todo :
          \/ /\ task[t].sub \in dirs
             /\ Write(FilePath(task[t].sub, a.id), a.file, task[t].cut)
             /\ task' = [task EXCEPT ![t].todo = @ \ {a}, ![t].got = @ \cup {a}]
          \/ task' = [task EXCEPT ![t].todo = @ \ {a}] /\ UNCHANGED disk
    BY DEF GatherFile
<1>2. task \in [Task -> TaskRec] /\ task[t] \in TaskRec /\ Fit(task[t]) /\ UNCHANGED lock
      /\ task[t].pc = "gather"
    BY DEF Types, Shape, GatherFile
<1>. DEFINE n == [task[t] EXCEPT !.todo = task[t].todo \ {a}, !.got = task[t].got \cup {a}]
            m == [task[t] EXCEPT !.todo = task[t].todo \ {a}]
<1>3. CASE /\ task[t].sub \in dirs /\ Write(FilePath(task[t].sub, a.id), a.file, task[t].cut)
           /\ task' = [task EXCEPT ![t].todo = @ \ {a}, ![t].got = @ \cup {a}]
    <2>1. task'[t] = n /\ Others(t)
        BY <1>2, <1>3, Zenon DEF Others
    <2>2. /\ SameJob(n, task[t]) /\ SamePlan(n, task[t]) /\ n.got = task[t].got \cup {a}
          /\ n.todo = task[t].todo \ {a} /\ n.outs = task[t].outs
          /\ n.pc = task[t].pc /\ n.sub = task[t].sub /\ n.keep = task[t].keep
          /\ n.old = task[t].old /\ n.cut = task[t].cut
        BY <1>2 DEF TaskRec, SameJob, SamePlan
    <2>. HIDE DEF n
    <2>3. Fit(task'[t])
        BY <1>2, <2>1, <2>2 DEF Fit, SameJob, SamePlan
    <2>4. Advanced(t)
        BY <1>2, <2>1, <2>2, <2>3 DEF Advanced, Working
    <2>. QED BY <1>2, <1>3, <2>1, <2>2, <2>4
<1>4. CASE task' = [task EXCEPT ![t].todo = @ \ {a}] /\ UNCHANGED disk
    <2>1. task'[t] = m /\ Others(t)
        BY <1>2, <1>4, Zenon DEF Others
    <2>2. /\ SameJob(m, task[t]) /\ SamePlan(m, task[t]) /\ m.got = task[t].got
          /\ m.todo = task[t].todo \ {a} /\ m.outs = task[t].outs
          /\ m.pc = task[t].pc /\ m.sub = task[t].sub /\ m.keep = task[t].keep
          /\ m.old = task[t].old /\ m.cut = task[t].cut
        BY <1>2 DEF TaskRec, SameJob, SamePlan
    <2>. HIDE DEF m
    <2>3. Fit(task'[t])
        BY <1>2, <2>1, <2>2 DEF Fit, SameJob, SamePlan
    <2>4. Advanced(t)
        BY <1>2, <2>1, <2>2, <2>3 DEF Advanced, Working
    <2>. QED BY <1>2, <1>4, <2>1, <2>2, <2>4
<1>. QED BY <1>1, <1>3, <1>4

LEMMA GatherLinkTask ==
    ASSUME Types, Shape, NEW t \in Task, GatherLink(t)
    PROVE  /\ Advanced(t) /\ Others(t) /\ UNCHANGED lock
           /\ task'[t].pc = "gather" /\ task[t].pc = "gather" /\ SamePlan(task'[t], task[t])
           /\ task'[t].got = task[t].got /\ task'[t].old = task[t].old
           /\ \E l \in task[t].plan, o \in OutcomeRow :
                  /\ o.id = l.id /\ o.url = l.url /\ task'[t].outs = task[t].outs \cup {o}
                  /\ o.video => l = Primary(task[t].plan) /\ ~task[t].video
                  /\ IF o.video THEN Write(VideoPath(task[t].sub, l.id), l.url, Outdated(t, l))
                     ELSE UNCHANGED disk
<1>1. PICK l \in task[t].plan, o \in OutcomeRow :
          /\ o.id = l.id /\ o.url = l.url /\ o.uri \in {None, l.url}
          /\ o.video => l = Primary(task[t].plan) /\ ~task[t].video
          /\ IF o.video THEN Write(VideoPath(task[t].sub, l.id), l.url, Outdated(t, l))
             ELSE UNCHANGED disk
          /\ task' = [task EXCEPT ![t].outs = task[t].outs \cup {o}]
    BY GatherLinkOutcome
<1>2. task \in [Task -> TaskRec] /\ task[t] \in TaskRec /\ Fit(task[t]) /\ UNCHANGED lock
      /\ task[t].pc = "gather"
    BY DEF Types, Shape, GatherLink
<1>. DEFINE n == [task[t] EXCEPT !.outs = task[t].outs \cup {o}]
<1>3. task'[t] = n /\ Others(t)
    BY <1>1, <1>2, Zenon DEF Others
<1>4. /\ SameJob(n, task[t]) /\ SamePlan(n, task[t]) /\ n.got = task[t].got
      /\ n.todo = task[t].todo /\ n.outs = task[t].outs \cup {o}
      /\ n.pc = task[t].pc /\ n.sub = task[t].sub /\ n.keep = task[t].keep
      /\ n.old = task[t].old /\ n.cut = task[t].cut
    BY <1>2 DEF TaskRec, SameJob, SamePlan
<1>. HIDE DEF n
<1>5. Fit(task'[t])
    BY <1>1, <1>2, <1>3, <1>4 DEF Fit, SameJob, SamePlan
<1>6. Advanced(t)
    BY <1>2, <1>3, <1>4, <1>5 DEF Advanced, Working
<1>. QED BY <1>1, <1>2, <1>3, <1>4, <1>6

LEMMA PersistTask ==
    ASSUME Types, Shape, NEW t \in Task, Persist(t)
    PROVE  /\ Advanced(t) /\ Others(t) /\ UNCHANGED lock
           /\ task'[t].pc = "close" /\ task[t].pc = "gather"
<1>2. task \in [Task -> TaskRec] /\ task[t] \in TaskRec /\ Fit(task[t]) /\ UNCHANGED lock
      /\ task[t].pc = "gather" /\ task' = [task EXCEPT ![t].pc = "close"]
    BY DEF Types, Shape, Persist
<1>. DEFINE n == [task[t] EXCEPT !.pc = "close"]
<1>3. task'[t] = n /\ Others(t)
    BY <1>2, Zenon DEF Others
<1>4. /\ SameJob(n, task[t]) /\ SamePlan(n, task[t]) /\ SameWork(n, task[t])
      /\ n.pc = "close" /\ n.sub = task[t].sub /\ n.keep = task[t].keep
      /\ n.old = task[t].old /\ n.cut = task[t].cut
    BY <1>2, SetPc
<1>. HIDE DEF n
<1>5. Fit(task'[t])
    BY <1>2, <1>3, <1>4 DEF Fit, SameJob, SamePlan, SameWork, Working
<1>6. Advanced(t)
    BY <1>2, <1>3, <1>4, <1>5 DEF Advanced, Working
<1>. QED BY <1>2, <1>3, <1>4, <1>6

\* A task that only loses its claim.
Recut(n, k) == /\ SameJob(n, k) /\ SamePlan(n, k) /\ SameWork(n, k) /\ n.pc = k.pc
               /\ n.sub = k.sub /\ n.keep = k.keep /\ n.old = k.old /\ (k.cut => n.cut)

LEMMA CutTask ==
    ASSUME Types, NEW s, NEW k \in Task
    PROVE  Recut(Cut(s)[k], task[k]) /\ Cut(s)[k].cut = (task[k].cut \/ task[k].sub = s)
<1>1. task[k] \in TaskRec /\ Cut(s)[k] = [task[k] EXCEPT !.cut = task[k].cut \/ task[k].sub = s]
    BY CutTypes DEF Types
<1>. DEFINE n == [task[k] EXCEPT !.cut = task[k].cut \/ task[k].sub = s]
<1>2. /\ SameJob(n, task[k]) /\ SamePlan(n, task[k]) /\ SameWork(n, task[k])
      /\ n.pc = task[k].pc /\ n.sub = task[k].sub /\ n.keep = task[k].keep
      /\ n.old = task[k].old /\ n.cut = (task[k].cut \/ task[k].sub = s)
    BY <1>1, SetCut
<1>. HIDE DEF n
<1>3. Cut(s)[k] = n
    BY <1>1 DEF n
<1>. QED BY <1>2, <1>3 DEF Recut

LEMMA RecutSelf == ASSUME NEW k PROVE Recut(k, k)
BY DEF Recut, SameJob, SamePlan, SameWork

LEMMA RecutFit == ASSUME NEW n, NEW k, Recut(n, k), Fit(k) PROVE Fit(n)
BY FitSame DEF Recut

LEMMA TearDownTask ==
    ASSUME Types, Shape, NEW t \in Task, TearDown(t), task[t].sub \in Live
    PROVE  /\ \A k \in Task \ {t} : /\ Recut(task'[k], task[k])
                                    /\ task'[k].cut = (task[k].cut \/ (task[t].cut /\ task[k].sub = task[t].sub))
           /\ LET n == task'[t]  k == task[t] IN
              /\ SameJob(n, k) /\ n.sub = k.sub /\ n.keep = Described(task[t].sub)
              /\ n.cut = k.cut /\ Fit(n) /\ n.pc = "skeletons" /\ k.pc = "teardown"
           /\ UNCHANGED lock
<1>. DEFINE s == task[t].sub
            base == IF task[t].cut THEN Cut(s) ELSE task
            b == base[t]
            n == [b EXCEPT !.pc = "skeletons", !.keep = Described(s)]
<1>1. base \in [Task -> TaskRec]
    BY CutTypes DEF Types
<1>2. \A k \in Task : /\ Recut(base[k], task[k])
                      /\ base[k].cut = (task[k].cut \/ (task[t].cut /\ task[k].sub = task[t].sub))
    <2>1. CASE task[t].cut
        BY <2>1, CutTask
    <2>2. CASE ~task[t].cut
        <3>1. \A k \in Task : task[k].cut \in BOOLEAN
            BY DEF Types, TaskRec
        <3>. QED BY <2>2, <3>1, RecutSelf
    <2>. QED BY <2>1, <2>2
<1>3. task' = [base EXCEPT ![t].pc = "skeletons", ![t].keep = Described(s)]
    BY Zenon DEF TearDown
<1>4. UNCHANGED lock /\ task[t].pc = "teardown"
    BY DEF TearDown
<1>. HIDE DEF base
<1>5. task'[t] = n /\ \A k \in Task \ {t} : task'[k] = base[k]
    BY <1>1, <1>3, Zenon
<1>6. /\ SameJob(n, b) /\ SamePlan(n, b) /\ SameWork(n, b)
      /\ n.pc = "skeletons" /\ n.sub = b.sub /\ n.keep = Described(s) /\ n.old = b.old /\ n.cut = b.cut
    BY <1>1 DEF TaskRec, SameJob, SamePlan, SameWork
<1>. HIDE DEF n
<1>7. Recut(b, task[t]) /\ b.cut = task[t].cut /\ Fit(task[t])
    <2>1. task[t].cut \in BOOLEAN
        BY DEF Types, TaskRec
    <2>. QED BY <1>2, <2>1 DEF Shape
<1>. HIDE DEF b
<1>8. task[t].kind = "reingest"
    BY <1>4, <1>7 DEF Fit
<1>9. SameJob(n, task[t]) /\ n.sub = task[t].sub /\ n.cut = task[t].cut
    BY <1>6, <1>7 DEF Recut, SameJob
<1>10. Fit(n)
    BY <1>4, <1>6, <1>7, <1>8, <1>9 DEF Recut, SameJob, SamePlan, SameWork, Fit, Working
<1>. QED BY <1>2, <1>4, <1>5, <1>6, <1>9, <1>10

\* The locks stay right when each task goes on within its own, or leaves it.
LEMMA HeldStep ==
    ASSUME Types, Shape, Held,
           \A k \in Task :
               LET n == task'[k]  o == task[k] IN
               \/ /\ n.msg = o.msg /\ n.sub = o.sub /\ (n.pc \in Working <=> o.pc \in Working)
                  /\ (o.cut => n.cut) /\ (o.pc \in Working => lock'[o.msg] = lock[o.msg])
               \/ n.pc \notin Working /\ \A m \in Message : lock'[m] # k,
           \A m \in Message : lock'[m] \in {lock[m], None},
           \A s \in Id : \/ subs'[s] = subs[s]
                         \/ /\ subs'[s] = None
                            /\ \A k \in Task : task'[k].pc \in Working /\ task'[k].sub = s => task'[k].cut,
           UNCHANGED content \/ \E m \in Message : Edit(m)
    PROVE  Held'
<1>1. \A k \in Task : task'[k].pc \in Working =>
          /\ task'[k].msg = task[k].msg /\ task'[k].sub = task[k].sub /\ task[k].pc \in Working
          /\ lock'[task'[k].msg] = k /\ (task[k].cut => task'[k].cut)
    BY DEF Held
<1>2. \A m \in Message : lock'[m] # None => /\ task'[lock'[m]].pc \in Working
                                            /\ task'[lock'[m]].msg = m
    <2>. SUFFICES ASSUME NEW m \in Message, lock'[m] # None
                  PROVE  task'[lock'[m]].pc \in Working /\ task'[lock'[m]].msg = m
        OBVIOUS
    <2>1. lock'[m] = lock[m] /\ lock[m] \in Task
        BY DEF Types
    <2>2. task[lock[m]].pc \in Working /\ task[lock[m]].msg = m
        BY <2>1 DEF Held
    <2>. QED BY <2>1, <2>2
<1>3. \A k \in Task : task'[k].pc \in Working /\ ~task'[k].cut => subs'[task'[k].sub] = task'[k].msg
    <2>. SUFFICES ASSUME NEW k \in Task, task'[k].pc \in Working, ~task'[k].cut
                  PROVE  subs'[task'[k].sub] = task'[k].msg
        OBVIOUS
    <2>1. subs[task[k].sub] = task[k].msg /\ task[k].pc \in Working
        BY <1>1 DEF Held
    <2>2. task[k].sub \in Id /\ task'[k].sub = task[k].sub
        BY <1>1, <2>1 DEF Types, TaskRec, Shape, Fit
    <2>. QED BY <1>1, <2>1, <2>2
<1>4. \A s1, s2 \in Live' : subs'[s1] = subs'[s2] => s1 = s2
    BY DEF Held, Live
<1>5. \A m \in Message : content'[m].files \in {Content[m].files, Edited[m].files}
    <2>1. \A m \in Message : content[m].files \in {Content[m].files, Edited[m].files}
        BY DEF Held
    <2>2. \A m \in Message : content'[m] \in {content[m], Edited[m]}
        BY DEF Edit, Types
    <2>. QED BY <2>1, <2>2
<1>. QED BY <1>1, <1>2, <1>3, <1>4, <1>5 DEF Held

LEMMA AdvancedHeld ==
    ASSUME Types, Shape, Held, NEW t \in Task, Others(t), Advanced(t), UNCHANGED <<subs, content>>
    PROVE  Shape' /\ Held'
<1>1. CASE Finish(t)
    <2>1. task'[t] = Blank /\ \A m \in Message : lock'[m] = IF lock[m] = t THEN None ELSE lock[m]
        BY <1>1, FinishTask DEF Finish
    <2>2. Shape'
        BY <2>1, BlankFit DEF Others, Shape
    <2>3. t # None
        BY IngestAssumption
    <2>4. \A k \in Task \ {t} : task[k].pc \in Working => lock'[task[k].msg] = lock[task[k].msg]
        <3>1. \A k \in Task \ {t} : task[k].pc \in Working =>
                  task[k].msg \in Message /\ lock[task[k].msg] = k
            BY DEF Held, Shape, Fit, Working
        <3>. QED BY <2>1, <3>1
    <2>5. \A k \in Task :
              LET n == task'[k]  o == task[k] IN
              \/ /\ n.msg = o.msg /\ n.sub = o.sub /\ (n.pc \in Working <=> o.pc \in Working)
                 /\ (o.cut => n.cut) /\ (o.pc \in Working => lock'[o.msg] = lock[o.msg])
              \/ n.pc \notin Working /\ \A m \in Message : lock'[m] # k
        BY <2>1, <2>3, <2>4, BlankFit DEF Others, Working
    <2>6. Held'
        BY <2>1, <2>5, HeldStep
    <2>. QED BY <2>2, <2>6
<1>2. CASE ~Finish(t)
    <2>1. /\ SameJob(task'[t], task[t]) /\ task'[t].sub = task[t].sub /\ task'[t].cut = task[t].cut
          /\ Fit(task'[t]) /\ task'[t].pc \in Working /\ task[t].pc \in Working /\ UNCHANGED lock
        BY <1>2 DEF Advanced
    <2>2. Shape'
        BY <2>1 DEF Others, Shape
    <2>3. \A k \in Task :
              LET n == task'[k]  o == task[k] IN
              \/ /\ n.msg = o.msg /\ n.sub = o.sub /\ (n.pc \in Working <=> o.pc \in Working)
                 /\ (o.cut => n.cut) /\ (o.pc \in Working => lock'[o.msg] = lock[o.msg])
              \/ n.pc \notin Working /\ \A m \in Message : lock'[m] # k
        BY <2>1 DEF Others, SameJob
    <2>4. Held'
        BY <2>1, <2>3, HeldStep
    <2>. QED BY <2>2, <2>4
<1>. QED BY <1>1, <1>2

LEMMA FetchHeld ==
    ASSUME Types, Shape, Held, NEW t \in Task, Fetch(t)
    PROVE  Shape' /\ Held'
<1>1. PICK m \in Message, kind \in {"butterfly", "reingest"} :
          task' = [task EXCEPT ![t] = [Blank EXCEPT !.pc = "wait", !.kind = kind, !.msg = m,
                                         !.files = content[m].files, !.urls = content[m].urls]]
    BY DEF Fetch
<1>. DEFINE n == [Blank EXCEPT !.pc = "wait", !.kind = kind, !.msg = m,
                               !.files = content[m].files, !.urls = content[m].urls]
<1>2. task'[t] = n /\ Others(t)
    BY <1>1, Zenon DEF Types, Others
<1>3. /\ n.pc = "wait" /\ n.msg = m /\ n.files = content[m].files /\ n.sub = 0
      /\ n.keep = {} /\ n.got = {} /\ n.todo = {} /\ n.outs = {}
    BY DEF Blank
<1>. HIDE DEF n
<1>4. Fit(n)
    BY <1>3 DEF Fit, Held, Working
<1>5. Shape'
    BY <1>2, <1>4 DEF Shape, Others
<1>6. UNCHANGED <<lock, subs, content>> /\ \A k \in Message : lock[k] # t
    <2>1. task[t].pc = "idle" /\ UNCHANGED <<lock, subs, content>>
        BY DEF Fetch, db
    <2>2. task[t].pc \notin Working /\ t # None
        BY <2>1, IngestAssumption DEF Working
    <2>. QED BY <2>1, <2>2 DEF Held
<1>7. \A k \in Task :
          LET i == task'[k]  o == task[k] IN
          \/ /\ i.msg = o.msg /\ i.sub = o.sub /\ (i.pc \in Working <=> o.pc \in Working)
             /\ (o.cut => i.cut) /\ (o.pc \in Working => lock'[o.msg] = lock[o.msg])
          \/ i.pc \notin Working /\ \A x \in Message : lock'[x] # k
    BY <1>2, <1>3, <1>6 DEF Others, Working
<1>8. Held'
    BY <1>6, <1>7, HeldStep
<1>. QED BY <1>5, <1>8

\* Who enters finds the lock free, and takes a submission of the message.
LEMMA EnterTask ==
    ASSUME Types, Shape, NEW t \in Task, Enter(t)
    PROVE  /\ Others(t) /\ task[t].pc = "wait" /\ task[t].msg \in Message
           /\ lock[task[t].msg] = None
           /\ \/ Finish(t) /\ UNCHANGED subs
              \/ /\ Fit(task'[t]) /\ SameJob(task'[t], task[t]) /\ task'[t].sub \in Id
                 /\ task'[t].keep = {} /\ task[t].keep = {} /\ task'[t].pc \in {"skeletons", "teardown"}
                 /\ lock' = [lock EXCEPT ![task[t].msg] = t]
                 /\ \/ /\ SubOf(task[t].msg) = {} /\ task'[t].sub = NextId(Live)
                       /\ subs' = [subs EXCEPT ![NextId(Live)] = task[t].msg]
                    \/ /\ task'[t].sub \in SubOf(task[t].msg) /\ UNCHANGED subs
                       /\ task'[t].pc = "teardown"
<1>. DEFINE m == task[t].msg
<1>1. /\ task \in [Task -> TaskRec] /\ task[t] \in TaskRec /\ Fit(task[t])
      /\ task[t].pc = "wait" /\ lock[m] = None
    BY DEF Types, Shape, Enter, MayEnter
<1>2. m \in Message
    BY <1>1 DEF Fit
<1>3. task[t].keep = {} /\ task[t].sub = 0
    BY <1>1 DEF Fit, Working
<1>4. ASSUME NEW s \in Id, NEW p \in {"skeletons", "teardown"},
             task' = [task EXCEPT ![t].pc = p, ![t].sub = s],
             p = "teardown" => task[t].kind = "reingest"
      PROVE  /\ Others(t) /\ Fit(task'[t]) /\ SameJob(task'[t], task[t]) /\ task'[t].sub = s
             /\ task'[t].keep = {} /\ task'[t].pc = p
    <2>. DEFINE n == [task[t] EXCEPT !.pc = p, !.sub = s]
    <2>1. task'[t] = n /\ Others(t)
        BY <1>1, <1>4, Zenon DEF Others
    <2>2. /\ SameJob(n, task[t]) /\ SamePlan(n, task[t]) /\ SameWork(n, task[t])
          /\ n.pc = p /\ n.sub = s /\ n.keep = task[t].keep /\ n.cut = task[t].cut
        BY <1>1 DEF TaskRec, SameJob, SamePlan, SameWork
    <2>. HIDE DEF n
    <2>3. s # 0
        BY IdsAreNumbers
    <2>4. Fit(n)
        BY <1>1, <1>3, <1>4, <2>2, <2>3 DEF Fit, SameJob, SamePlan, SameWork, Working
    <2>. QED BY <1>3, <2>1, <2>2, <2>4
<1>5. CASE Finish(t) /\ UNCHANGED subs
    BY <1>1, <1>2, <1>5, FinishTask
<1>6. CASE /\ task[t].kind = "butterfly" /\ SubOf(m) = {}
           /\ NextId(Live) \in Id
           /\ subs' = [subs EXCEPT ![NextId(Live)] = m]
           /\ task' = [task EXCEPT ![t].pc = "skeletons", ![t].sub = NextId(Live)]
           /\ lock' = [lock EXCEPT ![m] = t]
    <2>1. /\ Others(t) /\ Fit(task'[t]) /\ SameJob(task'[t], task[t]) /\ task'[t].sub = NextId(Live)
          /\ task'[t].keep = {} /\ task'[t].pc = "skeletons"
        BY <1>4, <1>6
    <2>. QED BY <1>1, <1>2, <1>3, <1>6, <2>1
<1>7. CASE /\ task[t].kind = "reingest"
           /\ \E s \in SubOf(m) : task' = [task EXCEPT ![t].pc = "teardown", ![t].sub = s]
           /\ lock' = [lock EXCEPT ![m] = t] /\ UNCHANGED subs
    <2>1. PICK s \in SubOf(m) : task' = [task EXCEPT ![t].pc = "teardown", ![t].sub = s]
        BY <1>7
    <2>2. s \in Id
        BY DEF SubOf, Live
    <2>3. /\ Others(t) /\ Fit(task'[t]) /\ SameJob(task'[t], task[t]) /\ task'[t].sub = s
          /\ task'[t].keep = {} /\ task'[t].pc = "teardown"
        BY <1>4, <1>7, <2>1, <2>2
    <2>. QED BY <1>1, <1>2, <1>3, <1>7, <2>2, <2>3
<1>. QED BY <1>5, <1>6, <1>7 DEF Enter

LEMMA FreeId == \A used \in SUBSET Id : NextId(used) \notin used
<1>. SUFFICES ASSUME NEW used \in SUBSET Id PROVE NextId(used) \notin used
    OBVIOUS
<1>1. NextId(used) \in Nat /\ \A x \in used : x < NextId(used)
    BY NextIdAbove
<1>. QED BY <1>1

LEMMA EnterHeld ==
    ASSUME Types, Shape, Held, NEW t \in Task, Enter(t)
    PROVE  Shape' /\ Held'
<1>. DEFINE m == task[t].msg
<1>1. Others(t) /\ task[t].pc = "wait" /\ m \in Message /\ lock[m] = None /\ UNCHANGED content
    BY EnterTask DEF Enter
<1>2. CASE Finish(t) /\ UNCHANGED subs
    BY <1>1, <1>2, AdvancedHeld DEF Advanced
<1>3. CASE ~(Finish(t) /\ UNCHANGED subs)
    <2>1. /\ Fit(task'[t]) /\ task'[t].msg = m /\ task'[t].sub \in Id
          /\ task'[t].pc \in {"skeletons", "teardown"} /\ lock' = [lock EXCEPT ![m] = t]
          /\ \/ /\ SubOf(m) = {} /\ task'[t].sub = NextId(Live)
                /\ subs' = [subs EXCEPT ![NextId(Live)] = m]
             \/ task'[t].sub \in SubOf(m) /\ UNCHANGED subs
        BY <1>3, EnterTask DEF SameJob
    <2>2. Shape'
        BY <1>1, <2>1 DEF Others, Shape
    <2>3. lock'[m] = t /\ (\A x \in Message \ {m} : lock'[x] = lock[x]) /\ t # None
        BY <1>1, <2>1, IngestAssumption DEF Types
    <2>4. \A k \in Task \ {t} : task[k].pc \in Working => task[k].msg \in Message \ {m}
        BY <1>1, IngestAssumption DEF Held, Shape, Fit, Working
    <2>5. \A k \in Task : task'[k].pc \in Working => lock'[task'[k].msg] = k
        BY <1>1, <2>1, <2>3, <2>4 DEF Others, Held
    <2>6. \A x \in Message : lock'[x] # None => task'[lock'[x]].pc \in Working
                                                /\ task'[lock'[x]].msg = x
        <3>. SUFFICES ASSUME NEW x \in Message, lock'[x] # None
                      PROVE  task'[lock'[x]].pc \in Working /\ task'[lock'[x]].msg = x
            OBVIOUS
        <3>1. CASE x = m
            BY <2>1, <2>3, <3>1 DEF Working
        <3>2. CASE x # m
            <4>1. /\ lock'[x] = lock[x] /\ lock[x] \in Task
                  /\ task[lock[x]].pc \in Working /\ task[lock[x]].msg = x
                BY <2>3, <3>2 DEF Held, Types
            <4>2. lock[x] # t
                BY <1>1, <4>1 DEF Working
            <4>. QED BY <1>1, <4>1, <4>2 DEF Others
        <3>. QED BY <3>1, <3>2
    <2>7. NextId(Live) \notin Live
        BY FreeId DEF Live
    <2>8. \A s \in Live : s \in Id /\ subs'[s] = subs[s]
        BY <2>1, <2>7 DEF Live, Types
    <2>9. subs'[task'[t].sub] = m
        BY <2>1 DEF SubOf, Live, Types
    <2>10. \A k \in Task : task'[k].pc \in Working /\ ~task'[k].cut => subs'[task'[k].sub] = task'[k].msg
        <3>. SUFFICES ASSUME NEW k \in Task, task'[k].pc \in Working, ~task'[k].cut, k # t
                      PROVE  subs'[task'[k].sub] = task'[k].msg
            BY <2>1, <2>9
        <3>1. task'[k] = task[k] /\ subs[task[k].sub] = task[k].msg
            BY <1>1 DEF Others, Held
        <3>2. task[k].sub \in Id /\ task[k].msg \in Message
            BY <3>1 DEF Types, TaskRec, Shape, Fit, Working
        <3>3. task[k].sub \in Live
            BY <3>1, <3>2, IngestAssumption DEF Live
        <3>. QED BY <2>8, <3>1, <3>3
    <2>11. \A s1, s2 \in Live' : subs'[s1] = subs'[s2] => s1 = s2
        <3>1. CASE UNCHANGED subs
            BY <3>1 DEF Held, Live
        <3>2. CASE SubOf(m) = {} /\ subs' = [subs EXCEPT ![NextId(Live)] = m]
            <4>1. \A s \in Live' : s \in Id /\ (s = NextId(Live) \/ (s \in Live /\ subs'[s] = subs[s]))
                BY <3>2 DEF Live, Types
            <4>2. \A s \in Live : subs[s] # m
                BY <3>2 DEF SubOf
            <4>3. NextId(Live) \in Live' => subs'[NextId(Live)] = m
                BY <3>2 DEF Live, Types
            <4>. QED BY <4>1, <4>2, <4>3 DEF Held
        <3>. QED BY <2>1, <3>1, <3>2
    <2>12. Held'
        BY <1>1, <2>5, <2>6, <2>10, <2>11 DEF Held
    <2>. QED BY <2>2, <2>12
<1>. QED BY <1>2, <1>3

\* Tasks that lose their claims, and locks as they are.
LEMMA RecutHeld ==
    ASSUME Types, Shape, Held, NEW s \in Id, task' = Cut(s), UNCHANGED <<lock, content>>,
           subs' = subs \/ (subs' = [subs EXCEPT ![s] = None])
    PROVE  Shape' /\ Held'
<1>1. \A k \in Task : Recut(task'[k], task[k]) /\ task'[k].cut = (task[k].cut \/ task[k].sub = s)
    BY CutTask
<1>2. Shape'
    BY <1>1, RecutFit DEF Shape
<1>3. \A k \in Task :
          LET i == task'[k]  o == task[k] IN
          \/ /\ i.msg = o.msg /\ i.sub = o.sub /\ (i.pc \in Working <=> o.pc \in Working)
             /\ (o.cut => i.cut) /\ (o.pc \in Working => lock'[o.msg] = lock[o.msg])
          \/ i.pc \notin Working /\ \A x \in Message : lock'[x] # k
    BY <1>1 DEF Recut, SameJob
<1>4. \A x \in Id : \/ subs'[x] = subs[x]
                    \/ /\ subs'[x] = None
                       /\ \A k \in Task : task'[k].pc \in Working /\ task'[k].sub = x => task'[k].cut
    <2>1. \A k \in Task : task'[k].sub = s => task'[k].cut
        BY <1>1 DEF Recut
    <2>. QED BY <2>1 DEF Types
<1>5. Held'
    BY <1>3, <1>4, HeldStep
<1>. QED BY <1>2, <1>5

LEMMA TearDownHeld ==
    ASSUME Types, Shape, Held, NEW t \in Task, TearDown(t)
    PROVE  Shape' /\ Held'
<1>. UNCHANGED <<subs, content>>
    BY DEF TearDown
<1>1. CASE task[t].sub \in Live
    <2>1. /\ \A k \in Task \ {t} : Recut(task'[k], task[k])
          /\ SameJob(task'[t], task[t]) /\ task'[t].sub = task[t].sub /\ task'[t].cut = task[t].cut
          /\ Fit(task'[t]) /\ task'[t].pc \in Working /\ task[t].pc \in Working /\ UNCHANGED lock
        BY <1>1, TearDownTask DEF Working
    <2>2. Shape'
        BY <2>1, RecutFit DEF Shape
    <2>3. \A k \in Task :
              LET i == task'[k]  o == task[k] IN
              \/ /\ i.msg = o.msg /\ i.sub = o.sub /\ (i.pc \in Working <=> o.pc \in Working)
                 /\ (o.cut => i.cut) /\ (o.pc \in Working => lock'[o.msg] = lock[o.msg])
              \/ i.pc \notin Working /\ \A x \in Message : lock'[x] # k
        BY <2>1 DEF Recut, SameJob
    <2>4. Held'
        BY <2>1, <2>3, HeldStep
    <2>. QED BY <2>2, <2>4
<1>2. CASE task[t].sub \notin Live
    <2>1. Finish(t)
        BY <1>2 DEF TearDown
    <2>. QED BY <2>1, FinishTask, AdvancedHeld DEF Advanced
<1>. QED BY <1>1, <1>2

LEMMA SettleTask ==
    ASSUME Types, NEW t \in Task, Settle(t)
    PROVE  /\ task'[t] = Blank /\ task[t].pc = "close" /\ task[t].kind = "butterfly"
           /\ \A m \in Message : lock'[m] = IF lock[m] = t THEN None ELSE lock[m]
           /\ \A k \in Task \ {t} : Recut(task'[k], task[k])
           /\ \/ Others(t) /\ UNCHANGED <<db, vol, answered>>
              \/ /\ task[t].sub \in Live /\ Drop(task[t].sub) /\ RemoveFiles(task[t].sub)
                 /\ \A k \in Task \ {t} : /\ task'[k].cut = (task[k].cut \/ task[k].sub = task[t].sub)
<1>. DEFINE s == task[t].sub
<1>1. CASE s \in Live /\ Duplicate(s)
    <2>1. Drop(s) /\ RemoveFiles(s) /\ task' = [Cut(s) EXCEPT ![t] = Blank]
          /\ task[t].pc = "close" /\ task[t].kind = "butterfly"
          /\ lock' = [m \in Message |-> IF lock[m] = t THEN None ELSE lock[m]]
        BY <1>1 DEF Settle
    <2>2. Cut(s) \in [Task -> TaskRec]
        BY CutTypes
    <2>3. task'[t] = Blank /\ \A k \in Task \ {t} : task'[k] = Cut(s)[k]
        BY <2>1, <2>2
    <2>. QED BY <1>1, <2>1, <2>3, CutTask
<1>2. CASE ~(s \in Live /\ Duplicate(s))
    <2>1. Finish(t) /\ UNCHANGED <<db, vol, answered>> /\ task[t].pc = "close" /\ task[t].kind = "butterfly"
        BY <1>2 DEF Settle
    <2>2. task'[t] = Blank /\ Others(t)
        BY <2>1, FinishTask
    <2>3. \A m \in Message : lock'[m] = IF lock[m] = t THEN None ELSE lock[m]
        BY <2>1 DEF Finish
    <2>. QED BY <2>1, <2>2, <2>3, RecutSelf DEF Others
<1>. QED BY <1>1, <1>2

LEMMA SettleHeld ==
    ASSUME Types, Shape, Held, NEW t \in Task, Settle(t)
    PROVE  Shape' /\ Held'
<1>1. /\ task'[t] = Blank
      /\ \A m \in Message : lock'[m] = IF lock[m] = t THEN None ELSE lock[m]
      /\ \A k \in Task \ {t} : Recut(task'[k], task[k])
      /\ UNCHANGED content /\ t # None
    <2>1. t # None /\ UNCHANGED content
        BY IngestAssumption DEF Settle
    <2>. QED BY <2>1, SettleTask
<1>2. Shape'
    BY <1>1, RecutFit, BlankFit DEF Shape
<1>3. \A k \in Task \ {t} : task[k].pc \in Working => lock'[task[k].msg] = lock[task[k].msg]
    <2>1. \A k \in Task \ {t} : task[k].pc \in Working =>
              task[k].msg \in Message /\ lock[task[k].msg] = k
        BY DEF Held, Shape, Fit, Working
    <2>. QED BY <1>1, <2>1
<1>4. \A k \in Task :
          LET n == task'[k]  o == task[k] IN
          \/ /\ n.msg = o.msg /\ n.sub = o.sub /\ (n.pc \in Working <=> o.pc \in Working)
             /\ (o.cut => n.cut) /\ (o.pc \in Working => lock'[o.msg] = lock[o.msg])
          \/ n.pc \notin Working /\ \A m \in Message : lock'[m] # k
    BY <1>1, <1>3, BlankFit DEF Recut, SameJob, Working
<1>5. \A x \in Id : \/ subs'[x] = subs[x]
                    \/ /\ subs'[x] = None
                       /\ \A k \in Task : task'[k].pc \in Working /\ task'[k].sub = x => task'[k].cut
    <2>1. CASE UNCHANGED subs
        BY <2>1
    <2>2. CASE ~UNCHANGED subs
        <3>1. /\ task[t].sub \in Live /\ Drop(task[t].sub)
              /\ \A k \in Task \ {t} : /\ task'[k].cut = (task[k].cut \/ task[k].sub = task[t].sub)
            BY <2>2, SettleTask DEF db
        <3>2. task'[t].pc \notin Working
            BY <1>1, BlankFit DEF Working
        <3>3. task[t].sub \in Id
            BY <3>1 DEF Live
        <3>4. subs'[task[t].sub] = None /\ \A x \in Id \ {task[t].sub} : subs'[x] = subs[x]
            BY <3>1, <3>3, DropEffect
        <3>5. \A k \in Task : task'[k].pc \in Working /\ task'[k].sub = task[t].sub => task'[k].cut
            BY <1>1, <3>1, <3>2 DEF Recut
        <3>. QED BY <3>4, <3>5
    <2>. QED BY <2>1, <2>2
<1>6. Held'
    BY <1>1, <1>4, <1>5, HeldStep
<1>. QED BY <1>2, <1>6

\* Other steps that let the tasks be, but for what their plans know.
LEMMA RecutAll ==
    ASSUME Types, Shape, Held, \A k \in Task : \/ task'[k] = task[k]
                                               \/ \E a : task'[k] = [task[k] EXCEPT !.old = a],
           UNCHANGED <<lock, subs>>, UNCHANGED content \/ \E m \in Message : Edit(m)
    PROVE  Shape' /\ Held'
<1>1. \A k \in Task : /\ SameJob(task'[k], task[k]) /\ task'[k].pc = task[k].pc
                      /\ task'[k].sub = task[k].sub /\ task'[k].cut = task[k].cut /\ Fit(task'[k])
    <2>. SUFFICES ASSUME NEW k \in Task
                  PROVE  /\ SameJob(task'[k], task[k]) /\ task'[k].pc = task[k].pc
                         /\ task'[k].sub = task[k].sub /\ task'[k].cut = task[k].cut /\ Fit(task'[k])
        OBVIOUS
    <2>1. Fit(task[k]) /\ task[k] \in TaskRec
        BY DEF Shape, Types
    <2>2. CASE task'[k] = task[k]
        BY <2>1, <2>2 DEF SameJob
    <2>3. ASSUME NEW a, task'[k] = [task[k] EXCEPT !.old = a]
          PROVE  /\ SameJob(task'[k], task[k]) /\ task'[k].pc = task[k].pc
                 /\ task'[k].sub = task[k].sub /\ task'[k].cut = task[k].cut /\ Fit(task'[k])
        <3>. DEFINE n == [task[k] EXCEPT !.old = a]
        <3>1. /\ SameJob(n, task[k]) /\ SamePlan(n, task[k]) /\ SameWork(n, task[k])
              /\ n.pc = task[k].pc /\ n.sub = task[k].sub /\ n.keep = task[k].keep
              /\ n.old = a /\ n.cut = task[k].cut
            BY <2>1, SetOld
        <3>. HIDE DEF n
        <3>2. task'[k] = n
            BY <2>3 DEF n
        <3>. QED BY <2>1, <3>1, <3>2, FitSame
    <2>. QED BY <2>2, <2>3
<1>2. Shape'
    BY <1>1 DEF Shape
<1>3. \A k \in Task :
          LET n == task'[k]  o == task[k] IN
          \/ /\ n.msg = o.msg /\ n.sub = o.sub /\ (n.pc \in Working <=> o.pc \in Working)
             /\ (o.cut => n.cut) /\ (o.pc \in Working => lock'[o.msg] = lock[o.msg])
          \/ n.pc \notin Working /\ \A m \in Message : lock'[m] # k
    BY <1>1 DEF SameJob
<1>4. Held'
    BY <1>3, HeldStep
<1>. QED BY <1>2, <1>4

\* What a reply makes of the tasks.
LEMMA ReplyTasks ==
    ASSUME Types, Reply
    PROVE  \A k \in Task : \/ task'[k] = task[k]
                           \/ \E a : task'[k] = [task[k] EXCEPT !.old = a]
<1>1. PICK s \in Live : \/ \E f \in Supplied \cap File : ReplyFile(s, f)
                        \/ \E u \in Supplied \cap Url : ReplyLink(s, u) \/ ReplyMetadata(s, u)
    BY DEF Reply
<1>2. ASSUME NEW f, ReplyFile(s, f) PROVE UNCHANGED task
    BY <1>2 DEF ReplyFile
<1>3. ASSUME NEW u \in Url, ReplyLink(s, u) \/ ReplyMetadata(s, u)
      PROVE  \A k \in Task : \/ task'[k] = task[k]
                             \/ \E a : task'[k] = [task[k] EXCEPT !.old = a]
    <2>0. s \in Id
        BY DEF Live
    <2>1. PICK tab \in [Id -> LinkRow \cup {NoRow}], replaced \in SUBSET Id :
              ResolveInSession(s, tab, replaced)
        BY <1>3, ReplyCases
    <2>2. PICK outs \in SUBSET OutcomeRow, commits \in BOOLEAN :
              Resolves(s, tab, replaced, outs, commits)
        BY <2>0, <2>1, ResolveEffect
    <2>. DEFINE Old(k) == IF task[k].sub = s THEN task[k].old \cup replaced ELSE task[k].old
    <2>3. \/ task' = [k \in Task |-> [task[k] EXCEPT !.old = Old(k)]]
          \/ UNCHANGED task
        BY <2>2 DEF Resolves
    <2>. HIDE DEF Old
    <2>. QED BY <2>3, Zenon
<1>. QED BY <1>1, <1>2, <1>3

LEMMA HeldKept ==
    ASSUME Types, Shape, Held, [Next]_vars
    PROVE  Shape' /\ Held'
<1>1. CASE UNCHANGED vars
    <2>1. UNCHANGED <<content, subs, task, lock>>
        BY <1>1 DEF vars, db
    <2>. QED BY <2>1, RecutAll
<1>2. CASE Reply
    BY <1>2, RecutAll, ReplyTasks DEF Reply
<1>3. ASSUME NEW r \in Id, Describe(r)
      PROVE  Shape' /\ Held'
    <2>1. UNCHANGED <<content, subs, task, lock>>
        BY <1>3 DEF Describe
    <2>. QED BY <2>1, RecutAll
<1>4. ASSUME NEW s \in Id, Remove(s)
      PROVE  Shape' /\ Held'
    BY <1>4, RecutHeld DEF Remove, Drop
<1>5. ASSUME NEW m \in Message, Edit(m)
      PROVE  Shape' /\ Held'
    <2>1. UNCHANGED <<subs, task, lock>>
        BY <1>5 DEF Edit, db
    <2>. QED BY <1>5, <2>1, RecutAll
<1>6. CASE Stop
    <2>1. /\ \A k \in Task : task'[k] = Blank
          /\ \A m \in Message : lock'[m] = None
          /\ UNCHANGED <<content, subs>>
        BY <1>6 DEF Stop, db
    <2>2. Shape'
        BY <2>1, BlankFit DEF Shape
    <2>3. Held'
        BY <2>1, BlankFit DEF Held, Working, Live
    <2>. QED BY <2>2, <2>3
<1>7. ASSUME NEW t \in Task,
             Skeletons(t) \/ GatherFile(t) \/ GatherLink(t) \/ Persist(t) \/ Restore(t)
      PROVE  Shape' /\ Held'
    <2>1. UNCHANGED <<subs, content>>
        BY <1>7 DEF Skeletons, GatherFile, GatherLink, Persist, Restore, db
    <2>2. Others(t) /\ Advanced(t)
        <3>1. CASE Restore(t)
            BY <3>1, FinishTask DEF Restore, Advanced
        <3>. QED BY <1>7, <3>1, SkeletonsTask, GatherFileTask, GatherLinkTask, PersistTask
    <2>. QED BY <2>1, <2>2, AdvancedHeld
<1>. QED BY <1>1, <1>2, <1>3, <1>4, <1>5, <1>6, <1>7, FetchHeld, EnterHeld, TearDownHeld, SettleHeld
         DEF Next

Claims == Types /\ Shape /\ Held

LEMMA ClaimsHold == Spec => []Claims
<1>1. Init => Claims
    <2>. SUFFICES ASSUME Init PROVE Claims
        OBVIOUS
    <2>1. \A k \in Task : task[k] = Blank
        BY DEF Init
    <2>2. Shape
        BY <2>1, BlankFit DEF Shape
    <2>3. \A m \in Message : lock[m] = None
        BY DEF Init
    <2>4. Held
        BY <2>1, <2>3, BlankFit DEF Held, Working, Live, Init
    <2>. QED BY <2>2, <2>4, TypesInit DEF Claims
<1>2. Claims /\ [Next]_vars => Claims'
    BY TypesKept, HeldKept DEF Claims
<1>. QED BY <1>1, <1>2, PTL DEF Spec

\* Theorem: in every reachable state the variables have their types, a message has at
\* most one submission, and a task holds a lock exactly while it is at work.
THEOREM IngestTypes == Spec => []TypeOK
<1>1. Claims => TypeOK
    <2>. SUFFICES ASSUME Claims PROVE TypeOK
        OBVIOUS
    <2>1. ASSUME NEW m \in Message PROVE Cardinality(SubOf(m)) <= 1
        <3>1. \A x, y \in SubOf(m) : x = y
            BY DEF Claims, Held, SubOf
        <3>2. CASE SubOf(m) = {}
            BY <3>2, FS_EmptySet
        <3>3. CASE SubOf(m) # {}
            <4>1. PICK x : SubOf(m) = {x}
                BY <3>1, <3>3
            <4>. QED BY <4>1, FS_Singleton
        <3>. QED BY <3>2, <3>3
    <2>2. ASSUME NEW t \in Task
          PROVE  task[t].pc \in {"idle", "wait"} <=> \A m \in Message : lock[m] # t
        <3>1. task[t].pc \in {"idle", "wait"} <=> task[t].pc \notin Working
            BY DEF Claims, Types, TaskRec, Working
        <3>2. task[t].pc \in Working => task[t].msg \in Message /\ lock[task[t].msg] = t
            BY DEF Claims, Shape, Fit, Held, Working
        <3>3. \A m \in Message : lock[m] = t => task[t].pc \in Working
            <4>1. t # None
                BY IngestAssumption
            <4>. QED BY <4>1 DEF Claims, Held
        <3>. QED BY <3>1, <3>2, <3>3
    <2>. QED BY <2>1, <2>2 DEF Claims, Types, TypeOK
<1>. QED BY <1>1, ClaimsHold, PTL

-----------------------------------------------------------------------------
(* The rows.                                                               *)

\* Only videos outlive their submission: an ingest attaches one without asking for it.
Orphans == \A r \in Rows(atts) : atts[r].sub \notin Live => atts[r].file \in Url

\* A submission has a file once, and one video of a link.
OneEach ==
    \A r, q \in Rows(atts) :
        atts[r].sub = atts[q].sub /\ (atts[r].file = atts[q].file \/ {atts[r].file, atts[q].file} \subseteq Url)
        => r = q

\* Before an ingest writes its rows its submission has none of the message's files.
Fresh ==
    \A t \in Task : task[t].pc = "skeletons" =>
        \A r \in Of(atts, task[t].sub) : atts[r].file \notin FilesOf(task[t].msg)

LEMMA MessageFiles ==
    /\ \A m \in Message : FilesOf(m) \subseteq File /\ FilesOf(m) \cap Supplied = {}
    /\ \A m \in Message : \A f \in FilesOf(m) : f \notin Url
    /\ \A m \in Message : \A n \in Message \ {m} : FilesOf(m) \cap FilesOf(n) = {}
    /\ \A m \in Message : \A c \in {Content[m].files, Edited[m].files} :
           /\ c \in Seq(File) /\ \A i \in DOMAIN c : c[i] \in FilesOf(m)
           /\ \A i, j \in DOMAIN c : c[i] = c[j] => i = j
<1>1. \A m \in Message : Content[m].files \in Seq(File) /\ Edited[m].files \in Seq(File)
    BY IngestAssumption
<1>2. \A m \in Message : FilesOf(m) \subseteq File
    BY <1>1 DEF FilesOf
<1>3. \A m \in Message : \A c \in {Content[m].files, Edited[m].files} :
          \A i \in DOMAIN c : c[i] \in FilesOf(m)
    BY DEF FilesOf
<1>4. \A m \in Message : \A c \in {Content[m].files, Edited[m].files} :
          \A i, j \in DOMAIN c : c[i] = c[j] => i = j
    BY AttachmentAssumption
<1>. QED BY <1>1, <1>2, <1>3, <1>4, AttachmentAssumption, IngestAssumption

\* The ways the rows change: some go; an ingest writes its own; a video is attached
\* where there is none; a reply adds a file.
Fewer == /\ Rows(atts') \subseteq Rows(atts)
         /\ \A r \in Rows(atts') : atts'[r].sub = atts[r].sub /\ atts'[r].file = atts[r].file

Old == \A r \in Rows(atts) : /\ r \in Rows(atts') /\ atts'[r].sub = atts[r].sub
                             /\ atts'[r].file = atts[r].file /\ atts'[r].alt = atts[r].alt

Video == /\ Old
         /\ \E s \in Id, r \in Id : /\ Rows(atts') = Rows(atts) \cup {r} /\ r \notin Rows(atts)
                                    /\ atts'[r].sub = s /\ atts'[r].file \in Url
                                    /\ ~HasVideo(atts, s)

Added == /\ Old
         /\ \E s \in Live, r \in Id : /\ Rows(atts') = Rows(atts) \cup {r} /\ r \notin Rows(atts)
                                      /\ atts'[r].sub = s /\ atts'[r].file \in Supplied \cap File
                                      /\ \A q \in Of(atts, s) : atts[q].file # atts'[r].file

\* A video attached, or not.
LEMMA AttachRowSteps ==
    ASSUME Types, NEW tab \in [Id -> AttachmentRow \cup {NoRow}], NEW ls, NEW s \in Id,
           NEW outs, outs \subseteq OutcomeRow, NEW stray \in BOOLEAN, Fits(tab, 1),
           Rows(tab) = Rows(atts),
           \A r \in Rows(atts) : tab[r].sub = atts[r].sub /\ tab[r].file = atts[r].file /\ tab[r].alt = atts[r].alt,
           atts' = AttachVideo(tab, ls, s, outs, stray)
    PROVE  Old /\ (Fewer \/ Video)
<1>1. /\ atts' \in [Id -> AttachmentRow \cup {NoRow}]
      /\ Rows(tab) \subseteq Rows(atts') /\ \A r \in Rows(tab) : atts'[r] = tab[r]
      /\ \A r \in Rows(atts') \ Rows(tab) :
             /\ ~HasVideo(tab, s)
             /\ \A q \in Rows(atts') \ Rows(tab) : q = r
             /\ \E o \in outs : atts'[r] = [sub |-> s, file |-> o.url, path |-> VideoPath(s, o.id),
                                            alt |-> FALSE, stray |-> stray]
    <2>1. Attaches(tab, ls, s, outs, stray, atts')
        BY AttachRows
    <2>. QED BY <2>1 DEF Attaches
<1>2. Old
    BY <1>1 DEF Old
<1>3. HasVideo(tab, s) <=> HasVideo(atts, s)
    BY DEF HasVideo, Of
<1>4. CASE Rows(atts') = Rows(tab)
    BY <1>1, <1>2, <1>4 DEF Fewer, Old
<1>5. CASE Rows(atts') # Rows(tab)
    <2>1. PICK r \in Rows(atts') \ Rows(tab) : TRUE
        BY <1>1, <1>5
    <2>2. PICK o \in outs : atts'[r] = [sub |-> s, file |-> o.url, path |-> VideoPath(s, o.id),
                                        alt |-> FALSE, stray |-> stray]
        BY <1>1, <2>1
    <2>3. atts'[r].sub = s /\ atts'[r].file \in Url /\ r \in Id
        BY <2>2 DEF OutcomeRow, Rows
    <2>4. Rows(atts') = Rows(atts) \cup {r}
        BY <1>1, <2>1
    <2>. QED BY <1>1, <1>2, <1>3, <2>1, <2>3, <2>4 DEF Video
<1>. QED BY <1>2, <1>4, <1>5

LEMMA PersistRows ==
    ASSUME Types, Shape, NEW t \in Task, Persist(t)
    PROVE  Old /\ (Fewer \/ Video)
<1>1. task[t].sub \in Id /\ task[t].outs \subseteq OutcomeRow /\ task[t].cut \in BOOLEAN
    BY DEF Types, TaskRec, Shape, Fit, Working, Persist
<1>2. PICK stored \in [Id -> AttachmentRow \cup {NoRow}] :
          /\ Rows(stored) = Rows(atts)
          /\ \A r \in Rows(atts) : /\ stored[r].sub = atts[r].sub /\ stored[r].file = atts[r].file
                                   /\ stored[r].alt = atts[r].alt
          /\ Fits(stored, 1)
          /\ atts' = AttachVideo(stored, links, task[t].sub, task[t].outs, task[t].cut)
    BY <1>1, PersistEffect
<1>. QED BY <1>1, <1>2, AttachRowSteps

LEMMA ReplyRows ==
    ASSUME Types, Reply
    PROVE  Old /\ (Fewer \/ Video \/ Added)
<1>1. PICK s \in Live : \/ \E f \in Supplied \cap File : ReplyFile(s, f)
                        \/ \E u \in Supplied \cap Url : ReplyLink(s, u) \/ ReplyMetadata(s, u)
    BY DEF Reply
<1>2. s \in Id
    BY DEF Live
<1>3. ASSUME UNCHANGED atts PROVE Old /\ Fewer
    BY <1>3 DEF Old, Fewer
<1>4. ASSUME NEW f \in Supplied \cap File, ReplyFile(s, f)
      PROVE  Old /\ (Fewer \/ Added)
    <2>. DEFINE r == NextId(Rows(atts))
    <2>1. PICK stored, commits \in BOOLEAN :
              /\ r \in Id \ Rows(atts)
              /\ \A q \in Of(atts, s) : atts[q].file # f
              /\ ~commits => UNCHANGED atts
              /\ commits =>
                   /\ Rows(atts) \subseteq Rows(atts') /\ \A q \in Rows(atts) : atts'[q] = atts[q]
                   /\ Rows(atts') = Rows(atts) \cup {r}
                   /\ atts'[r] = [sub |-> s, file |-> f, alt |-> FALSE, stray |-> FALSE,
                                  path |-> IF stored THEN FilePath(s, r) ELSE NoPath]
        BY <1>2, <1>4, ReplyFileEffect
    <2>. HIDE DEF r
    <2>2. CASE ~commits
        BY <1>3, <2>1, <2>2
    <2>3. CASE commits
        <3>1. atts'[r].sub = s /\ atts'[r].file = f
            BY <2>1, <2>3
        <3>2. Old
            BY <2>1, <2>3 DEF Old
        <3>. QED BY <2>1, <2>3, <3>1, <3>2 DEF Added
    <2>. QED BY <2>2, <2>3
<1>5. ASSUME NEW u \in Url, ReplyLink(s, u) \/ ReplyMetadata(s, u)
      PROVE  Old /\ (Fewer \/ Video)
    <2>1. PICK tab \in [Id -> LinkRow \cup {NoRow}], replaced \in SUBSET Id :
              ResolveInSession(s, tab, replaced)
        BY <1>5, ReplyCases
    <2>2. PICK outs \in SUBSET OutcomeRow, commits \in BOOLEAN :
              Resolves(s, tab, replaced, outs, commits)
        BY <1>2, <2>1, ResolveEffect
    <2>3. CASE ~commits
        BY <1>3, <2>2, <2>3 DEF Resolves
    <2>4. CASE commits
        <3>1. Fits(atts, 1) /\ atts' = AttachVideo(atts, tab, s, outs, FALSE)
            BY <2>2, <2>4 DEF Resolves
        <3>2. atts \in [Id -> AttachmentRow \cup {NoRow}]
            BY DEF Types
        <3>. QED BY <1>2, <3>1, <3>2, AttachRowSteps
    <2>. QED BY <2>3, <2>4
<1>. QED BY <1>1, <1>4, <1>5

LEMMA FewerSame == UNCHANGED atts => Old /\ Fewer
BY DEF Old, Fewer

\* Every step changes the rows in one of those ways, and removes a submission with all
\* of its rows.
LEMMA RowSteps ==
    ASSUME Types, Shape, [Next]_vars
    PROVE  /\ \/ Fewer \/ Video \/ Added
              \/ \E t \in Task : Skeletons(t) /\ task[t].sub \in Live
           /\ \A s \in Live : s \in Live' \/ \A r \in Rows(atts') : atts'[r].sub # s
<1>. DEFINE Gone == \A s \in Live : s \in Live' \/ \A r \in Rows(atts') : atts'[r].sub # s
<1>0. ASSUME NEW s \in Id, Drop(s) PROVE Fewer /\ Gone
    <2>1. /\ subs'[s] = None /\ \A x \in Id \ {s} : subs'[x] = subs[x]
          /\ Rows(atts') = {r \in Rows(atts) : atts[r].sub # s}
          /\ \A r \in Rows(atts') : atts'[r] = atts[r]
        BY <1>0, DropEffect
    <2>. QED BY <2>1 DEF Fewer, Live
<1>1. UNCHANGED subs => Gone
    BY DEF Live
<1>2. CASE UNCHANGED vars
    BY <1>1, <1>2, FewerSame DEF vars, db
<1>3. CASE Reply
    BY <1>1, <1>3, ReplyRows DEF Reply
<1>4. ASSUME NEW r \in Id, Describe(r) PROVE Fewer /\ Gone
    <2>1. UNCHANGED subs
        BY <1>4 DEF Describe
    <2>2. Fewer
        BY <1>4, DescribeEffect DEF Fewer
    <2>. QED BY <1>1, <2>1, <2>2
<1>5. ASSUME NEW s \in Id, Remove(s) PROVE Fewer /\ Gone
    <2>1. CASE Drop(s)
        BY <1>0, <2>1
    <2>2. CASE ~Drop(s)
        <3>1. /\ UNCHANGED subs /\ Rows(atts') = Rows(atts)
              /\ \A q \in Rows(atts) : atts'[q].sub = atts[q].sub /\ atts'[q].file = atts[q].file
            BY <1>5, <2>2, RemoveEffect
        <3>. QED BY <1>1, <3>1 DEF Fewer
    <2>. QED BY <2>1, <2>2
<1>6. ASSUME NEW m \in Message, Edit(m) PROVE Fewer /\ Gone
    BY <1>1, <1>6, FewerSame DEF Edit, db
<1>7. CASE Stop
    BY <1>1, <1>7, FewerSame DEF Stop, db
<1>8. ASSUME NEW t \in Task, Fetch(t) \/ GatherFile(t) \/ GatherLink(t) PROVE Fewer /\ Gone
    <2>1. UNCHANGED <<subs, atts>>
        BY <1>8 DEF Fetch, GatherFile, GatherLink, db
    <2>. QED BY <1>1, <2>1, FewerSame
<1>9. ASSUME NEW t \in Task, Enter(t) PROVE Fewer /\ Gone
    <2>1. UNCHANGED atts
        BY <1>9 DEF Enter
    <2>2. UNCHANGED subs \/ subs' = [subs EXCEPT ![NextId(Live)] = task[t].msg]
        BY <1>9, EnterTask
    <2>3. task[t].msg # None
        BY <1>9, EnterTask, IngestAssumption
    <2>4. \A s \in Live : s \in Live'
        BY <2>2, <2>3 DEF Live, Types
    <2>. QED BY <2>1, <2>4, FewerSame
<1>10. ASSUME NEW t \in Task, TearDown(t) PROVE Fewer /\ Gone
    <2>1. UNCHANGED subs
        BY <1>10 DEF TearDown
    <2>2. Fewer
        <3>1. CASE UNCHANGED atts
            BY <3>1, FewerSame
        <3>2. CASE atts' = Delete(atts, {r \in Of(atts, task[t].sub) : atts[r].file \in File})
            BY <3>2 DEF Delete, Rows, Fewer, Types
        <3>. QED BY <1>10, <3>1, <3>2 DEF TearDown
    <2>. QED BY <1>1, <2>1, <2>2
<1>11. ASSUME NEW t \in Task, Skeletons(t)
       PROVE  (Fewer \/ task[t].sub \in Live) /\ Gone
    <2>1. UNCHANGED subs
        BY <1>11 DEF Skeletons
    <2>2. task[t].sub \notin Live => UNCHANGED atts
        BY <1>11, SkeletonsTask
    <2>. QED BY <1>1, <2>1, <2>2, FewerSame
<1>12. ASSUME NEW t \in Task, Persist(t) PROVE (Fewer \/ Video) /\ Gone
    <2>1. UNCHANGED subs
        BY <1>12 DEF Persist
    <2>. QED BY <1>1, <1>12, <2>1, PersistRows
<1>13. ASSUME NEW t \in Task, Restore(t) PROVE Fewer /\ Gone
    <2>1. UNCHANGED subs /\ atts' = Restored(t)
        BY <1>13 DEF Restore
    <2>2. task[t].sub \in Id
        BY <1>13 DEF Types, TaskRec, Shape, Fit, Working, Restore
    <2>3. Fewer
        BY <2>1, <2>2, RestoreEffect DEF Fewer
    <2>. QED BY <1>1, <2>1, <2>3
<1>14. ASSUME NEW t \in Task, Settle(t) PROVE Fewer /\ Gone
    <2>1. CASE UNCHANGED db
        BY <1>1, <2>1, FewerSame DEF db
    <2>2. CASE task[t].sub \in Live /\ Drop(task[t].sub)
        BY <1>0, <2>2 DEF Live
    <2>. QED BY <1>14, <2>1, <2>2, SettleTask
<1>. QED BY <1>2, <1>3, <1>4, <1>5, <1>6, <1>7, <1>8, <1>9, <1>10, <1>11, <1>12, <1>13, <1>14 DEF Next

LEMMA OrphansKept ==
    ASSUME Types, Shape, Orphans, [Next]_vars
    PROVE  Orphans'
<1>1. \A s \in Live : s \in Live' \/ \A r \in Rows(atts') : atts'[r].sub # s
    BY RowSteps
<1>2. \A r \in Rows(atts) : atts[r].sub \notin Live => atts[r].file \in Url
    BY DEF Orphans
<1>3. CASE Fewer
    BY <1>1, <1>2, <1>3 DEF Fewer, Orphans
<1>4. CASE Video
    BY <1>1, <1>2, <1>4 DEF Video, Old, Orphans
<1>5. CASE Added
    BY <1>1, <1>2, <1>5 DEF Added, Old, Orphans
<1>6. ASSUME NEW t \in Task, Skeletons(t), task[t].sub \in Live
      PROVE  Orphans'
    <2>1. Rows(atts) \subseteq Rows(atts') /\ \A r \in Rows(atts) : atts'[r] = atts[r]
        BY <1>6, SkeletonEffect
    <2>2. \A r \in Rows(atts') \ Rows(atts) : \E i \in DOMAIN task[t].files :
              atts'[r] = [sub |-> task[t].sub, file |-> task[t].files[i], path |-> NoPath,
                          alt |-> FALSE, stray |-> task[t].cut]
        BY <1>6, SkeletonEffect, Zenon
    <2>3. \A r \in Rows(atts') \ Rows(atts) : atts'[r].sub = task[t].sub
        <3>1. ASSUME NEW r \in Rows(atts') \ Rows(atts) PROVE atts'[r].sub = task[t].sub
            <4>1. PICK i \in DOMAIN task[t].files :
                  atts'[r] = [sub |-> task[t].sub, file |-> task[t].files[i], path |-> NoPath,
                              alt |-> FALSE, stray |-> task[t].cut]
                BY <2>2
            <4>. QED BY <4>1
        <3>. QED BY <3>1
    <2>. QED BY <1>1, <1>2, <1>6, <2>1, <2>3 DEF Orphans
<1>. QED BY <1>3, <1>4, <1>5, <1>6, RowSteps

\* The rows an ingest writes: files of its message, each once.
LEMMA SkeletonFiles ==
    ASSUME Types, Shape, NEW t \in Task, Skeletons(t), task[t].sub \in Live
    PROVE  /\ Rows(atts) \subseteq Rows(atts') /\ \A r \in Rows(atts) : atts'[r] = atts[r]
           /\ \A r \in Rows(atts') \ Rows(atts) :
                  /\ atts'[r].sub = task[t].sub /\ atts'[r].file \in FilesOf(task[t].msg)
                  /\ atts'[r].path = NoPath /\ atts'[r].alt = FALSE
                  /\ \A q \in Rows(atts') \ Rows(atts) : atts'[r].file = atts'[q].file => r = q
           /\ \A i \in DOMAIN task[t].files :
                  \E r \in Rows(atts') \ Rows(atts) : atts'[r].file = task[t].files[i]
<1>. DEFINE m == task[t].msg  files == task[t].files
<1>1. m \in Message /\ files \in {Content[m].files, Edited[m].files}
    BY DEF Shape, Fit, Skeletons
<1>2. /\ \A i \in DOMAIN files : files[i] \in FilesOf(m)
      /\ \A i, j \in DOMAIN files : files[i] = files[j] => i = j
    BY <1>1, MessageFiles
<1>. HIDE DEF m, files
<1>3. ASSUME NEW r \in Rows(atts') \ Rows(atts)
      PROVE  \E i \in DOMAIN files : /\ r = NextId(Rows(atts)) + i - 1 /\ atts'[r].file = files[i]
                                     /\ atts'[r].sub = task[t].sub /\ atts'[r].path = NoPath
                                     /\ atts'[r].alt = FALSE
    <2>1. PICK i \in DOMAIN files :
              /\ r = NextId(Rows(atts)) + i - 1
              /\ atts'[r] = [sub |-> task[t].sub, file |-> files[i], path |-> NoPath,
                             alt |-> FALSE, stray |-> task[t].cut]
        BY SkeletonEffect, Zenon DEF files
    <2>2. /\ atts'[r].file = files[i] /\ atts'[r].sub = task[t].sub /\ atts'[r].path = NoPath
          /\ atts'[r].alt = FALSE
        BY <2>1
    <2>. QED BY <2>1, <2>2
<1>4. ASSUME NEW r \in Rows(atts') \ Rows(atts), NEW q \in Rows(atts') \ Rows(atts),
             atts'[r].file = atts'[q].file
      PROVE  r = q
    BY <1>2, <1>3, <1>4
<1>5. \A r \in Rows(atts') \ Rows(atts) :
          /\ atts'[r].sub = task[t].sub /\ atts'[r].file \in FilesOf(m)
          /\ atts'[r].path = NoPath /\ atts'[r].alt = FALSE
    BY <1>2, <1>3
<1>6. Rows(atts) \subseteq Rows(atts') /\ \A r \in Rows(atts) : atts'[r] = atts[r]
    BY SkeletonEffect
<1>7. \A i \in DOMAIN files : \E r \in Rows(atts') \ Rows(atts) : atts'[r].file = files[i]
    BY SkeletonEffect DEF files
<1>. QED BY <1>4, <1>5, <1>6, <1>7 DEF m, files

LEMMA OneEachKept ==
    ASSUME Types, Shape, OneEach, Fresh, [Next]_vars
    PROVE  OneEach'
<1>1. \A r, q \in Rows(atts) :
          atts[r].sub = atts[q].sub /\ (atts[r].file = atts[q].file \/ {atts[r].file, atts[q].file} \subseteq Url)
          => r = q
    BY DEF OneEach
<1>2. CASE Fewer
    BY <1>1, <1>2 DEF Fewer, OneEach
<1>3. CASE Video
    <2>1. PICK s \in Id, r \in Id : /\ Rows(atts') = Rows(atts) \cup {r} /\ r \notin Rows(atts)
                                    /\ atts'[r].sub = s /\ atts'[r].file \in Url
                                    /\ ~HasVideo(atts, s)
        BY <1>3 DEF Video
    <2>2. \A q \in Rows(atts) : atts[q].sub = s => atts[q].file \notin Url
        BY <2>1 DEF HasVideo, Of
    <2>. QED BY <1>1, <1>3, <2>1, <2>2 DEF Video, Old, OneEach
<1>4. CASE Added
    <2>1. PICK s \in Live, r \in Id : /\ Rows(atts') = Rows(atts) \cup {r} /\ r \notin Rows(atts)
                                      /\ atts'[r].sub = s /\ atts'[r].file \in Supplied \cap File
                                      /\ \A q \in Of(atts, s) : atts[q].file # atts'[r].file
        BY <1>4 DEF Added
    <2>2. \A q \in Rows(atts) : atts[q].sub = s => atts[q].file # atts'[r].file
        BY <2>1 DEF Of
    <2>3. atts'[r].file \notin Url
        BY <2>1, IngestAssumption
    <2>. QED BY <1>1, <1>4, <2>1, <2>2, <2>3 DEF Added, Old, OneEach
<1>5. ASSUME NEW t \in Task, Skeletons(t), task[t].sub \in Live
      PROVE  OneEach'
    <2>1. /\ Rows(atts) \subseteq Rows(atts') /\ \A r \in Rows(atts) : atts'[r] = atts[r]
          /\ \A r \in Rows(atts') \ Rows(atts) :
                 /\ atts'[r].sub = task[t].sub /\ atts'[r].file \in FilesOf(task[t].msg)
                 /\ \A q \in Rows(atts') \ Rows(atts) : atts'[r].file = atts'[q].file => r = q
        BY <1>5, SkeletonFiles
    <2>2. \A r \in Rows(atts) : atts[r].sub = task[t].sub => atts[r].file \notin FilesOf(task[t].msg)
        BY <1>5 DEF Fresh, Of, Skeletons
    <2>3. task[t].msg \in Message
        BY <1>5 DEF Shape, Fit, Skeletons
    <2>4. \A f \in FilesOf(task[t].msg) : f \notin Url
        BY <2>3, MessageFiles
    <2>. QED BY <1>1, <2>1, <2>2, <2>4 DEF OneEach
<1>. QED BY <1>2, <1>3, <1>4, <1>5, RowSteps

\* How a task comes to be about to write its rows.
SamePlace(n, k) == n.pc = k.pc /\ n.sub = k.sub /\ n.msg = k.msg
Entering(k) == Enter(k) /\ task'[k].sub = NextId(Live) /\ task'[k].sub \in Id
TornDown(k) == TearDown(k) /\ task[k].sub \in Live /\ task'[k].sub = task[k].sub /\ task'[k].msg = task[k].msg

LEMMA AboutToWrite ==
    ASSUME Types, Shape, [Next]_vars, NEW k \in Task, task'[k].pc = "skeletons"
    PROVE  SamePlace(task'[k], task[k]) \/ Entering(k) \/ TornDown(k)
<1>1. CASE UNCHANGED task
    BY <1>1 DEF SamePlace
<1>2. CASE Reply
    <2>1. task[k] \in TaskRec
        BY DEF Types
    <2>2. task'[k] = task[k] \/ \E a : task'[k] = [task[k] EXCEPT !.old = a]
        BY <1>2, ReplyTasks
    <2>3. ASSUME NEW a, task'[k] = [task[k] EXCEPT !.old = a]
          PROVE  SamePlace(task'[k], task[k])
        <3>. DEFINE n == [task[k] EXCEPT !.old = a]
        <3>1. SameJob(n, task[k]) /\ n.pc = task[k].pc /\ n.sub = task[k].sub
            BY <2>1, SetOld
        <3>. HIDE DEF n
        <3>2. task'[k] = n
            BY <2>3 DEF n
        <3>. QED BY <3>1, <3>2 DEF SamePlace, SameJob
    <2>. QED BY <2>2, <2>3 DEF SamePlace
<1>3. ASSUME NEW s \in Id, Remove(s) PROVE SamePlace(task'[k], task[k])
    BY <1>3, RemoveEffect, CutTask DEF Recut, SameJob, SamePlace
<1>4. CASE Stop
    BY <1>4, BlankFit DEF Stop
<1>5. ASSUME NEW t \in Task, Others(t), k # t PROVE SamePlace(task'[k], task[k])
    BY <1>5 DEF Others, SamePlace
<1>6. ASSUME NEW t \in Task, Fetch(t) PROVE SamePlace(task'[k], task[k])
    <2>1. Others(t) /\ (k = t => FALSE)
        <3>1. PICK m \in Message, kind \in {"butterfly", "reingest"} :
              task' = [task EXCEPT ![t] = [Blank EXCEPT !.pc = "wait", !.kind = kind, !.msg = m,
                                             !.files = content[m].files, !.urls = content[m].urls]]
            BY <1>6 DEF Fetch
        <3>. DEFINE n == [Blank EXCEPT !.pc = "wait", !.kind = kind, !.msg = m,
                                       !.files = content[m].files, !.urls = content[m].urls]
        <3>2. task'[t] = n /\ Others(t)
            BY <3>1, Zenon DEF Types, Others
        <3>3. n.pc = "wait"
            BY DEF Blank
        <3>. HIDE DEF n
        <3>. QED BY <3>2, <3>3
    <2>. QED BY <1>5, <2>1
<1>7. ASSUME NEW t \in Task, Enter(t) PROVE SamePlace(task'[k], task[k]) \/ Entering(k)
    <2>1. /\ Others(t)
          /\ \/ Finish(t)
             \/ task'[t].sub \in Id /\ (task'[t].sub = NextId(Live) \/ task'[t].pc = "teardown")
        BY <1>7, EnterTask
    <2>2. Finish(t) => task'[t].pc = "idle"
        BY FinishTask, BlankFit
    <2>. QED BY <1>5, <1>7, <2>1, <2>2 DEF Entering
<1>8. ASSUME NEW t \in Task, TearDown(t) PROVE SamePlace(task'[k], task[k]) \/ TornDown(k)
    <2>1. CASE task[t].sub \in Live
        <3>1. CASE k = t
            BY <1>8, <2>1, <3>1, TearDownTask DEF TornDown, SameJob
        <3>2. CASE k # t
            BY <1>8, <2>1, <3>2, TearDownTask DEF Recut, SameJob, SamePlace
        <3>. QED BY <3>1, <3>2
    <2>2. CASE task[t].sub \notin Live
        <3>1. Finish(t)
            BY <1>8, <2>2 DEF TearDown
        <3>. QED BY <1>5, <3>1, FinishTask, BlankFit
    <2>. QED BY <2>1, <2>2
<1>9. ASSUME NEW t \in Task, Skeletons(t) \/ GatherFile(t) \/ GatherLink(t) \/ Persist(t) \/ Restore(t)
      PROVE  SamePlace(task'[k], task[k])
    <2>1. Others(t) /\ task'[t].pc # "skeletons"
        <3>1. CASE Restore(t)
            BY <3>1, FinishTask, BlankFit DEF Restore
        <3>2. CASE Skeletons(t)
            <4>1. Others(t) /\ task'[t].pc \in {"gather", "close"}
                BY <3>2, SkeletonsTask
            <4>. QED BY <4>1
        <3>. QED BY <1>9, <3>1, <3>2, GatherFileTask, GatherLinkTask, PersistTask
    <2>. QED BY <1>5, <2>1
<1>10. ASSUME NEW t \in Task, Settle(t) PROVE SamePlace(task'[k], task[k])
    <2>1. task'[t].pc # "skeletons" /\ \A j \in Task \ {t} : Recut(task'[j], task[j])
        BY <1>10, SettleTask, BlankFit
    <2>. QED BY <2>1 DEF Recut, SameJob, SamePlace
<1>. QED BY <1>1, <1>2, <1>3, <1>4, <1>6, <1>7, <1>8, <1>9, <1>10 DEF Next, vars, Describe, Edit

LEMMA FreshKept ==
    ASSUME Types, Shape, Held, Orphans, Fresh, [Next]_vars
    PROVE  Fresh'
<1>. SUFFICES ASSUME NEW k \in Task, task'[k].pc = "skeletons",
                     NEW r \in Rows(atts'), atts'[r].sub = task'[k].sub
              PROVE  atts'[r].file \notin FilesOf(task'[k].msg)
    BY DEF Fresh, Of
<1>0. task'[k].msg \in Message
    BY HeldKept DEF Shape, Fit
<1>1. CASE Entering(k)
    <2>1. UNCHANGED atts /\ task'[k].sub \in Id /\ task'[k].sub \notin Live
        BY <1>1, FreeId DEF Entering, Enter, Live
    <2>2. atts'[r].file \in Url
        BY <2>1 DEF Orphans
    <2>. QED BY <1>0, <2>2, MessageFiles
<1>2. CASE TornDown(k)
    <2>1. atts' = Delete(atts, {q \in Of(atts, task[k].sub) : atts[q].file \in File})
        BY <1>2 DEF TornDown, TearDown
    <2>2. r \in Rows(atts) /\ atts'[r] = atts[r] /\ r \notin {q \in Of(atts, task[k].sub) : atts[q].file \in File}
        BY <2>1 DEF Delete, Rows
    <2>3. atts[r].file \notin File
        BY <1>2, <2>2 DEF Of, TornDown
    <2>. QED BY <1>0, <2>2, <2>3, MessageFiles
<1>3. CASE SamePlace(task'[k], task[k])
    <2>0. task[k].pc = "skeletons" /\ task'[k].sub = task[k].sub /\ task'[k].msg = task[k].msg
        BY <1>3 DEF SamePlace
    <2>1. \A q \in Rows(atts) : atts[q].sub = task[k].sub => atts[q].file \notin FilesOf(task[k].msg)
        BY <2>0 DEF Fresh, Of
    <2>2. CASE Fewer
        BY <2>0, <2>1, <2>2 DEF Fewer
    <2>3. CASE Video
        <3>1. r \in Rows(atts) \/ atts'[r].file \in Url
            BY <2>3 DEF Video
        <3>. QED BY <1>0, <2>0, <2>1, <2>3, <3>1, MessageFiles DEF Video, Old
    <2>4. CASE Added
        <3>1. r \in Rows(atts) \/ atts'[r].file \in Supplied
            BY <2>4 DEF Added
        <3>2. FilesOf(task[k].msg) \cap Supplied = {}
            BY <1>0, <2>0, MessageFiles
        <3>. QED BY <2>0, <2>1, <2>4, <3>1, <3>2 DEF Added, Old
    <2>5. ASSUME NEW t \in Task, Skeletons(t), task[t].sub \in Live
          PROVE  atts'[r].file \notin FilesOf(task[k].msg)
        <3>1. CASE r \in Rows(atts)
            <4>1. atts'[r] = atts[r]
                BY <2>5, <3>1, SkeletonFiles
            <4>. QED BY <2>0, <2>1, <3>1, <4>1
        <3>2. CASE r \notin Rows(atts)
            <4>1. atts'[r].file \in FilesOf(task[t].msg)
                BY <2>5, <3>2, SkeletonFiles
            <4>2. t # k
                <5>1. task'[t].pc \in {"gather", "close"}
                    BY <2>5, SkeletonsTask
                <5>. QED BY <5>1
            <4>3. /\ task[t].pc = "skeletons" /\ task[t].msg \in Message /\ task[k].msg \in Message
                BY <2>0, <2>5 DEF Skeletons, Shape, Fit
            <4>4. task[t].msg # task[k].msg
                BY <2>0, <4>2, <4>3 DEF Held, Working
            <4>5. FilesOf(task[t].msg) \cap FilesOf(task[k].msg) = {}
                BY <4>3, <4>4, MessageFiles
            <4>. QED BY <4>1, <4>5
        <3>. QED BY <3>1, <3>2
    <2>6. atts'[r].file \notin FilesOf(task[k].msg)
        BY <2>2, <2>3, <2>4, <2>0, <2>5, RowSteps
    <2>. QED BY <2>0, <2>6
<1>. QED BY <1>1, <1>2, <1>3, AboutToWrite

RowInv == Orphans /\ OneEach /\ Fresh

LEMMA RowsHold == Spec => [](Claims /\ RowInv)
<1>1. Init => RowInv
    BY BlankFit DEF Init, RowInv, Orphans, OneEach, Fresh, Rows, NoRow
<1>2. Claims /\ RowInv /\ [Next]_vars => RowInv'
    BY OrphansKept, OneEachKept, FreshKept DEF Claims, RowInv
<1>. QED BY <1>1, <1>2, ClaimsHold, PTL DEF Spec

\* Theorem: a submission never has two videos of links, whatever attaches them.
THEOREM OneVideoEach == Spec => []OneVideo
<1>1. Claims /\ RowInv => OneVideo
    <2>. SUFFICES ASSUME Claims, RowInv, NEW s \in Live
                  PROVE  Cardinality({r \in Of(atts, s) : atts[r].file \in Url}) <= 1
        BY DEF OneVideo
    <2>. DEFINE V == {r \in Of(atts, s) : atts[r].file \in Url}
    <2>1. \A r, q \in V : r = q
        BY DEF RowInv, OneEach, Of
    <2>2. Cardinality(V) <= 1
        <3>. HIDE DEF V
        <3>1. CASE V = {}
            <4>1. Cardinality(V) = 0
                BY <3>1, FS_EmptySet, Zenon
            <4>. QED BY <4>1
        <3>2. CASE V # {}
            <4>1. PICK r : V = {r}
                BY <2>1, <3>2
            <4>2. Cardinality(V) = 1
                BY <4>1, FS_Singleton, Zenon
            <4>. QED BY <4>2
        <3>. QED BY <3>1, <3>2
    <2>. QED BY <2>2
<1>. QED BY <1>1, RowsHold, PTL

-----------------------------------------------------------------------------
(* The descriptions.                                                       *)

\* A description given is in its row, or with the task that is to put it back.
InItsRow(a) == \E r \in Of(atts, a[1]) : atts[r].file = a[2] /\ atts[r].alt
WithTask(a) == \E t \in Task : task[t].sub = a[1] /\ a[2] \in task[t].keep
Answers == \A a \in answered : InItsRow(a) \/ WithTask(a)

\* A task that has something to put back stays with it.
Keeping(k) == task[k].keep = {} \/ (task'[k].sub = task[k].sub /\ task'[k].keep = task[k].keep)

LEMMA StillDescribed ==
    ASSUME NEW a, InItsRow(a),
           \A r \in Rows(atts) : atts[r].sub = a[1] =>
               /\ r \in Rows(atts') /\ atts'[r].sub = atts[r].sub
               /\ atts'[r].file = atts[r].file /\ (atts[r].alt => atts'[r].alt)
    PROVE  InItsRow(a)'
BY DEF InItsRow, Of

LEMMA AnswersStep ==
    ASSUME Answers, answered' \subseteq answered, \A k \in Task : Keeping(k),
           \A r \in Rows(atts) : (\A a \in answered' : a[1] # atts[r].sub) \/
               /\ r \in Rows(atts') /\ atts'[r].sub = atts[r].sub
               /\ atts'[r].file = atts[r].file /\ (atts[r].alt => atts'[r].alt)
    PROVE  Answers'
<1>. SUFFICES ASSUME NEW a \in answered' PROVE InItsRow(a)' \/ WithTask(a)'
    BY DEF Answers
<1>1. CASE WithTask(a)
    BY <1>1 DEF WithTask, Keeping
<1>2. CASE InItsRow(a)
    BY <1>2, StillDescribed
<1>. QED BY <1>1, <1>2 DEF Answers

LEMMA OldStands ==
    ASSUME Old
    PROVE  \A r \in Rows(atts) : /\ r \in Rows(atts') /\ atts'[r].sub = atts[r].sub
                                 /\ atts'[r].file = atts[r].file /\ (atts[r].alt => atts'[r].alt)
BY DEF Old

LEMMA TaskStands ==
    ASSUME Types, Shape, Answers, NEW t \in Task, Others(t), Keeping(t),
           answered' \subseteq answered, Old
    PROVE  Answers'
<1>1. \A k \in Task : Keeping(k)
    BY DEF Others, Keeping
<1>. QED BY <1>1, AnswersStep, OldStands

LEMMA AnswersTornDown ==
    ASSUME Types, Shape, Answers, NEW t \in Task, TearDown(t)
    PROVE  Answers'
<1>1. task[t].keep = {}
    BY DEF TearDown, Shape, Fit
<1>2. CASE task[t].sub \in Live
    <2>. DEFINE s == task[t].sub
    <2>1. /\ atts' = Delete(atts, {r \in Of(atts, s) : atts[r].file \in File})
          /\ answered' \subseteq answered
        BY <1>2 DEF TearDown
    <2>2. task'[t].sub = s /\ task'[t].keep = Described(s)
        BY <1>2, TearDownTask
    <2>3. \A k \in Task : Keeping(k)
        <3>1. \A k \in Task \ {t} : Keeping(k)
            BY <1>2, TearDownTask DEF Keeping, Recut
        <3>. QED BY <1>1, <3>1 DEF Keeping
    <2>4. ASSUME NEW a \in answered', InItsRow(a) PROVE InItsRow(a)' \/ WithTask(a)'
        <3>1. PICK r \in Of(atts, a[1]) : atts[r].file = a[2] /\ atts[r].alt
            BY <2>4 DEF InItsRow
        <3>2. CASE a[1] = s
            <4>1. a[2] \in Described(s)
                BY <3>1, <3>2 DEF Described
            <4>. QED BY <2>2, <3>2, <4>1 DEF WithTask
        <3>3. CASE a[1] # s
            <4>1. r \notin {q \in Of(atts, s) : atts[q].file \in File} /\ r \in Id /\ r \in Rows(atts)
                BY <3>1, <3>3 DEF Of, Rows
            <4>2. atts'[r] = atts[r] /\ r \in Rows(atts')
                BY <2>1, <4>1 DEF Delete, Rows
            <4>. QED BY <3>1, <4>2 DEF InItsRow, Of
        <3>. QED BY <3>2, <3>3
    <2>5. \A a \in answered' : WithTask(a) => WithTask(a)'
        BY <2>3 DEF WithTask, Keeping
    <2>. QED BY <2>1, <2>4, <2>5 DEF Answers
<1>3. CASE task[t].sub \notin Live
    <2>1. Finish(t) /\ UNCHANGED <<atts, answered>>
        BY <1>3 DEF TearDown
    <2>. QED BY <1>1, <2>1, FinishTask, FewerSame, TaskStands DEF Keeping
<1>. QED BY <1>2, <1>3

LEMMA AnswersRestored ==
    ASSUME Types, Shape, Answers, NEW t \in Task, Restore(t)
    PROVE  Answers'
<1>. DEFINE s == task[t].sub
<1>1. s \in Id
    BY DEF Types, TaskRec, Shape, Fit, Working, Restore
<1>2. /\ atts' = Restored(t) /\ Finish(t)
      /\ answered' = {a \in answered : a[1] = s => \E r \in Of(atts, a[1]) : atts[r].file = a[2]}
    BY DEF Restore
<1>3. /\ Rows(atts') = Rows(atts)
      /\ \A r \in Rows(atts) :
             /\ atts'[r].sub = atts[r].sub /\ atts'[r].file = atts[r].file
             /\ atts'[r].alt = (atts[r].alt \/ (atts[r].sub = s /\ atts[r].file \in task[t].keep))
    BY <1>1, <1>2, RestoreEffect
<1>4. \A k \in Task \ {t} : task'[k] = task[k]
    BY <1>2, FinishTask DEF Others
<1>. SUFFICES ASSUME NEW a \in answered' PROVE InItsRow(a)' \/ WithTask(a)'
    BY DEF Answers
<1>5. a \in answered
    BY <1>2
<1>6. CASE InItsRow(a)
    BY <1>3, <1>6 DEF InItsRow, Of
<1>7. CASE WithTask(a)
    <2>1. PICK k \in Task : task[k].sub = a[1] /\ a[2] \in task[k].keep
        BY <1>7 DEF WithTask
    <2>2. CASE k = t
        <3>1. PICK r \in Of(atts, a[1]) : atts[r].file = a[2]
            BY <1>2, <2>1, <2>2
        <3>2. r \in Rows(atts') /\ atts'[r].sub = a[1] /\ atts'[r].file = a[2] /\ atts'[r].alt
            BY <1>3, <2>1, <2>2, <3>1 DEF Of
        <3>. QED BY <3>2 DEF InItsRow, Of
    <2>3. CASE k # t
        BY <1>4, <2>1, <2>3 DEF WithTask
    <2>. QED BY <2>2, <2>3
<1>. QED BY <1>5, <1>6, <1>7 DEF Answers

LEMMA AnswersKept ==
    ASSUME Types, Shape, Answers, [Next]_vars
    PROVE  Answers'
<1>1. CASE UNCHANGED vars
    BY <1>1 DEF vars, db, Answers, InItsRow, WithTask, Of, Rows
<1>2. CASE Reply
    <2>1. Old /\ UNCHANGED answered
        BY <1>2, ReplyRows DEF Reply
    <2>2. ASSUME NEW k \in Task PROVE Keeping(k)
        <3>1. task[k] \in TaskRec
            BY DEF Types
        <3>2. CASE task'[k] = task[k]
            BY <3>2 DEF Keeping
        <3>3. ASSUME NEW a, task'[k] = [task[k] EXCEPT !.old = a] PROVE Keeping(k)
            BY <3>1, <3>3, SetOld DEF Keeping
        <3>. QED BY <1>2, <3>2, <3>3, ReplyTasks
    <2>. QED BY <2>1, <2>2, AnswersStep, OldStands
<1>3. ASSUME NEW r \in Id, Describe(r) PROVE Answers'
    <2>1. /\ Rows(atts') = Rows(atts) /\ r \in Rows(atts)
          /\ \A q \in Rows(atts) : /\ atts'[q].sub = atts[q].sub /\ atts'[q].file = atts[q].file
                                   /\ atts'[q].alt = (atts[q].alt \/ q = r)
        BY <1>3, DescribeEffect
    <2>2. UNCHANGED task /\ answered' = answered \cup {<<atts[r].sub, atts[r].file>>}
        BY <1>3 DEF Describe
    <2>3. \A a \in answered : InItsRow(a) => InItsRow(a)'
        BY <2>1, StillDescribed
    <2>4. \A a \in answered : WithTask(a) => WithTask(a)'
        BY <2>2 DEF WithTask
    <2>5. ASSUME NEW a, a = <<atts[r].sub, atts[r].file>> PROVE InItsRow(a)'
        BY <2>1, <2>5 DEF InItsRow, Of
    <2>6. \A a \in answered : InItsRow(a)' \/ WithTask(a)'
        BY <2>3, <2>4 DEF Answers
    <2>. QED BY <2>2, <2>5, <2>6 DEF Answers
<1>4. ASSUME NEW s \in Id, Drop(s), \A k \in Task : Keeping(k) PROVE Answers'
    <2>1. /\ Rows(atts') = {r \in Rows(atts) : atts[r].sub # s}
          /\ \A r \in Rows(atts') : atts'[r] = atts[r]
          /\ answered' = {a \in answered : a[1] # s}
        BY <1>4, DropEffect
    <2>. QED BY <1>4, <2>1, AnswersStep
<1>5. ASSUME NEW s \in Id, Remove(s) PROVE Answers'
    <2>1. \A k \in Task : Keeping(k)
        BY <1>5, RemoveEffect, CutTask DEF Keeping, Recut
    <2>2. CASE Drop(s)
        BY <1>4, <2>1, <2>2
    <2>3. CASE ~Drop(s)
        <3>1. /\ UNCHANGED answered /\ Rows(atts') = Rows(atts)
              /\ \A q \in Rows(atts) : /\ atts'[q].sub = atts[q].sub /\ atts'[q].file = atts[q].file
                                       /\ atts'[q].alt = atts[q].alt
            BY <1>5, <2>3, RemoveEffect
        <3>. QED BY <2>1, <3>1, AnswersStep
    <2>. QED BY <2>2, <2>3
<1>6. ASSUME NEW m \in Message, Edit(m) PROVE Answers'
    BY <1>6 DEF Edit, db, Answers, InItsRow, WithTask, Of, Rows
<1>7. CASE Stop
    <2>1. /\ UNCHANGED atts
          /\ answered' = {a \in answered : ~ \E t \in Task : task[t].sub = a[1] /\ a[2] \in task[t].keep}
        BY <1>7 DEF Stop, db
    <2>2. \A a \in answered' : a \in answered /\ ~WithTask(a)
        BY <2>1 DEF WithTask
    <2>3. \A a \in answered' : InItsRow(a)
        BY <2>2 DEF Answers
    <2>. QED BY <2>1, <2>3 DEF Answers, InItsRow, Of, Rows
<1>8. ASSUME NEW t \in Task, Fetch(t) \/ Enter(t) PROVE Answers'
    <2>1. Others(t) /\ task[t].keep = {}
        <3>1. CASE Enter(t)
            BY <3>1, EnterTask, FinishTask DEF Shape, Fit, Enter, Working
        <3>2. CASE Fetch(t)
            <4>1. Others(t)
                BY <3>2 DEF Fetch, Others, Types
            <4>. QED BY <3>2, <4>1 DEF Shape, Fit, Fetch, Working
        <3>. QED BY <1>8, <3>1, <3>2
    <2>2. UNCHANGED <<atts, answered>>
        BY <1>8 DEF Fetch, Enter, db
    <2>. QED BY <2>1, <2>2, FewerSame, TaskStands DEF Keeping
<1>9. ASSUME NEW t \in Task, Skeletons(t) \/ GatherFile(t) \/ GatherLink(t) \/ Persist(t)
      PROVE  Answers'
    <2>1. Others(t) /\ Advanced(t) /\ task'[t].pc # "idle"
        <3>1. CASE Skeletons(t)
            BY <3>1, SkeletonsTask
        <3>. QED BY <1>9, <3>1, GatherFileTask, GatherLinkTask, PersistTask
    <2>2. Keeping(t)
        BY <2>1, FinishTask, BlankFit DEF Advanced, Keeping
    <2>3. UNCHANGED answered
        BY <1>9 DEF Skeletons, GatherFile, GatherLink, Persist
    <2>4. Old
        <3>1. CASE Skeletons(t) /\ task[t].sub \in Live
            BY <3>1, SkeletonFiles DEF Old
        <3>2. CASE Skeletons(t) /\ task[t].sub \notin Live
            BY <3>2, SkeletonsTask, FewerSame
        <3>3. CASE GatherFile(t) \/ GatherLink(t)
            BY <3>3, FewerSame DEF GatherFile, GatherLink, db
        <3>4. CASE Persist(t)
            BY <3>4, PersistRows
        <3>. QED BY <1>9, <3>1, <3>2, <3>3, <3>4
    <2>. QED BY <2>1, <2>2, <2>3, <2>4, TaskStands
<1>10. ASSUME NEW t \in Task, Settle(t) PROVE Answers'
    <2>1. task[t].keep = {}
        BY <1>10 DEF Settle, Shape, Fit
    <2>2. \A k \in Task : Keeping(k)
        <3>1. \A k \in Task \ {t} : Keeping(k)
            BY <1>10, SettleTask DEF Keeping, Recut
        <3>. QED BY <2>1, <3>1 DEF Keeping
    <2>3. CASE UNCHANGED <<db, vol, answered>>
        BY <2>2, <2>3, AnswersStep, FewerSame, OldStands DEF db
    <2>4. CASE task[t].sub \in Live /\ Drop(task[t].sub)
        BY <1>4, <2>2, <2>4 DEF Live
    <2>. QED BY <1>10, <2>3, <2>4, SettleTask
<1>. QED BY <1>1, <1>2, <1>3, <1>5, <1>6, <1>7, <1>8, <1>9, <1>10, AnswersTornDown, AnswersRestored DEF Next

\* Theorem: a description given in the thread stays with its file through every /reingest,
\* unless the bot stops in the middle of it or the message has lost the file.
THEOREM DescriptionsStay == Spec => []AltKept
<1>1. Init => Answers
    BY DEF Init, Answers
<1>2. Claims /\ Answers /\ [Next]_vars => Answers'
    BY AnswersKept DEF Claims
<1>3. RowInv /\ Answers => AltKept
    <2>. SUFFICES ASSUME RowInv, Answers, NEW r \in Rows(atts),
                         <<atts[r].sub, atts[r].file>> \in answered,
                         \A t \in Task : task[t].sub = atts[r].sub => atts[r].file \notin task[t].keep
                  PROVE  atts[r].alt
        BY DEF AltKept
    <2>. DEFINE a == <<atts[r].sub, atts[r].file>>
    <2>1. InItsRow(a)
        BY DEF Answers, WithTask
    <2>2. PICK q \in Rows(atts) : atts[q].sub = atts[r].sub /\ atts[q].file = atts[r].file /\ atts[q].alt
        BY <2>1 DEF InItsRow, Of
    <2>3. q = r
        BY <2>2 DEF RowInv, OneEach
    <2>. QED BY <2>2, <2>3
<1>. QED BY <1>1, <1>2, <1>3, RowsHold, PTL DEF Spec

-----------------------------------------------------------------------------
(* The links.                                                              *)

LEMMA RepliedLinks ==
    ASSUME Types, LinkAgrees, Reply
    PROVE  LinkAgrees'
<1>1. PICK s \in Live : \/ \E f \in Supplied \cap File : ReplyFile(s, f)
                        \/ \E u \in Supplied \cap Url : ReplyLink(s, u) \/ ReplyMetadata(s, u)
    BY DEF Reply
<1>2. UNCHANGED links => LinkAgrees'
    BY DEF LinkAgrees, Rows
<1>3. ASSUME NEW f \in File, ReplyFile(s, f) PROVE LinkAgrees'
    BY <1>2, <1>3 DEF ReplyFile
<1>4. ASSUME NEW u \in Url, ReplyLink(s, u) \/ ReplyMetadata(s, u) PROVE LinkAgrees'
    <2>1. PICK tab \in [Id -> LinkRow \cup {NoRow}], replaced \in SUBSET Id :
              /\ \A l \in Rows(links) : /\ l \in Rows(tab) /\ tab[l].sub = links[l].sub
                                        /\ tab[l] = links[l] \/ (l \in replaced /\ links[l].sub = s)
              /\ \A l \in Rows(tab) \ Rows(links) : tab[l].sub = s
              /\ ResolveInSession(s, tab, replaced)
        BY <1>4, ReplyCases
    <2>2. PICK outs \in SUBSET OutcomeRow, commits \in BOOLEAN :
              Resolves(s, tab, replaced, outs, commits)
        BY <2>1, ResolveEffect DEF Live
    <2>3. CASE ~commits
        BY <1>2, <2>2, <2>3 DEF Resolves
    <2>4. CASE commits
        <3>1. Relinked(tab, outs, links')
            BY <2>2, <2>4, RepliedOnto
        <3>2. \A l \in Rows(tab) :
                  \/ links'[l] = tab[l] /\ \A o \in outs : o.id # l
                  \/ \E o \in outs : o.id = l /\ links'[l].meta = o.url /\ links'[l].uri = o.uri
            BY <3>1 DEF Relinked
        <3>3. ASSUME NEW l \in Rows(tab), ~links'[l].stray
              PROVE  {links'[l].meta, links'[l].uri} \subseteq {None, links'[l].url}
            <4>1. CASE links'[l] = tab[l] /\ \A o \in outs : o.id # l
                <5>1. l \notin Of(tab, s)
                    BY <2>2, <4>1 DEF Resolves
                <5>2. l \in Rows(links) /\ tab[l] = links[l]
                    BY <2>1, <5>1 DEF Of
                <5>. QED BY <3>3, <4>1, <5>2 DEF LinkAgrees
            <4>2. ASSUME NEW o \in outs, o.id = l, links'[l].meta = o.url, links'[l].uri = o.uri
                  PROVE  {links'[l].meta, links'[l].uri} \subseteq {None, links'[l].url}
                <5>1. o.url = tab[l].url /\ o.uri \in {None, o.url}
                    BY <2>2, <4>2 DEF Resolves
                <5>2. links'[l].url = tab[l].url
                    BY <3>1 DEF Relinked
                <5>. QED BY <4>2, <5>1, <5>2
            <4>. QED BY <3>2, <4>1, <4>2
        <3>. QED BY <3>1, <3>3 DEF LinkAgrees, Relinked
    <2>. QED BY <2>3, <2>4
<1>. QED BY <1>1, <1>3, <1>4

LEMMA LinksAgree ==
    ASSUME Types, Shape, LinkAgrees, [Next]_vars
    PROVE  LinkAgrees'
<1>1. UNCHANGED links => LinkAgrees'
    BY DEF LinkAgrees, Rows
<1>2. ASSUME NEW rs \in SUBSET Id, links' = Delete(links, rs) PROVE LinkAgrees'
    <2>1. /\ Rows(links') = Rows(links) \ rs
          /\ \A r \in Rows(links) \ rs : links'[r] = links[r]
        BY <1>2, DeleteStays
    <2>. QED BY <2>1 DEF LinkAgrees
<1>3. ASSUME NEW s \in Id, Drop(s) PROVE LinkAgrees'
    BY <1>3, DropEffect DEF LinkAgrees
<1>4. ASSUME NEW t \in Task, Skeletons(t), task[t].sub \in Live PROVE LinkAgrees'
    <2>1. /\ Rows(links) \subseteq Rows(links') /\ \A r \in Rows(links) : links'[r] = links[r]
          /\ \A r \in Rows(links') \ Rows(links) : links'[r].meta = None /\ links'[r].uri = None
        BY <1>4, SkeletonEffect
    <2>. QED BY <2>1 DEF LinkAgrees
<1>5. ASSUME NEW t \in Task, Persist(t) PROVE LinkAgrees'
    <2>. SUFFICES ASSUME NEW l \in Rows(links'), ~links'[l].stray
                  PROVE  {links'[l].meta, links'[l].uri} \subseteq {None, links'[l].url}
        BY DEF LinkAgrees
    <2>1. CASE links'[l] = links[l]
        BY <2>1 DEF LinkAgrees, Rows
    <2>2. ASSUME NEW o \in task[t].outs,
                 links'[l] = [sub |-> links[l].sub, url |-> links[l].url, meta |-> o.url, uri |-> o.uri,
                              stray |-> task[t].cut \/ links[l].url # o.url]
          PROVE  {links'[l].meta, links'[l].uri} \subseteq {None, links'[l].url}
        <3>1. o.uri \in {None, o.url}
            BY DEF Shape, Fit
        <3>2. /\ links'[l].meta = o.url /\ links'[l].uri = o.uri /\ links'[l].url = links[l].url
              /\ links'[l].stray = (task[t].cut \/ links[l].url # o.url)
            BY <2>2
        <3>. QED BY <3>1, <3>2
    <2>3. l \in Id
        BY DEF Rows
    <2>. QED BY <1>5, <2>1, <2>2, <2>3, PersistLinks
<1>6. ASSUME NEW t \in Task, Settle(t) PROVE LinkAgrees'
    BY <1>1, <1>3, <1>6, SettleTask DEF db, Live
<1>7. ASSUME NEW s \in Id, Remove(s) PROVE LinkAgrees'
    BY <1>1, <1>3, <1>7, RemoveEffect
<1>8. ASSUME NEW t \in Task, TearDown(t) PROVE LinkAgrees'
    <2>1. Of(links, task[t].sub) \in SUBSET Id
        BY DEF Of, Rows
    <2>. QED BY <1>1, <1>2, <1>8, <2>1 DEF TearDown
<1>9. ASSUME NEW t \in Task,
             Fetch(t) \/ Enter(t) \/ GatherFile(t) \/ GatherLink(t) \/ Restore(t)
      PROVE  LinkAgrees'
    BY <1>1, <1>9 DEF Fetch, Enter, GatherFile, GatherLink, Restore, db
<1>10. ASSUME NEW t \in Task, Skeletons(t), task[t].sub \notin Live PROVE LinkAgrees'
    BY <1>1, <1>10, SkeletonsTask
<1>11. CASE Stop \/ UNCHANGED vars \/ (\E r \in Id : Describe(r)) \/ \E m \in Message : Edit(m)
    BY <1>1, <1>11 DEF Stop, Describe, Edit, vars, db
<1>. QED BY <1>4, <1>5, <1>6, <1>7, <1>8, <1>9, <1>10, <1>11, RepliedLinks DEF Next

\* Theorem: what is stored with a link comes from its url, unless a gather that began with
\* another url, or for a removed submission, wrote it.
THEOREM LinksStayTrue == Spec => []LinkAgrees
<1>1. Init => LinkAgrees
    BY DEF Init, LinkAgrees, Rows
<1>2. Claims /\ LinkAgrees /\ [Next]_vars => LinkAgrees'
    BY LinksAgree DEF Claims
<1>. QED BY <1>1, <1>2, ClaimsHold, PTL DEF Spec

-----------------------------------------------------------------------------
(* What a gather has under way.                                            *)

\* The rows and links of s that stay, whatever else is written onto them.
Stands(s) == \A r \in Rows(atts) : atts[r].sub = s =>
                 r \in Rows(atts') /\ atts'[r].sub = s /\ atts'[r].file = atts[r].file

LinksStand(k) ==
    \A l \in Rows(links) : links[l].sub = task[k].sub =>
        /\ l \in Rows(links') /\ links'[l].sub = links[l].sub
        /\ links'[l].url = links[l].url \/ l \in task'[k].old

\* A gather goes on: it has its plan, and may have one more file or outcome.
Going(k) ==
    LET n == task'[k]  o == task[k] IN
    /\ o.pc = "gather" /\ ~o.cut /\ SameJob(n, o) /\ SamePlan(n, o) /\ n.sub = o.sub
    /\ o.old \subseteq n.old
    /\ \/ n.got = o.got
       \/ \E a \in o.todo : n.got = o.got \cup {a} /\ Write(FilePath(o.sub, a.id), a.file, o.cut)
    /\ \/ n.outs = o.outs
       \/ \E p \in OutcomeRow :
              /\ n.outs = o.outs \cup {p} /\ \A q \in o.outs : q.id # p.id
              /\ p.video => \E stray : Write(VideoPath(o.sub, p.id), p.url, stray)

\* A submission has one task at work that is not cut.
LEMMA Alone ==
    ASSUME Types, Shape, Held, NEW t \in Task, NEW k \in Task \ {t},
           task[t].pc \in Working, task[k].pc \in Working, task[t].sub = task[k].sub, ~task[k].cut
    PROVE  task[t].cut
<1>. SUFFICES ASSUME ~task[t].cut PROVE FALSE
    OBVIOUS
<1>1. subs[task[t].sub] = task[t].msg /\ subs[task[k].sub] = task[k].msg
    BY DEF Held
<1>2. lock[task[t].msg] = t /\ lock[task[k].msg] = k
    BY DEF Held
<1>. QED BY <1>1, <1>2

LEMMA RecutGoes ==
    ASSUME NEW k, Recut(task'[k], task[k]), task[k].pc = "gather", ~task'[k].cut
    PROVE  Going(k)
BY DEF Going, Recut, SameWork

LEMMA SameGoes ==
    ASSUME NEW k, task'[k] = task[k], task[k].pc = "gather", ~task[k].cut
    PROVE  Going(k)
BY DEF Going, SameJob, SamePlan

LEMMA ResolvedTask ==
    ASSUME Types, NEW s \in Id, NEW tab, NEW replaced, NEW outs, NEW commits \in BOOLEAN,
           Resolves(s, tab, replaced, outs, commits), NEW k \in Task
    PROVE  LET n == task'[k]  o == task[k] IN
           /\ SameJob(n, o) /\ SamePlan(n, o) /\ SameWork(n, o) /\ n.pc = o.pc /\ n.sub = o.sub
           /\ n.cut = o.cut /\ o.old \subseteq n.old
           /\ commits /\ o.sub = s => replaced \subseteq n.old
<1>1. CASE ~commits
    BY <1>1 DEF Resolves, SameJob, SamePlan, SameWork
<1>2. CASE commits
    <2>. DEFINE a == IF task[k].sub = s THEN task[k].old \cup replaced ELSE task[k].old
    <2>1. task[k] \in TaskRec
        BY DEF Types
    <2>2. task'[k] = [task[k] EXCEPT !.old = a]
        BY <1>2 DEF Resolves
    <2>3. task[k].old \subseteq a /\ (task[k].sub = s => replaced \subseteq a)
        OBVIOUS
    <2>. HIDE DEF a
    <2>. DEFINE n == [task[k] EXCEPT !.old = a]
    <2>4. /\ SameJob(n, task[k]) /\ SamePlan(n, task[k]) /\ SameWork(n, task[k])
          /\ n.pc = task[k].pc /\ n.sub = task[k].sub /\ n.old = a /\ n.cut = task[k].cut
        BY <2>1, SetOld
    <2>. HIDE DEF n
    <2>5. task'[k] = n
        BY <2>2 DEF n
    <2>. QED BY <2>3, <2>4, <2>5
<1>. QED BY <1>1, <1>2

\* The links of a reply.
LEMMA ReplyResolves ==
    ASSUME Types, NEW s \in Live, NEW u \in Url, ReplyLink(s, u) \/ ReplyMetadata(s, u)
    PROVE  \E tab \in [Id -> LinkRow \cup {NoRow}], replaced \in SUBSET Id,
              outs \in SUBSET OutcomeRow, commits \in BOOLEAN :
               /\ \A l \in Rows(links) : /\ l \in Rows(tab) /\ tab[l].sub = links[l].sub
                                         /\ tab[l] = links[l] \/ (l \in replaced /\ links[l].sub = s)
               /\ Resolves(s, tab, replaced, outs, commits)
<1>1. PICK tab \in [Id -> LinkRow \cup {NoRow}], replaced \in SUBSET Id :
          /\ \A l \in Rows(links) : /\ l \in Rows(tab) /\ tab[l].sub = links[l].sub
                                    /\ tab[l] = links[l] \/ (l \in replaced /\ links[l].sub = s)
          /\ ResolveInSession(s, tab, replaced)
    BY ReplyCases
<1>2. \E outs \in SUBSET OutcomeRow, commits \in BOOLEAN : Resolves(s, tab, replaced, outs, commits)
    BY <1>1, ResolveEffect DEF Live
<1>. QED BY <1>1, <1>2

LEMMA GatherTask ==
    ASSUME Types, Shape, Held, [Next]_vars, NEW k \in Task, task'[k].pc = "gather", ~task'[k].cut
    PROVE  (Skeletons(k) /\ task[k].sub \in Live) \/ Going(k)
<1>1. ASSUME task'[k] = task[k] PROVE Going(k)
    BY <1>1, SameGoes
<1>2. ASSUME Recut(task'[k], task[k]) PROVE Going(k)
    BY <1>2, RecutGoes DEF Recut
<1>3. CASE UNCHANGED task
    BY <1>1, <1>3
<1>4. CASE Reply
    <2>1. PICK s \in Live : \/ \E f \in Supplied \cap File : ReplyFile(s, f)
                            \/ \E u \in Supplied \cap Url : ReplyLink(s, u) \/ ReplyMetadata(s, u)
        BY <1>4 DEF Reply
    <2>2. ASSUME NEW f \in File, ReplyFile(s, f) PROVE Going(k)
        <3>1. UNCHANGED task
            BY <2>2 DEF ReplyFile
        <3>. QED BY <1>1, <3>1
    <2>3. ASSUME NEW u \in Url, ReplyLink(s, u) \/ ReplyMetadata(s, u) PROVE Going(k)
        <3>1. PICK tab \in [Id -> LinkRow \cup {NoRow}], replaced \in SUBSET Id,
                   outs \in SUBSET OutcomeRow, commits \in BOOLEAN :
                  Resolves(s, tab, replaced, outs, commits)
            BY <2>3, ReplyResolves
        <3>2. LET n == task'[k]  o == task[k] IN
              /\ SameJob(n, o) /\ SamePlan(n, o) /\ SameWork(n, o) /\ n.pc = o.pc /\ n.sub = o.sub
              /\ n.cut = o.cut /\ o.old \subseteq n.old
            BY <3>1, ResolvedTask DEF Live
        <3>. QED BY <3>2 DEF Going, SameWork
    <2>. QED BY <2>1, <2>2, <2>3
<1>5. ASSUME NEW s \in Id, Remove(s) PROVE Going(k)
    BY <1>2, <1>5, RemoveEffect, CutTask
<1>6. CASE Stop
    BY <1>6, BlankFit DEF Stop
<1>7. ASSUME NEW t \in Task, Others(t), k # t PROVE Going(k)
    BY <1>1, <1>7 DEF Others
<1>8. ASSUME NEW t \in Task, Finish(t) PROVE Going(k)
    BY <1>7, <1>8, FinishTask, BlankFit
<1>9. ASSUME NEW t \in Task, Fetch(t) PROVE Going(k)
    <2>1. Others(t)
        BY <1>9 DEF Fetch, Others, Types
    <2>2. k # t
        <3>1. PICK m \in Message, kind \in {"butterfly", "reingest"} :
              task' = [task EXCEPT ![t] = [Blank EXCEPT !.pc = "wait", !.kind = kind, !.msg = m,
                                             !.files = content[m].files, !.urls = content[m].urls]]
            BY <1>9 DEF Fetch
        <3>. DEFINE n == [Blank EXCEPT !.pc = "wait", !.kind = kind, !.msg = m,
                                       !.files = content[m].files, !.urls = content[m].urls]
        <3>2. task'[t] = n
            BY <3>1, Zenon DEF Types
        <3>3. n.pc = "wait"
            BY DEF Blank
        <3>. HIDE DEF n
        <3>. QED BY <3>2, <3>3
    <2>. QED BY <1>7, <2>1, <2>2
<1>10. ASSUME NEW t \in Task, Enter(t) PROVE Going(k)
    BY <1>7, <1>8, <1>10, EnterTask
<1>11. ASSUME NEW t \in Task, TearDown(t) PROVE Going(k)
    <2>1. CASE task[t].sub \in Live
        <3>1. task'[t].pc = "skeletons" /\ \A j \in Task \ {t} : Recut(task'[j], task[j])
            BY <1>11, <2>1, TearDownTask
        <3>. QED BY <1>2, <3>1
    <2>2. CASE task[t].sub \notin Live
        BY <1>8, <1>11, <2>2 DEF TearDown
    <2>. QED BY <2>1, <2>2
<1>12. ASSUME NEW t \in Task, Skeletons(t) PROVE (Skeletons(k) /\ task[k].sub \in Live) \/ Going(k)
    <2>1. Others(t) /\ (task[t].sub \notin Live => task'[t].pc = "close")
        BY <1>12, SkeletonsTask
    <2>. QED BY <1>7, <1>12, <2>1
<1>13. ASSUME NEW t \in Task, GatherFile(t) PROVE Going(k)
    <2>1. /\ Advanced(t) /\ Others(t) /\ task[t].pc = "gather" /\ task'[t].pc = "gather"
          /\ SamePlan(task'[t], task[t])
          /\ task'[t].outs = task[t].outs /\ task'[t].old = task[t].old
          /\ \E a \in task[t].todo :
                 \/ /\ task'[t].got = task[t].got \cup {a}
                    /\ Write(FilePath(task[t].sub, a.id), a.file, task[t].cut)
                 \/ task'[t].got = task[t].got
        BY <1>13, GatherFileTask
    <2>2. CASE k = t
        <3>1. SameJob(task'[k], task[k]) /\ task'[k].sub = task[k].sub /\ task'[k].cut = task[k].cut
            BY <2>1, <2>2, FinishTask, BlankFit DEF Advanced
        <3>. QED BY <2>1, <2>2, <3>1 DEF Going
    <2>. QED BY <1>7, <2>1, <2>2
<1>14. ASSUME NEW t \in Task, GatherLink(t) PROVE Going(k)
    <2>1. /\ Advanced(t) /\ Others(t) /\ task[t].pc = "gather" /\ task'[t].pc = "gather"
          /\ SamePlan(task'[t], task[t])
          /\ task'[t].got = task[t].got /\ task'[t].old = task[t].old
        BY <1>14, GatherLinkTask
    <2>2. CASE k = t
        <3>1. SameJob(task'[k], task[k]) /\ task'[k].sub = task[k].sub /\ task'[k].cut = task[k].cut
            BY <2>1, <2>2, FinishTask, BlankFit DEF Advanced
        <3>2. PICK l \in task[t].plan, o \in OutcomeRow :
                  /\ o.id = l.id /\ o.url = l.url
                  /\ \A p \in task[t].outs : p.id # l.id
                  /\ o.video => Write(VideoPath(task[t].sub, l.id), l.url, Outdated(t, l))
                  /\ task' = [task EXCEPT ![t].outs = task[t].outs \cup {o}]
            BY <1>14, GatherLinkOutcome
        <3>3. task'[t].outs = task[t].outs \cup {o}
            BY <3>2 DEF Types, TaskRec
        <3>. QED BY <2>1, <2>2, <3>1, <3>2, <3>3 DEF Going
    <2>. QED BY <1>7, <2>1, <2>2
<1>15. ASSUME NEW t \in Task, Persist(t) PROVE Going(k)
    <2>1. Others(t) /\ task'[t].pc = "close"
        BY <1>15, PersistTask
    <2>. QED BY <1>7, <2>1
<1>16. ASSUME NEW t \in Task, Restore(t) PROVE Going(k)
    BY <1>8, <1>16 DEF Restore
<1>17. ASSUME NEW t \in Task, Settle(t) PROVE Going(k)
    <2>1. task'[t].pc = "idle" /\ \A j \in Task \ {t} : Recut(task'[j], task[j])
        BY <1>17, SettleTask, BlankFit
    <2>. QED BY <1>2, <2>1
<1>. QED BY <1>3, <1>4, <1>5, <1>6, <1>9, <1>10, <1>11, <1>12, <1>13, <1>14, <1>15, <1>16, <1>17
        DEF Next, vars, Describe, Edit

\* While a gather goes on, nothing takes the rows or links of its submission.
LEMMA GoingRows ==
    ASSUME Types, Shape, Held, [Next]_vars, NEW k \in Task, task'[k].pc = "gather", ~task'[k].cut,
           Going(k)
    PROVE  Stands(task[k].sub)
<1>. DEFINE s == task[k].sub
<1>0. task[k].pc \in Working /\ ~task[k].cut /\ task'[k].sub = s /\ s \in Id
    BY DEF Going, Working, Shape, Fit, Types, TaskRec
<1>1. Old => Stands(s)
    BY DEF Old, Stands
<1>2. UNCHANGED atts => Stands(s)
    BY DEF Stands, Rows
<1>3. CASE Reply
    BY <1>1, <1>3, ReplyRows
<1>4. ASSUME NEW r \in Id, Describe(r) PROVE Stands(s)
    BY <1>4, DescribeEffect DEF Stands
<1>5. ASSUME NEW x \in Id \ {s}, Drop(x) PROVE Stands(s)
    BY <1>5, DropEffect DEF Stands
<1>6. ASSUME NEW x \in Id, Remove(x) PROVE Stands(s)
    <2>1. x # s
        BY <1>0, <1>6, RemoveEffect, CutTask
    <2>2. CASE Drop(x)
        BY <1>5, <2>1, <2>2
    <2>3. CASE ~Drop(x)
        BY <1>6, <2>3, RemoveEffect DEF Stands
    <2>. QED BY <2>2, <2>3
<1>7. ASSUME NEW t \in Task, TearDown(t) PROVE Stands(s)
    <2>1. CASE task[t].sub \in Live
        <3>1. /\ task[t].pc = "teardown" /\ k # t
              /\ atts' = Delete(atts, {r \in Of(atts, task[t].sub) : atts[r].file \in File})
            BY <1>7, <2>1 DEF TearDown, Going
        <3>2. task[t].sub # s
            <4>. SUFFICES ASSUME task[t].sub = s PROVE FALSE
                OBVIOUS
            <4>1. ~task[t].cut
                BY <1>0, <1>7, <2>1, <3>1, TearDownTask
            <4>. QED BY <1>0, <3>1, <4>1, Alone DEF Working
        <3>. DEFINE rs == {r \in Of(atts, task[t].sub) : atts[r].file \in File}
        <3>3. rs \in SUBSET Id /\ \A r \in Rows(atts) : atts[r].sub = s => r \notin rs
            BY <3>2 DEF Of, Rows
        <3>4. /\ Rows(Delete(atts, rs)) = Rows(atts) \ rs
              /\ \A r \in Rows(atts) \ rs : Delete(atts, rs)[r] = atts[r]
            <4>. HIDE DEF rs
            <4>. QED BY <3>3, DeleteStays
        <3>. QED BY <3>1, <3>3, <3>4 DEF Stands
    <2>2. CASE task[t].sub \notin Live
        BY <1>2, <1>7, <2>2 DEF TearDown
    <2>. QED BY <2>1, <2>2
<1>8. ASSUME NEW t \in Task, Skeletons(t) PROVE Stands(s)
    <2>1. task[t].sub \in Live => Stands(s)
        BY <1>8, SkeletonEffect DEF Stands
    <2>. QED BY <1>2, <1>8, <2>1, SkeletonsTask
<1>9. ASSUME NEW t \in Task, Persist(t) PROVE Stands(s)
    BY <1>1, <1>9, PersistRows
<1>10. ASSUME NEW t \in Task, Restore(t) PROVE Stands(s)
    <2>1. task[t].sub \in Id /\ atts' = Restored(t)
        BY <1>10 DEF Types, TaskRec, Shape, Fit, Working, Restore
    <2>. QED BY <2>1, RestoreEffect DEF Stands
<1>11. ASSUME NEW t \in Task, Settle(t) PROVE Stands(s)
    <2>1. t # k
        BY <1>11 DEF Settle, Going
    <2>2. CASE UNCHANGED <<db, vol, answered>>
        BY <1>2, <2>2 DEF db
    <2>3. CASE /\ task[t].sub \in Live /\ Drop(task[t].sub)
               /\ \A j \in Task \ {t} : task'[j].cut = (task[j].cut \/ task[j].sub = task[t].sub)
        BY <1>0, <1>5, <2>1, <2>3 DEF Live
    <2>. QED BY <1>11, <2>2, <2>3, SettleTask
<1>12. ASSUME NEW t \in Task, Fetch(t) \/ Enter(t) \/ GatherFile(t) \/ GatherLink(t) PROVE Stands(s)
    BY <1>2, <1>12 DEF Fetch, Enter, GatherFile, GatherLink, db
<1>13. CASE Stop \/ UNCHANGED vars \/ \E m \in Message : Edit(m)
    BY <1>2, <1>13 DEF Stop, Edit, vars, db
<1>. QED BY <1>3, <1>4, <1>6, <1>7, <1>8, <1>9, <1>10, <1>11, <1>12, <1>13 DEF Next

LEMMA GoingLinks ==
    ASSUME Types, Shape, Held, [Next]_vars, NEW k \in Task, task'[k].pc = "gather", ~task'[k].cut,
           Going(k)
    PROVE  LinksStand(k)
<1>. DEFINE s == task[k].sub
<1>0. task[k].pc \in Working /\ ~task[k].cut /\ task'[k].sub = s /\ s \in Id
    BY DEF Going, Working, Shape, Fit, Types, TaskRec
<1>1. UNCHANGED links => LinksStand(k)
    BY DEF LinksStand, Rows
<1>2. CASE Reply
    <2>1. PICK x \in Live : \/ \E f \in Supplied \cap File : ReplyFile(x, f)
                            \/ \E u \in Supplied \cap Url : ReplyLink(x, u) \/ ReplyMetadata(x, u)
        BY <1>2 DEF Reply
    <2>2. ASSUME NEW f \in File, ReplyFile(x, f) PROVE LinksStand(k)
        BY <1>1, <2>2 DEF ReplyFile
    <2>3. ASSUME NEW u \in Url, ReplyLink(x, u) \/ ReplyMetadata(x, u) PROVE LinksStand(k)
        <3>1. PICK tab \in [Id -> LinkRow \cup {NoRow}], replaced \in SUBSET Id,
                   outs \in SUBSET OutcomeRow, commits \in BOOLEAN :
                  /\ \A l \in Rows(links) : /\ l \in Rows(tab) /\ tab[l].sub = links[l].sub
                                            /\ tab[l] = links[l] \/ (l \in replaced /\ links[l].sub = x)
                  /\ Resolves(x, tab, replaced, outs, commits)
            BY <2>3, ReplyResolves
        <3>2. CASE ~commits
            BY <1>1, <3>1, <3>2 DEF Resolves
        <3>3. CASE commits
            <4>1. task[k].sub = x => replaced \subseteq task'[k].old
                BY <3>1, <3>3, ResolvedTask DEF Live
            <4>2. /\ Rows(links') = Rows(tab)
                  /\ \A l \in Rows(tab) : links'[l].sub = tab[l].sub /\ links'[l].url = tab[l].url
                BY <3>1, <3>3, RepliedOnto DEF Relinked
            <4>. QED BY <3>1, <4>1, <4>2 DEF LinksStand
        <3>. QED BY <3>2, <3>3
    <2>. QED BY <2>1, <2>2, <2>3
<1>3. ASSUME NEW x \in Id \ {s}, Drop(x) PROVE LinksStand(k)
    BY <1>3, DropEffect DEF LinksStand
<1>4. ASSUME NEW x \in Id, Remove(x) PROVE LinksStand(k)
    <2>1. x # s
        BY <1>0, <1>4, RemoveEffect, CutTask
    <2>. QED BY <1>1, <1>3, <1>4, <2>1, RemoveEffect
<1>5. ASSUME NEW t \in Task, TearDown(t) PROVE LinksStand(k)
    <2>1. CASE task[t].sub \in Live
        <3>1. task[t].pc = "teardown" /\ k # t /\ links' = Delete(links, Of(links, task[t].sub))
            BY <1>5, <2>1 DEF TearDown, Going
        <3>2. task[t].sub # s
            <4>. SUFFICES ASSUME task[t].sub = s PROVE FALSE
                OBVIOUS
            <4>1. ~task[t].cut
                BY <1>0, <1>5, <2>1, <3>1, TearDownTask
            <4>. QED BY <1>0, <3>1, <4>1, Alone DEF Working
        <3>. DEFINE rs == Of(links, task[t].sub)
        <3>3. rs \in SUBSET Id /\ \A r \in Rows(links) : links[r].sub = s => r \notin rs
            BY <3>2 DEF Of, Rows
        <3>4. /\ Rows(Delete(links, rs)) = Rows(links) \ rs
              /\ \A r \in Rows(links) \ rs : Delete(links, rs)[r] = links[r]
            <4>. HIDE DEF rs
            <4>. QED BY <3>3, DeleteStays
        <3>. QED BY <3>1, <3>3, <3>4 DEF LinksStand
    <2>2. CASE task[t].sub \notin Live
        BY <1>1, <1>5, <2>2 DEF TearDown
    <2>. QED BY <2>1, <2>2
<1>6. ASSUME NEW t \in Task, Skeletons(t) PROVE LinksStand(k)
    <2>1. task[t].sub \in Live => LinksStand(k)
        BY <1>6, SkeletonEffect DEF LinksStand
    <2>. QED BY <1>1, <1>6, <2>1, SkeletonsTask
<1>7. ASSUME NEW t \in Task, Persist(t) PROVE LinksStand(k)
    <2>. SUFFICES ASSUME NEW l \in Rows(links)
                  PROVE  /\ l \in Rows(links') /\ links'[l].sub = links[l].sub
                         /\ links'[l].url = links[l].url
        BY DEF LinksStand
    <2>1. l \in Id /\ links[l] # NoRow
        BY DEF Rows
    <2>2. CASE links'[l] = links[l]
        BY <2>1, <2>2 DEF Rows
    <2>3. CASE links'[l] # links[l]
        <3>1. /\ links'[l] # NoRow
              /\ \E o \in task[t].outs :
                     links'[l] = [sub |-> links[l].sub, url |-> links[l].url, meta |-> o.url, uri |-> o.uri,
                                  stray |-> task[t].cut \/ links[l].url # o.url]
            BY <1>7, <2>1, <2>3, PersistLinks
        <3>2. links'[l].sub = links[l].sub /\ links'[l].url = links[l].url
            BY <3>1
        <3>. QED BY <2>1, <3>1, <3>2 DEF Rows
    <2>. QED BY <2>2, <2>3
<1>8. ASSUME NEW t \in Task, Settle(t) PROVE LinksStand(k)
    <2>1. t # k
        BY <1>8 DEF Settle, Going
    <2>2. CASE UNCHANGED <<db, vol, answered>>
        BY <1>1, <2>2 DEF db
    <2>3. CASE /\ task[t].sub \in Live /\ Drop(task[t].sub)
               /\ \A j \in Task \ {t} : task'[j].cut = (task[j].cut \/ task[j].sub = task[t].sub)
        BY <1>0, <1>3, <2>1, <2>3 DEF Live
    <2>. QED BY <1>8, <2>2, <2>3, SettleTask
<1>9. ASSUME NEW t \in Task, Fetch(t) \/ Enter(t) \/ GatherFile(t) \/ GatherLink(t) \/ Restore(t)
      PROVE  LinksStand(k)
    BY <1>1, <1>9 DEF Fetch, Enter, GatherFile, GatherLink, Restore, db
<1>10. CASE Stop \/ UNCHANGED vars \/ (\E r \in Id : Describe(r)) \/ \E m \in Message : Edit(m)
    BY <1>1, <1>10 DEF Stop, Describe, Edit, vars, db
<1>. QED BY <1>2, <1>4, <1>5, <1>6, <1>7, <1>8, <1>9, <1>10 DEF Next

\* Under the ids of a plan are the rows it was made from.
Planned(k) ==
    /\ \A a \in task[k].rows : /\ a.id \in Rows(atts) /\ atts[a.id].sub = task[k].sub
                               /\ atts[a.id].file = a.file
    /\ \A i \in DOMAIN task[k].files : \E a \in task[k].rows : a.file = task[k].files[i]

PlanAgrees(k) ==
    \A l \in task[k].plan : l.id \notin task[k].old =>
        l.id \in Rows(links) /\ links[l.id].sub = task[k].sub /\ links[l.id].url = l.url

PlanInv == \A k \in Task : task[k].pc = "gather" /\ ~task[k].cut => Planned(k) /\ PlanAgrees(k)

LEMMA SkeletonsJob ==
    ASSUME Types, Shape, NEW k \in Task, Skeletons(k), task[k].sub \in Live
    PROVE  SameJob(task'[k], task[k]) /\ task'[k].sub = task[k].sub /\ task'[k].cut = task[k].cut
<1>1. Advanced(k) /\ task'[k].pc = "gather"
    BY SkeletonsTask
<1>2. ~Finish(k)
    BY <1>1, FinishTask, BlankFit
<1>. QED BY <1>1, <1>2 DEF Advanced

LEMMA PlanMade ==
    ASSUME Types, Shape, NEW k \in Task, Skeletons(k), task[k].sub \in Live
    PROVE  Planned(k)' /\ PlanAgrees(k)'
<1>. DEFINE s == task[k].sub
            new == Rows(atts') \ Rows(atts)
<1>1. /\ SameJob(task'[k], task[k]) /\ task'[k].sub = s
    BY SkeletonsJob
<1>2. /\ task'[k].rows = {[id |-> r, file |-> atts'[r].file] : r \in new}
      /\ task'[k].plan = {[id |-> l, url |-> links'[l].url] : l \in Of(links', s)}
    BY SkeletonsTask
<1>3. /\ \A r \in new : atts'[r].sub = s
      /\ \A i \in DOMAIN task[k].files : \E r \in new : atts'[r].file = task[k].files[i]
    BY SkeletonFiles
<1>. HIDE DEF new
<1>4. \A a \in task'[k].rows : \E r \in new : a.id = r /\ a.file = atts'[r].file
    BY <1>2
<1>5. \A r \in new : \E a \in task'[k].rows : a.id = r /\ a.file = atts'[r].file
    <2>1. \A r \in new : [id |-> r, file |-> atts'[r].file] \in task'[k].rows
        BY <1>2
    <2>. QED BY <2>1
<1>6. new \subseteq Rows(atts')
    BY DEF new
<1>7. Planned(k)'
    <2>1. task'[k].files = task[k].files
        BY <1>1 DEF SameJob
    <2>. QED BY <1>1, <1>3, <1>4, <1>5, <1>6, <2>1 DEF Planned
<1>8. \A l \in task'[k].plan : l.id \in Of(links', s) /\ l.url = links'[l.id].url
    BY <1>2
<1>9. PlanAgrees(k)'
    BY <1>1, <1>8 DEF PlanAgrees, Of
<1>. QED BY <1>7, <1>9

LEMMA PlanKept ==
    ASSUME Types, Shape, Held, PlanInv, [Next]_vars
    PROVE  PlanInv'
<1>. SUFFICES ASSUME NEW k \in Task, task'[k].pc = "gather", ~task'[k].cut
              PROVE  Planned(k)' /\ PlanAgrees(k)'
    BY DEF PlanInv
<1>1. CASE Skeletons(k) /\ task[k].sub \in Live
    BY <1>1, PlanMade
<1>2. CASE Going(k)
    <2>1. /\ task[k].pc = "gather" /\ ~task[k].cut /\ SameJob(task'[k], task[k]) /\ SamePlan(task'[k], task[k])
          /\ task'[k].sub = task[k].sub /\ task[k].old \subseteq task'[k].old
        BY <1>2 DEF Going
    <2>2. task'[k].rows = task[k].rows /\ task'[k].plan = task[k].plan /\ task'[k].files = task[k].files
        BY <2>1 DEF SameJob, SamePlan
    <2>3. Planned(k) /\ PlanAgrees(k)
        BY <2>1 DEF PlanInv
    <2>4. Stands(task[k].sub) /\ LinksStand(k)
        BY <1>2, GoingRows, GoingLinks
    <2>5. Planned(k)'
        BY <2>1, <2>2, <2>3, <2>4 DEF Planned, Stands
    <2>6. PlanAgrees(k)'
        BY <2>1, <2>2, <2>3, <2>4 DEF PlanAgrees, LinksStand
    <2>. QED BY <2>5, <2>6
<1>. QED BY <1>1, <1>2, GatherTask

LEMMA PlansHold == Spec => [](Claims /\ RowInv /\ PlanInv)
<1>1. Init => PlanInv
    BY BlankFit DEF Init, PlanInv
<1>2. Claims /\ PlanInv /\ [Next]_vars => PlanInv'
    BY PlanKept DEF Claims
<1>. QED BY <1>1, <1>2, RowsHold, PTL DEF Spec

\* Theorem: an ingest whose submission was not removed finds the rows it wrote, one for
\* each attachment of its message, under the ids it writes by.
THEOREM GathersLand == Spec => []PlanHolds
<1>1. Claims /\ RowInv /\ PlanInv => PlanHolds
    <2>. SUFFICES ASSUME Claims, RowInv, PlanInv, NEW t \in Task, task[t].pc = "gather", ~task[t].cut
                  PROVE  /\ \A a \in task[t].rows : atts[a.id].sub = task[t].sub /\ atts[a.id].file = a.file
                         /\ \A i \in DOMAIN task[t].files :
                                Cardinality({r \in Of(atts, task[t].sub) : atts[r].file = task[t].files[i]}) = 1
        BY DEF PlanHolds
    <2>1. Planned(t)
        BY DEF PlanInv
    <2>2. ASSUME NEW i \in DOMAIN task[t].files
          PROVE  Cardinality({r \in Of(atts, task[t].sub) : atts[r].file = task[t].files[i]}) = 1
        <3>. DEFINE V == {r \in Of(atts, task[t].sub) : atts[r].file = task[t].files[i]}
        <3>1. PICK a \in task[t].rows : a.file = task[t].files[i]
            BY <2>1 DEF Planned
        <3>2. a.id \in V
            BY <2>1, <3>1 DEF Planned, Of
        <3>3. \A r, q \in V : r = q
            BY DEF RowInv, OneEach, Of
        <3>. HIDE DEF V
        <3>4. V = {a.id}
            BY <3>2, <3>3
        <3>5. Cardinality(V) = 1
            BY <3>4, FS_Singleton, Zenon
        <3>. QED BY <3>5 DEF V
    <2>. QED BY <2>1, <2>2 DEF Planned
<1>. QED BY <1>1, PlansHold, PTL

-----------------------------------------------------------------------------
(* The disk.                                                               *)

Now(p, what, stray) == p \in DOMAIN disk' /\ disk'[p].of = what /\ disk'[p].stray = stray

LEMMA Written ==
    ASSUME NEW p, NEW what, NEW stray, Write(p, what, stray)
    PROVE  /\ Now(p, what, stray)
           /\ \A q \in DOMAIN disk : q # p => q \in DOMAIN disk' /\ disk'[q] = disk[q]
BY DEF Write, Now

\* What becomes of what is at a place: it goes with its submission, or is written over.
Emptied(s) == /\ \A k \in Task : task'[k].pc = "gather" /\ task'[k].sub = s => task'[k].cut
              /\ \A r \in Rows(atts') : atts'[r].sub = s => atts'[r].stray

ByGatherFile(p) ==
    \E t \in Task : \E a \in task[t].todo :
        /\ task[t].pc = "gather" /\ p = FilePath(task[t].sub, a.id)
        /\ Now(p, a.file, task[t].cut)

ByGatherLink(p) ==
    \E t \in Task : \E l \in task[t].plan :
        /\ task[t].pc = "gather" /\ ~task[t].video /\ p = VideoPath(task[t].sub, l.id)
        /\ \A o \in task[t].outs : o.id # l.id
        /\ Now(p, l.url, Outdated(t, l))

ByReplyFile(p) == p \in DOMAIN disk' /\ \E s \in Id, r \in Id \ Rows(atts) : p = FilePath(s, r)

ByReplyLink(p) ==
    /\ p \in DOMAIN disk'
    /\ \E s \in Id, l \in Id : /\ p = VideoPath(s, l) /\ ~HasVideo(atts, s)
                               /\ disk'[p].stray \/ HasVideo(atts', s)

LEMMA LinkReplyDisk ==
    ASSUME Types, NEW s \in Live, NEW u \in Url, ReplyLink(s, u) \/ ReplyMetadata(s, u),
           NEW p \in DOMAIN disk
    PROVE  (p \in DOMAIN disk' /\ disk'[p] = disk[p]) \/ ByReplyLink(p)
<1>0. s \in Id
    BY DEF Live
<1>1. PICK tab \in [Id -> LinkRow \cup {NoRow}], replaced \in SUBSET Id,
           outs \in SUBSET OutcomeRow, commits \in BOOLEAN :
          Resolves(s, tab, replaced, outs, commits)
    BY ReplyResolves
<1>2. \/ UNCHANGED disk
      \/ \E o \in outs : o.video /\ Write(VideoPath(s, o.id), o.url, ~commits)
    BY <1>1 DEF Resolves
<1>3. ASSUME NEW o \in outs, o.video, Write(VideoPath(s, o.id), o.url, ~commits)
      PROVE  (p \in DOMAIN disk' /\ disk'[p] = disk[p]) \/ ByReplyLink(p)
    <2>1. /\ Now(VideoPath(s, o.id), o.url, ~commits)
          /\ p # VideoPath(s, o.id) => p \in DOMAIN disk' /\ disk'[p] = disk[p]
        BY <1>3, Written
    <2>2. ~HasVideo(atts, s) /\ o.id \in Of(tab, s) /\ o.id \in Id
        BY <1>1, <1>3 DEF Resolves, OutcomeRow
    <2>3. commits => HasVideo(atts', s)
        <3>. SUFFICES ASSUME commits PROVE HasVideo(atts', s)
            OBVIOUS
        <3>1. Fits(atts, 1) /\ atts' = AttachVideo(atts, tab, s, outs, FALSE)
            BY <1>1 DEF Resolves
        <3>2. atts \in [Id -> AttachmentRow \cup {NoRow}]
            BY DEF Types
        <3>3. Attaches(atts, tab, s, outs, FALSE, atts')
            BY <1>0, <3>1, <3>2, AttachRows
        <3>4. tab[o.id] # NoRow
            BY <2>2 DEF Of, Rows
        <3>. QED BY <1>3, <3>3, <3>4 DEF Attaches
    <2>4. CASE p = VideoPath(s, o.id)
        <3>1. disk'[p].stray \/ HasVideo(atts', s)
            BY <2>1, <2>3, <2>4 DEF Now
        <3>. QED BY <1>0, <2>1, <2>2, <2>4, <3>1 DEF ByReplyLink, Now
    <2>. QED BY <2>1, <2>4
<1>. QED BY <1>2, <1>3

LEMMA DiskStep ==
    ASSUME Types, Shape, Held, [Next]_vars, NEW p \in DOMAIN disk
    PROVE  \/ p \in DOMAIN disk' /\ disk'[p] = disk[p]
           \/ Emptied(p[1])
           \/ ByGatherFile(p) \/ ByGatherLink(p) \/ ByReplyFile(p) \/ ByReplyLink(p)
<1>. DEFINE Same == p \in DOMAIN disk' /\ disk'[p] = disk[p]
<1>1. UNCHANGED disk => Same
    OBVIOUS
<1>2. CASE Reply
    <2>1. PICK s \in Live : \/ \E f \in Supplied \cap File : ReplyFile(s, f)
                            \/ \E u \in Supplied \cap Url : ReplyLink(s, u) \/ ReplyMetadata(s, u)
        BY <1>2 DEF Reply
    <2>2. ASSUME NEW f \in File, ReplyFile(s, f) PROVE Same \/ ByReplyFile(p)
        <3>. DEFINE r == NextId(Rows(atts))
        <3>1. PICK stored, commits \in BOOLEAN :
                  /\ r \in Id \ Rows(atts)
                  /\ IF stored THEN Write(FilePath(s, r), f, ~commits) ELSE UNCHANGED disk
            BY <2>2, ReplyFileEffect DEF Live
        <3>. HIDE DEF r
        <3>2. CASE stored
            BY <3>1, <3>2, Written DEF ByReplyFile, Now, Live
        <3>. QED BY <1>1, <3>1, <3>2
    <2>. QED BY <2>1, <2>2, LinkReplyDisk
<1>3. ASSUME NEW s \in Id, RemoveFiles(s) PROVE Same \/ p[1] = s
    BY <1>3, RemoveFilesEffect
<1>4. ASSUME NEW s \in Id, Drop(s) PROVE \A r \in Rows(atts') : atts'[r].sub # s
    BY <1>4, DropEffect
<1>5. ASSUME NEW s \in Id, Remove(s) PROVE Same \/ Emptied(p[1])
    <2>1. \A k \in Task : task'[k].sub = s => task'[k].cut
        <3>. SUFFICES ASSUME NEW k \in Task, task'[k].sub = s PROVE task'[k].cut
            OBVIOUS
        <3>1. Recut(task'[k], task[k]) /\ task'[k].cut = (task[k].cut \/ task[k].sub = s)
            BY <1>5, RemoveEffect, CutTask
        <3>. QED BY <3>1 DEF Recut
    <2>2. \A r \in Rows(atts') : atts'[r].sub = s => atts'[r].stray
        <3>1. CASE Drop(s)
            BY <1>4, <3>1
        <3>2. CASE ~Drop(s)
            BY <1>5, <3>2, RemoveEffect
        <3>. QED BY <3>1, <3>2
    <2>. QED BY <1>3, <1>5, <2>1, <2>2, RemoveEffect DEF Emptied
<1>6. ASSUME NEW t \in Task, Settle(t) PROVE Same \/ Emptied(p[1])
    <2>1. CASE UNCHANGED <<db, vol, answered>>
        BY <1>1, <2>1 DEF vol
    <2>2. CASE /\ task[t].sub \in Live /\ Drop(task[t].sub) /\ RemoveFiles(task[t].sub)
               /\ \A j \in Task \ {t} : task'[j].cut = (task[j].cut \/ task[j].sub = task[t].sub)
        <3>1. ASSUME NEW k \in Task, task'[k].pc = "gather", task'[k].sub = task[t].sub PROVE task'[k].cut
            <4>1. k # t
                BY <1>6, <3>1, SettleTask, BlankFit
            <4>2. task[k].sub = task'[k].sub
                BY <1>6, <4>1, SettleTask DEF Recut
            <4>. QED BY <2>2, <3>1, <4>1, <4>2
        <3>2. task[t].sub \in Id
            BY <2>2 DEF Live
        <3>. QED BY <1>3, <1>4, <2>2, <3>1, <3>2 DEF Emptied
    <2>. QED BY <1>6, <2>1, <2>2, SettleTask
<1>7. ASSUME NEW t \in Task, GatherFile(t) PROVE Same \/ ByGatherFile(p)
    <2>1. PICK a \in task[t].todo : \/ Write(FilePath(task[t].sub, a.id), a.file, task[t].cut)
                                    \/ UNCHANGED disk
        BY <1>7, GatherFileTask
    <2>2. CASE Write(FilePath(task[t].sub, a.id), a.file, task[t].cut)
        BY <1>7, <2>2, Written DEF ByGatherFile, GatherFile
    <2>. QED BY <1>1, <2>1, <2>2
<1>8. ASSUME NEW t \in Task, GatherLink(t) PROVE Same \/ ByGatherLink(p)
    <2>1. PICK l \in task[t].plan, o \in OutcomeRow :
              /\ o.video => ~task[t].video
              /\ \A q \in task[t].outs : q.id # l.id
              /\ IF o.video THEN Write(VideoPath(task[t].sub, l.id), l.url, Outdated(t, l))
                 ELSE UNCHANGED disk
        BY <1>8, GatherLinkOutcome
    <2>2. CASE o.video
        <3>1. /\ Now(VideoPath(task[t].sub, l.id), l.url, Outdated(t, l))
              /\ p # VideoPath(task[t].sub, l.id) => Same
            BY <2>1, <2>2, Written
        <3>. QED BY <1>8, <2>1, <2>2, <3>1 DEF ByGatherLink, GatherLink
    <2>. QED BY <1>1, <2>1, <2>2
<1>9. ASSUME NEW t \in Task, Fetch(t) \/ Enter(t) \/ TearDown(t) \/ Skeletons(t) \/ Persist(t) \/ Restore(t)
      PROVE  Same
    BY <1>1, <1>9 DEF Fetch, Enter, TearDown, Skeletons, Persist, Restore, vol
<1>10. CASE Stop \/ UNCHANGED vars \/ (\E r \in Id : Describe(r)) \/ \E m \in Message : Edit(m)
    BY <1>1, <1>10 DEF Stop, Describe, Edit, vars, vol
<1>. QED BY <1>2, <1>5, <1>6, <1>7, <1>8, <1>9, <1>10 DEF Next

\* How a row comes to have a path that is not stray.
Unmoved(r) ==
    /\ r \in Rows(atts) /\ ~atts[r].stray
    /\ atts'[r].sub = atts[r].sub /\ atts'[r].file = atts[r].file /\ atts'[r].path = atts[r].path

Stored(r) ==
    /\ r \in Rows(atts) /\ atts'[r].sub = atts[r].sub /\ atts'[r].file = atts[r].file
    /\ UNCHANGED disk
    /\ \E t \in Task : /\ task[t].pc = "gather" /\ ~task[t].cut
                       /\ \E a \in task[t].got : a.id = r
                       /\ atts'[r].path = FilePath(task[t].sub, r)

Attached(r) ==
    /\ UNCHANGED disk
    /\ \E t \in Task : /\ task[t].pc = "gather" /\ ~task[t].cut /\ task'[t].pc = "close"
                       /\ task[t].sub \in Id /\ ~HasVideo(atts, task[t].sub)
                       /\ \E o \in task[t].outs :
                              /\ o.video /\ o \in OutcomeRow
                              /\ atts'[r].sub = task[t].sub /\ atts'[r].file = o.url
                              /\ atts'[r].path = VideoPath(task[t].sub, o.id)

FromReply(r) ==
    /\ atts'[r].file \in File /\ atts'[r].sub \in Id /\ atts'[r].path = FilePath(atts'[r].sub, r)
    /\ Now(atts'[r].path, atts'[r].file, FALSE)

FromLink(r) ==
    /\ atts'[r].file \in Url /\ atts'[r].sub \in Id
    /\ \E l \in Id : atts'[r].path = VideoPath(atts'[r].sub, l) /\ links'[l].url = atts'[r].file
    /\ Now(atts'[r].path, atts'[r].file, FALSE)

LEMMA LinkReplyPath ==
    ASSUME Types, NEW s \in Live, NEW u \in Url, ReplyLink(s, u) \/ ReplyMetadata(s, u),
           NEW r \in Rows(atts'), ~atts'[r].stray
    PROVE  Unmoved(r) \/ FromLink(r)
<1>0. s \in Id
    BY DEF Live
<1>1. PICK tab \in [Id -> LinkRow \cup {NoRow}], replaced \in SUBSET Id,
           outs \in SUBSET OutcomeRow, commits \in BOOLEAN :
          Resolves(s, tab, replaced, outs, commits)
    BY ReplyResolves
<1>2. CASE ~commits
    BY <1>1, <1>2 DEF Resolves, Unmoved, Rows
<1>3. CASE commits
    <2>1. Fits(atts, 1) /\ atts' = AttachVideo(atts, tab, s, outs, FALSE)
        BY <1>1, <1>3 DEF Resolves
    <2>2. atts \in [Id -> AttachmentRow \cup {NoRow}]
        BY DEF Types
    <2>3. Attaches(atts, tab, s, outs, FALSE, atts')
        BY <1>0, <2>1, <2>2, AttachRows
    <2>4. CASE r \in Rows(atts)
        BY <2>3, <2>4 DEF Attaches, Unmoved
    <2>5. CASE r \notin Rows(atts)
        <3>1. PICK o \in outs :
                  /\ o.video /\ tab[o.id] # NoRow
                  /\ atts'[r] = [sub |-> s, file |-> o.url, path |-> VideoPath(s, o.id),
                                 alt |-> FALSE, stray |-> FALSE]
            BY <2>3, <2>5 DEF Attaches
        <3>2. atts'[r].sub = s /\ atts'[r].file = o.url /\ atts'[r].path = VideoPath(s, o.id)
            BY <3>1
        <3>3. o.id \in Id /\ o.url \in Url /\ o.id \in Of(tab, s) /\ o.url = tab[o.id].url
            BY <1>1 DEF Resolves, OutcomeRow
        <3>4. links'[o.id].url = o.url
            <4>1. o.id \in Rows(tab)
                BY <3>3 DEF Of
            <4>3. links'[o.id].url = tab[o.id].url
                BY <1>1, <1>3, <4>1, RepliedOnto DEF Relinked
            <4>. QED BY <3>3, <4>3
        <3>5. Now(VideoPath(s, o.id), o.url, FALSE)
            <4>1. PICK x \in outs : x.video /\ Write(VideoPath(s, x.id), x.url, ~commits)
                BY <1>1, <3>1 DEF Resolves
            <4>2. x.id = o.id /\ x.url = o.url
                BY <1>1, <3>1, <4>1 DEF Resolves
            <4>3. Now(VideoPath(s, x.id), x.url, ~commits)
                BY <4>1, Written
            <4>. QED BY <1>3, <4>2, <4>3 DEF Now
        <3>. QED BY <1>0, <3>2, <3>3, <3>4, <3>5 DEF FromLink
    <2>. QED BY <2>4, <2>5
<1>. QED BY <1>2, <1>3

LEMMA PersistPath ==
    ASSUME Types, Shape, NEW t \in Task, Persist(t),
           NEW r \in Rows(atts'), ~atts'[r].stray
    PROVE  Unmoved(r) \/ Stored(r) \/ Attached(r)
<1>. DEFINE s == task[t].sub
<1>1. /\ s \in Id /\ task[t].outs \subseteq OutcomeRow /\ task[t].cut \in BOOLEAN
      /\ task[t].pc = "gather" /\ UNCHANGED disk /\ task'[t].pc = "close"
    BY PersistTask DEF Types, TaskRec, Shape, Fit, Working, Persist, vol
<1>2. PICK stored \in [Id -> AttachmentRow \cup {NoRow}] :
          /\ Rows(stored) = Rows(atts)
          /\ \A q \in Rows(atts) : /\ stored[q].sub = atts[q].sub /\ stored[q].file = atts[q].file
                                   /\ \/ stored[q] = atts[q]
                                      \/ /\ \E a \in task[t].got : a.id = q
                                         /\ stored[q].path = FilePath(s, q)
                                         /\ stored[q].stray = task[t].cut
          /\ Fits(stored, 1)
          /\ atts' = AttachVideo(stored, links, s, task[t].outs, task[t].cut)
    BY <1>1, PersistEffect
<1>3. Attaches(stored, links, s, task[t].outs, task[t].cut, atts')
    BY <1>1, <1>2, AttachRows
<1>4. CASE r \in Rows(atts)
    <2>1. atts'[r] = stored[r]
        BY <1>2, <1>3, <1>4 DEF Attaches
    <2>2. CASE stored[r] = atts[r]
        BY <1>4, <2>1, <2>2 DEF Unmoved
    <2>3. CASE stored[r] # atts[r]
        BY <1>1, <1>2, <1>4, <2>1, <2>3 DEF Stored
    <2>. QED BY <2>2, <2>3
<1>5. CASE r \notin Rows(atts)
    <2>1. PICK o \in task[t].outs :
              /\ o.video
              /\ atts'[r] = [sub |-> s, file |-> o.url, path |-> VideoPath(s, o.id),
                             alt |-> FALSE, stray |-> task[t].cut]
        BY <1>2, <1>3, <1>5 DEF Attaches
    <2>2. /\ atts'[r].sub = s /\ atts'[r].file = o.url /\ atts'[r].path = VideoPath(s, o.id)
          /\ atts'[r].stray = task[t].cut
        BY <2>1
    <2>3. ~HasVideo(stored, s)
        BY <1>2, <1>3, <1>5 DEF Attaches
    <2>4. ~HasVideo(atts, s)
        BY <1>2, <2>3 DEF HasVideo, Of
    <2>. QED BY <1>1, <2>1, <2>2, <2>4 DEF Attached
<1>. QED BY <1>4, <1>5

LEMMA PathStep ==
    ASSUME Types, Shape, [Next]_vars, NEW r \in Rows(atts'), ~atts'[r].stray, atts'[r].path # NoPath
    PROVE  Unmoved(r) \/ Stored(r) \/ Attached(r) \/ FromReply(r) \/ FromLink(r)
<1>1. UNCHANGED atts => Unmoved(r)
    BY DEF Unmoved, Rows
<1>2. CASE Reply
    <2>1. PICK s \in Live : \/ \E f \in Supplied \cap File : ReplyFile(s, f)
                            \/ \E u \in Supplied \cap Url : ReplyLink(s, u) \/ ReplyMetadata(s, u)
        BY <1>2 DEF Reply
    <2>2. ASSUME NEW f \in File, ReplyFile(s, f) PROVE Unmoved(r) \/ FromReply(r)
        <3>. DEFINE n == NextId(Rows(atts))
        <3>1. PICK stored, commits \in BOOLEAN :
                  /\ n \in Id \ Rows(atts)
                  /\ IF stored THEN Write(FilePath(s, n), f, ~commits) ELSE UNCHANGED disk
                  /\ ~commits => UNCHANGED atts
                  /\ commits =>
                       /\ \A q \in Rows(atts) : atts'[q] = atts[q]
                       /\ Rows(atts') = Rows(atts) \cup {n}
                       /\ atts'[n] = [sub |-> s, file |-> f, alt |-> FALSE, stray |-> FALSE,
                                      path |-> IF stored THEN FilePath(s, n) ELSE NoPath]
            BY <2>2, ReplyFileEffect DEF Live
        <3>. HIDE DEF n
        <3>2. CASE commits /\ r \in Rows(atts)
            BY <3>1, <3>2 DEF Unmoved
        <3>3. CASE commits /\ r = n
            <4>1. /\ atts'[r].sub = s /\ atts'[r].file = f
                  /\ atts'[r].path = IF stored THEN FilePath(s, n) ELSE NoPath
                BY <3>1, <3>3
            <4>2. stored
                BY <4>1
            <4>3. Now(FilePath(s, n), f, ~commits)
                BY <3>1, <4>2, Written
            <4>. QED BY <3>3, <4>1, <4>2, <4>3 DEF FromReply, Now, Live
        <3>. QED BY <1>1, <3>1, <3>2, <3>3
    <2>. QED BY <2>1, <2>2, LinkReplyPath
<1>3. ASSUME NEW x \in Id, Drop(x) PROVE Unmoved(r)
    BY <1>3, DropEffect DEF Unmoved
<1>4. ASSUME NEW q \in Id, Describe(q) PROVE Unmoved(r)
    BY <1>4, DescribeEffect DEF Unmoved
<1>5. ASSUME NEW x \in Id, Remove(x) PROVE Unmoved(r)
    <2>1. CASE Drop(x)
        BY <1>3, <2>1
    <2>2. CASE ~Drop(x)
        BY <1>5, <2>2, RemoveEffect DEF Unmoved
    <2>. QED BY <2>1, <2>2
<1>6. ASSUME NEW t \in Task, TearDown(t) PROVE Unmoved(r)
    <2>1. CASE UNCHANGED atts
        BY <1>1, <2>1
    <2>2. CASE atts' = Delete(atts, {q \in Of(atts, task[t].sub) : atts[q].file \in File})
        <3>. DEFINE rs == {q \in Of(atts, task[t].sub) : atts[q].file \in File}
        <3>1. rs \in SUBSET Id
            BY DEF Of, Rows
        <3>. HIDE DEF rs
        <3>2. /\ Rows(Delete(atts, rs)) = Rows(atts) \ rs
              /\ \A q \in Rows(atts) \ rs : Delete(atts, rs)[q] = atts[q]
            BY <3>1, DeleteStays
        <3>. QED BY <2>2, <3>2 DEF rs, Unmoved
    <2>. QED BY <1>6, <2>1, <2>2 DEF TearDown
<1>7. ASSUME NEW t \in Task, Skeletons(t) PROVE Unmoved(r)
    <2>1. CASE task[t].sub \in Live
        BY <1>7, <2>1, SkeletonFiles DEF Unmoved
    <2>. QED BY <1>1, <1>7, <2>1, SkeletonsTask
<1>8. ASSUME NEW t \in Task, Persist(t) PROVE Unmoved(r) \/ Stored(r) \/ Attached(r)
    BY <1>8, PersistPath
<1>9. ASSUME NEW t \in Task, Restore(t) PROVE Unmoved(r)
    <2>1. task[t].sub \in Id /\ atts' = Restored(t)
        BY <1>9 DEF Types, TaskRec, Shape, Fit, Working, Restore
    <2>. QED BY <2>1, RestoreEffect DEF Unmoved
<1>10. ASSUME NEW t \in Task, Settle(t) PROVE Unmoved(r)
    BY <1>1, <1>3, <1>10, SettleTask DEF db, Live
<1>11. ASSUME NEW t \in Task, Fetch(t) \/ Enter(t) \/ GatherFile(t) \/ GatherLink(t) PROVE Unmoved(r)
    BY <1>1, <1>11 DEF Fetch, Enter, GatherFile, GatherLink, db
<1>12. CASE Stop \/ UNCHANGED vars \/ \E m \in Message : Edit(m)
    BY <1>1, <1>12 DEF Stop, Edit, vars, db
<1>. QED BY <1>2, <1>4, <1>5, <1>6, <1>7, <1>8, <1>9, <1>10, <1>11, <1>12 DEF Next

\* A path is the row's own: of its submission, and of its id or of a link.
Paths ==
    \A r \in Rows(atts) : ~atts[r].stray /\ atts[r].path # NoPath =>
        \/ atts[r].file \in File /\ atts[r].path = FilePath(atts[r].sub, r)
        \/ atts[r].file \in Url /\ \E l \in Id : atts[r].path = VideoPath(atts[r].sub, l)

Good(p, f) == p \in DOMAIN disk /\ (disk[p].of = f \/ disk[p].stray)
GoodPath(r) == Good(atts[r].path, atts[r].file)

\* What a gather has downloaded is there, until another video makes its own superfluous.
GotOnDisk(k) == \A a \in task[k].got : Good(FilePath(task[k].sub, a.id), a.file)

VideosOnDisk(k) ==
    \A o \in task[k].outs : o.video =>
        Good(VideoPath(task[k].sub, o.id), o.url) \/ HasVideo(atts, task[k].sub)

\* Where it may yet put a video there is none of another url.
VideoPlaced(k) ==
    ~task[k].video =>
        \A r \in Of(atts, task[k].sub), l \in task[k].plan :
            /\ atts[r].file \in Url /\ ~atts[r].stray /\ l.id \notin task[k].old
            /\ atts[r].path = VideoPath(task[k].sub, l.id)
            => atts[r].file = l.url

DiskInv == \A k \in Task : task[k].pc = "gather" /\ ~task[k].cut =>
               GotOnDisk(k) /\ VideosOnDisk(k) /\ VideoPlaced(k)

LEMMA PathsKept ==
    ASSUME Types, Shape, PlanInv, Paths, [Next]_vars
    PROVE  Paths'
<1>. DEFINE Own(r) == \/ atts'[r].file \in File /\ atts'[r].path = FilePath(atts'[r].sub, r)
                      \/ atts'[r].file \in Url /\ \E l \in Id : atts'[r].path = VideoPath(atts'[r].sub, l)
<1>. SUFFICES ASSUME NEW r \in Rows(atts'), ~atts'[r].stray, atts'[r].path # NoPath
              PROVE  Own(r)
    BY DEF Paths
<1>1. CASE Unmoved(r)
    BY <1>1 DEF Unmoved, Paths
<1>2. CASE Stored(r)
    <2>0. PICK t \in Task : /\ task[t].pc = "gather" /\ ~task[t].cut
                           /\ \E a \in task[t].got : a.id = r
                           /\ atts'[r].path = FilePath(task[t].sub, r)
        BY <1>2 DEF Stored
    <2>1. PICK a \in task[t].got :
              /\ task[t].pc = "gather" /\ ~task[t].cut /\ a.id = r
              /\ atts'[r].path = FilePath(task[t].sub, r)
        BY <2>0
    <2>2. a \in task[t].rows /\ a.file \in File
        BY DEF Shape, Fit, Types, TaskRec, Skeleton
    <2>3. atts[r].sub = task[t].sub /\ atts[r].file = a.file
        BY <2>1, <2>2 DEF PlanInv, Planned
    <2>. QED BY <1>2, <2>1, <2>2, <2>3 DEF Stored
<1>3. CASE Attached(r)
    BY <1>3 DEF Attached, OutcomeRow
<1>4. CASE FromReply(r) \/ FromLink(r)
    BY <1>4 DEF FromReply, FromLink
<1>. QED BY <1>1, <1>2, <1>3, <1>4, PathStep

\* The file at a row's path stays its own.
LEMMA PathStaysGood ==
    ASSUME Types, Shape, Held, PlanInv, Paths, DiskInv, [Next]_vars,
           NEW r \in Rows(atts'), ~atts'[r].stray, atts'[r].path # NoPath, Unmoved(r),
           GoodPath(r)
    PROVE  GoodPath(r)'
<1>. DEFINE p == atts[r].path  f == atts[r].file  s == atts[r].sub
<1>1. /\ r \in Rows(atts) /\ ~atts[r].stray /\ p # NoPath /\ p \in DOMAIN disk
      /\ atts'[r].path = p /\ atts'[r].file = f /\ atts'[r].sub = s
    BY DEF Unmoved, GoodPath, Good
<1>2. \/ f \in File /\ p = FilePath(s, r)
      \/ f \in Url /\ \E l \in Id : p = VideoPath(s, l)
    BY <1>1 DEF Paths
<1>3. CASE p \in DOMAIN disk' /\ disk'[p] = disk[p]
    BY <1>1, <1>3 DEF GoodPath, Good
<1>4. CASE Emptied(p[1])
    <2>1. p[1] = s
        BY <1>2 DEF FilePath, VideoPath
    <2>. QED BY <1>1, <1>4, <2>1 DEF Emptied
<1>5. CASE ByGatherFile(p)
    <2>0. PICK t \in Task : \E a \in task[t].todo :
              /\ task[t].pc = "gather" /\ p = FilePath(task[t].sub, a.id)
              /\ Now(p, a.file, task[t].cut)
        BY <1>5 DEF ByGatherFile
    <2>1. PICK a \in task[t].todo :
              /\ task[t].pc = "gather" /\ p = FilePath(task[t].sub, a.id)
              /\ Now(p, a.file, task[t].cut)
        BY <2>0
    <2>2. s = task[t].sub /\ r = a.id
        BY <1>2, <2>1 DEF FilePath, VideoPath
    <2>3. CASE task[t].cut
        BY <1>1, <2>1, <2>3 DEF Now, GoodPath, Good
    <2>4. CASE ~task[t].cut
        <3>1. a \in task[t].rows
            BY DEF Shape, Fit
        <3>2. a.file = f
            BY <2>1, <2>2, <2>4, <3>1 DEF PlanInv, Planned
        <3>. QED BY <1>1, <2>1, <3>2 DEF Now, GoodPath, Good
    <2>. QED BY <2>3, <2>4
<1>6. CASE ByGatherLink(p)
    <2>0. PICK t \in Task : \E l \in task[t].plan :
              /\ task[t].pc = "gather" /\ ~task[t].video /\ p = VideoPath(task[t].sub, l.id)
              /\ Now(p, l.url, Outdated(t, l))
        BY <1>6 DEF ByGatherLink
    <2>1. PICK l \in task[t].plan :
              /\ task[t].pc = "gather" /\ ~task[t].video /\ p = VideoPath(task[t].sub, l.id)
              /\ Now(p, l.url, Outdated(t, l))
        BY <2>0
    <2>2. f \in Url /\ s = task[t].sub
        BY <1>2, <2>1 DEF FilePath, VideoPath
    <2>3. CASE Outdated(t, l)
        BY <1>1, <2>1, <2>3 DEF Now, GoodPath, Good
    <2>4. CASE ~Outdated(t, l)
        <3>1. VideoPlaced(t) /\ l.id \notin task[t].old
            BY <2>1, <2>4 DEF Outdated, DiskInv
        <3>2. r \in Of(atts, task[t].sub)
            BY <1>1, <2>2 DEF Of
        <3>3. f = l.url
            BY <1>1, <2>1, <2>2, <3>1, <3>2 DEF VideoPlaced
        <3>. QED BY <1>1, <2>1, <3>3 DEF Now, GoodPath, Good
    <2>. QED BY <2>3, <2>4
<1>7. CASE ByReplyFile(p)
    BY <1>1, <1>2, <1>7 DEF ByReplyFile, FilePath, VideoPath
<1>8. CASE ByReplyLink(p)
    <2>1. PICK x \in Id, l \in Id : p = VideoPath(x, l) /\ ~HasVideo(atts, x)
        BY <1>8 DEF ByReplyLink
    <2>2. x = s /\ f \in Url
        BY <1>2, <2>1 DEF FilePath, VideoPath
    <2>. QED BY <1>1, <2>1, <2>2 DEF HasVideo, Of
<1>. QED BY <1>1, <1>3, <1>4, <1>5, <1>6, <1>7, <1>8, DiskStep

LEMMA FilesKept ==
    ASSUME Types, Shape, Held, PlanInv, Paths, DiskInv, OwnFiles, [Next]_vars
    PROVE  OwnFiles'
<1>. SUFFICES ASSUME NEW r \in Rows(atts'), ~atts'[r].stray, atts'[r].path # NoPath
              PROVE  GoodPath(r)'
    BY DEF OwnFiles, GoodPath, Good
<1>1. CASE Unmoved(r)
    BY <1>1, PathStaysGood DEF OwnFiles, GoodPath, Good, Unmoved
<1>2. CASE Stored(r)
    <2>0. PICK t \in Task : /\ task[t].pc = "gather" /\ ~task[t].cut
                           /\ \E a \in task[t].got : a.id = r
                           /\ atts'[r].path = FilePath(task[t].sub, r)
        BY <1>2 DEF Stored
    <2>1. PICK a \in task[t].got :
              /\ task[t].pc = "gather" /\ ~task[t].cut /\ a.id = r
              /\ atts'[r].path = FilePath(task[t].sub, r)
        BY <2>0
    <2>2. a \in task[t].rows
        BY DEF Shape, Fit
    <2>3. atts[r].file = a.file
        BY <2>1, <2>2 DEF PlanInv, Planned
    <2>4. Good(FilePath(task[t].sub, r), a.file)
        BY <2>1 DEF DiskInv, GotOnDisk
    <2>. QED BY <1>2, <2>1, <2>3, <2>4 DEF Stored, GoodPath, Good
<1>3. CASE Attached(r)
    <2>0. PICK t \in Task : \E o \in task[t].outs :
              /\ task[t].pc = "gather" /\ ~task[t].cut /\ ~HasVideo(atts, task[t].sub) /\ o.video
              /\ atts'[r].file = o.url /\ atts'[r].path = VideoPath(task[t].sub, o.id)
        BY <1>3 DEF Attached
    <2>1. PICK o \in task[t].outs :
              /\ task[t].pc = "gather" /\ ~task[t].cut /\ ~HasVideo(atts, task[t].sub) /\ o.video
              /\ atts'[r].file = o.url /\ atts'[r].path = VideoPath(task[t].sub, o.id)
        BY <2>0
    <2>2. Good(VideoPath(task[t].sub, o.id), o.url)
        BY <2>1 DEF DiskInv, VideosOnDisk
    <2>. QED BY <1>3, <2>1, <2>2 DEF Attached, GoodPath, Good
<1>4. CASE FromReply(r) \/ FromLink(r)
    BY <1>4 DEF FromReply, FromLink, Now, GoodPath, Good
<1>. QED BY <1>1, <1>2, <1>3, <1>4, PathStep

LEMMA VideoStays == ASSUME NEW s, Stands(s), HasVideo(atts, s) PROVE HasVideo(atts', s)
BY DEF Stands, HasVideo, Of

LEMMA GotStays ==
    ASSUME Types, Shape, Held, PlanInv, DiskInv, [Next]_vars,
           NEW k \in Task, task'[k].pc = "gather", ~task'[k].cut, Going(k)
    PROVE  GotOnDisk(k)'
<1>. DEFINE s == task[k].sub
<1>0. /\ task[k].pc = "gather" /\ ~task[k].cut /\ task'[k].sub = s /\ task[k].pc \in Working
      /\ Planned(k) /\ GotOnDisk(k) /\ task[k].got \subseteq task[k].rows
    BY DEF Going, PlanInv, DiskInv, Shape, Fit, Working
<1>1. ASSUME NEW a \in task[k].got PROVE Good(FilePath(s, a.id), a.file)'
    <2>. DEFINE p == FilePath(s, a.id)
    <2>1. p \in DOMAIN disk /\ (disk[p].of = a.file \/ disk[p].stray)
        BY <1>0 DEF GotOnDisk, Good
    <2>2. a.id \in Rows(atts) /\ atts[a.id].file = a.file
        BY <1>0 DEF Planned
    <2>3. CASE p \in DOMAIN disk' /\ disk'[p] = disk[p]
        BY <1>0, <2>1, <2>3 DEF Good
    <2>4. CASE Emptied(p[1])
        BY <1>0, <2>4 DEF Emptied, FilePath
    <2>5. CASE ByGatherFile(p)
        <3>1. PICK t \in Task : \E b \in task[t].todo :
                  task[t].pc = "gather" /\ p = FilePath(task[t].sub, b.id) /\ Now(p, b.file, task[t].cut)
            BY <2>5 DEF ByGatherFile
        <3>2. PICK b \in task[t].todo :
                  task[t].pc = "gather" /\ p = FilePath(task[t].sub, b.id) /\ Now(p, b.file, task[t].cut)
            BY <3>1
        <3>3. task[t].sub = s /\ b.id = a.id
            BY <3>2 DEF FilePath
        <3>4. CASE t = k
            <4>1. b \in task[k].rows
                BY <3>4 DEF Shape, Fit
            <4>2. b.file = a.file
                BY <1>0, <2>2, <3>3, <4>1 DEF Planned
            <4>. QED BY <1>0, <3>2, <4>2 DEF Now, Good
        <3>5. CASE t # k
            <4>1. task[t].cut
                BY <1>0, <3>2, <3>3, <3>5, Alone DEF Working
            <4>. QED BY <1>0, <3>2, <4>1 DEF Now, Good
        <3>. QED BY <3>4, <3>5
    <2>6. ~ByGatherLink(p) /\ ~ByReplyLink(p)
        BY DEF ByGatherLink, ByReplyLink, FilePath, VideoPath
    <2>7. ~ByReplyFile(p)
        BY <2>2 DEF ByReplyFile, FilePath
    <2>. QED BY <2>1, <2>3, <2>4, <2>5, <2>6, <2>7, DiskStep
<1>2. ASSUME NEW a \in task[k].todo, Write(FilePath(s, a.id), a.file, task[k].cut)
      PROVE  Good(FilePath(s, a.id), a.file)'
    BY <1>0, <1>2, Written DEF Now, Good
<1>3. CASE task'[k].got = task[k].got
    BY <1>0, <1>1, <1>3 DEF GotOnDisk
<1>4. ASSUME NEW a \in task[k].todo, task'[k].got = task[k].got \cup {a},
             Write(FilePath(s, a.id), a.file, task[k].cut)
      PROVE  GotOnDisk(k)'
    BY <1>0, <1>1, <1>2, <1>4 DEF GotOnDisk
<1>. QED BY <1>3, <1>4 DEF Going

LEMMA VideosStay ==
    ASSUME Types, Shape, Held, PlanInv, DiskInv, [Next]_vars,
           NEW k \in Task, task'[k].pc = "gather", ~task'[k].cut, Going(k)
    PROVE  VideosOnDisk(k)'
<1>. DEFINE s == task[k].sub
            Fine(o) == Good(VideoPath(s, o.id), o.url) \/ HasVideo(atts, s)
<1>0. /\ task[k].pc = "gather" /\ ~task[k].cut /\ task'[k].sub = s /\ task[k].pc \in Working
      /\ VideosOnDisk(k) /\ Stands(s)
    BY GoingRows DEF Going, DiskInv, Working
<1>1. ASSUME NEW o \in task[k].outs, o.video PROVE Fine(o)'
    <2>. DEFINE p == VideoPath(s, o.id)
    <2>1. HasVideo(atts, s) => HasVideo(atts', s)
        BY <1>0, VideoStays
    <2>. SUFFICES ASSUME ~HasVideo(atts, s) PROVE Fine(o)'
        BY <1>0, <2>1
    <2>2. p \in DOMAIN disk /\ (disk[p].of = o.url \/ disk[p].stray)
        BY <1>0, <1>1 DEF VideosOnDisk, Good
    <2>3. CASE p \in DOMAIN disk' /\ disk'[p] = disk[p]
        BY <1>0, <2>2, <2>3 DEF Good
    <2>4. CASE Emptied(p[1])
        BY <1>0, <2>4 DEF Emptied, VideoPath
    <2>5. CASE ByGatherLink(p)
        <3>1. PICK t \in Task : \E l \in task[t].plan :
                  /\ task[t].pc = "gather" /\ p = VideoPath(task[t].sub, l.id)
                  /\ \A q \in task[t].outs : q.id # l.id
                  /\ Now(p, l.url, Outdated(t, l))
            BY <2>5 DEF ByGatherLink
        <3>2. PICK l \in task[t].plan :
                  /\ task[t].pc = "gather" /\ p = VideoPath(task[t].sub, l.id)
                  /\ \A q \in task[t].outs : q.id # l.id
                  /\ Now(p, l.url, Outdated(t, l))
            BY <3>1
        <3>3. task[t].sub = s /\ l.id = o.id
            BY <3>2 DEF VideoPath
        <3>4. t # k
            BY <1>1, <3>2, <3>3
        <3>5. Outdated(t, l)
            BY <1>0, <3>2, <3>3, <3>4, Alone DEF Working, Outdated
        <3>. QED BY <1>0, <3>2, <3>5 DEF Now, Good
    <2>6. ~ByGatherFile(p) /\ ~ByReplyFile(p)
        BY DEF ByGatherFile, ByReplyFile, FilePath, VideoPath
    <2>7. CASE ByReplyLink(p)
        <3>1. p \in DOMAIN disk' /\ (disk'[p].stray \/ HasVideo(atts', s))
            BY <2>7 DEF ByReplyLink, VideoPath
        <3>. QED BY <1>0, <3>1 DEF Good
    <2>. QED BY <2>2, <2>3, <2>4, <2>5, <2>6, <2>7, DiskStep
<1>2. CASE task'[k].outs = task[k].outs
    BY <1>0, <1>1, <1>2 DEF VideosOnDisk
<1>3. ASSUME NEW q \in OutcomeRow, task'[k].outs = task[k].outs \cup {q},
             q.video => \E stray : Write(VideoPath(s, q.id), q.url, stray)
      PROVE  VideosOnDisk(k)'
    <2>1. q.video => Good(VideoPath(s, q.id), q.url)'
        BY <1>0, <1>3, Written DEF Now, Good
    <2>. QED BY <1>0, <1>1, <1>3, <2>1 DEF VideosOnDisk
<1>. QED BY <1>2, <1>3 DEF Going

LEMMA PlacesStay ==
    ASSUME Types, Shape, Held, PlanInv, DiskInv, [Next]_vars,
           NEW k \in Task, task'[k].pc = "gather", ~task'[k].cut, Going(k)
    PROVE  VideoPlaced(k)'
<1>. DEFINE s == task[k].sub
<1>0. /\ task[k].pc = "gather" /\ ~task[k].cut /\ task'[k].sub = s /\ task[k].pc \in Working
      /\ task'[k].plan = task[k].plan /\ task'[k].video = task[k].video
      /\ task[k].old \subseteq task'[k].old /\ VideoPlaced(k)
    BY DEF Going, DiskInv, Working, SamePlan
<1>1. PlanAgrees(k)'
    BY PlanKept DEF PlanInv
<1>. SUFFICES ASSUME ~task[k].video, NEW r \in Rows(atts'), NEW l \in task[k].plan,
                     atts'[r].sub = s, atts'[r].file \in Url, ~atts'[r].stray,
                     l.id \notin task'[k].old, atts'[r].path = VideoPath(s, l.id)
              PROVE  atts'[r].file = l.url
    BY <1>0 DEF VideoPlaced, Of
<1>2. atts'[r].path # NoPath
    BY DEF VideoPath, NoPath
<1>3. CASE Unmoved(r)
    BY <1>0, <1>3 DEF Unmoved, VideoPlaced, Of
<1>4. CASE Stored(r) \/ FromReply(r)
    BY <1>4 DEF Stored, FromReply, FilePath, VideoPath
<1>5. CASE Attached(r)
    <2>1. PICK t \in Task : /\ task[t].pc = "gather" /\ ~task[t].cut /\ task'[t].pc = "close"
                            /\ atts'[r].sub = task[t].sub
        BY <1>5 DEF Attached
    <2>2. t # k
        BY <2>1
    <2>. QED BY <1>0, <2>1, <2>2, Alone DEF Working
<1>6. CASE FromLink(r)
    <2>1. links'[l.id].url = atts'[r].file
        BY <1>6 DEF FromLink, VideoPath
    <2>. QED BY <1>0, <1>1, <2>1 DEF PlanAgrees
<1>. QED BY <1>2, <1>3, <1>4, <1>5, <1>6, PathStep

LEMMA DiskKept ==
    ASSUME Types, Shape, Held, PlanInv, DiskInv, [Next]_vars
    PROVE  DiskInv'
<1>. SUFFICES ASSUME NEW k \in Task, task'[k].pc = "gather", ~task'[k].cut
              PROVE  (GotOnDisk(k) /\ VideosOnDisk(k) /\ VideoPlaced(k))'
    BY DEF DiskInv
<1>1. CASE Skeletons(k) /\ task[k].sub \in Live
    <2>1. /\ task'[k].got = {} /\ task'[k].outs = {} /\ task'[k].video = HasVideo(atts', task[k].sub)
          /\ task'[k].sub = task[k].sub
        BY <1>1, SkeletonsTask, SkeletonsJob
    <2>2. VideoPlaced(k)'
        BY <2>1 DEF VideoPlaced, HasVideo, Of
    <2>. QED BY <2>1, <2>2 DEF GotOnDisk, VideosOnDisk
<1>2. CASE Going(k)
    BY <1>2, GotStays, VideosStay, PlacesStay
<1>. QED BY <1>1, <1>2, GatherTask

\* Theorem: the path of an attachment leads to its own file, unless the path or the file
\* was written for a removed submission, a replaced link or a reply rolled back.
THEOREM PathsLeadHome == Spec => []OwnFiles
<1>1. Init => Paths /\ DiskInv /\ OwnFiles
    BY BlankFit DEF Init, Paths, DiskInv, OwnFiles, Rows
<1>2. Claims /\ PlanInv /\ Paths /\ DiskInv /\ OwnFiles /\ [Next]_vars => (Paths /\ DiskInv /\ OwnFiles)'
    BY PathsKept, DiskKept, FilesKept DEF Claims
<1>. QED BY <1>1, <1>2, PlansHold, PTL DEF Spec
=============================================================================
