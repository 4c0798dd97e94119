--------------------------- MODULE PostingProofs ----------------------------
(***************************************************************************)
(* Proofs about Posting, for all submissions, sizes and numbers of faults: *)
(* the posts the bot knows of form one chain, repeat nothing, and leave    *)
(* nothing out unless something went wrong.                                *)
(***************************************************************************)
EXTENDS Posting, TLAPS, SequenceTheorems, WellFoundedInduction

PartType == {"record", "video", "gallery", "images", "card", "reply"}
PartRec  == [type : PartType, media : Seq(File), link : Link \cup {None}]
PostRec  == [type : PartType, media : SUBSET File, link : Link \cup {None},
             parent : Nat, first : Nat, answered : BOOLEAN]

\* What a part posts when everything goes well.
Held(p) == ToSet(p.media) \cup (IF p.type \in {"card", "reply", "record"} THEN {p.link} ELSE {})

Apart(parts) ==
    \A i, j \in DOMAIN parts : i # j => Held(parts[i]) \cap Held(parts[j]) = {}

-----------------------------------------------------------------------------
(* Lemmas about data.                                                      *)

LEMMA MaxIs ==
  ASSUME NEW T, T \subseteq Nat, NEW m \in T, \A k \in T : k <= m
  PROVE  Max(T) = m
  <1>1. \E x \in T : \A y \in T : x >= y
    BY SMT
  <1>2. Max(T) \in T /\ \A y \in T : Max(T) >= y
    BY <1>1, Zenon DEF Max
  <1>3. Max(T) \in Nat /\ m \in Nat
    BY <1>2
  <1>4. Max(T) <= m /\ Max(T) >= m
    BY <1>2
  <1> QED
    BY <1>3, <1>4

LEMMA SeqOfParts ==
  ASSUME NEW n \in Nat, NEW f \in [1 .. n -> PartRec]
  PROVE  f \in Seq(PartRec) /\ Len(f) = n
  <1>1. f \in Seq(PartRec)
    BY SeqDef
  <1> QED
    BY <1>1, LenProperties

(* A non-empty set of numbers has a least one. *)
LEMMA Least ==
  ASSUME NEW T, T \subseteq Nat, T # {}
  PROVE  \E n \in T : \A k \in T : n <= k
  <1>1. PICK n \in T : \A k \in T : <<k, n>> \notin OpToRel(<, Nat)
    BY NatLessThanWellFounded, WFMin, Zenon
  <1>2. \A k \in T : ~(k < n)
    BY <1>1, Zenon DEF OpToRel
  <1> QED
    BY <1>2

LEMMA ApartConcat ==
  ASSUME NEW a \in Seq(PartRec), NEW b \in Seq(PartRec), Apart(a), Apart(b),
         \A i \in DOMAIN a, j \in DOMAIN b : Held(a[i]) \cap Held(b[j]) = {}
  PROVE  Apart(a \o b)
  <1> SUFFICES ASSUME NEW i \in DOMAIN (a \o b), NEW j \in DOMAIN (a \o b), i # j
               PROVE  Held((a \o b)[i]) \cap Held((a \o b)[j]) = {}
    BY DEF Apart
  <1>1. i \in 1 .. Len(a) + Len(b) /\ j \in 1 .. Len(a) + Len(b)
    OBVIOUS
  <1>2. \A n \in 1 .. Len(a) + Len(b) :
            IF n <= Len(a) THEN n \in DOMAIN a /\ (a \o b)[n] = a[n]
            ELSE n - Len(a) \in DOMAIN b /\ (a \o b)[n] = b[n - Len(a)]
    OBVIOUS
  <1>3. CASE i <= Len(a) /\ j <= Len(a)
    BY <1>1, <1>2, <1>3 DEF Apart
  <1>4. CASE i <= Len(a) /\ ~(j <= Len(a))
    BY <1>1, <1>2, <1>4
  <1>5. CASE ~(i <= Len(a)) /\ j <= Len(a)
    BY <1>1, <1>2, <1>5
  <1>6. CASE ~(i <= Len(a)) /\ ~(j <= Len(a))
    <2>1. i - Len(a) # j - Len(a)
      BY <1>1
    <2> QED
      BY <1>1, <1>2, <1>6, <2>1 DEF Apart
  <1> QED
    BY <1>3, <1>4, <1>5, <1>6

LEMMA InjectiveConcat ==
  ASSUME NEW a \in Seq(File), NEW b \in Seq(File), IsInjective(a \o b)
  PROVE  /\ \A i, j \in DOMAIN b : i # j => b[i] # b[j]
         /\ \A i \in DOMAIN a, j \in DOMAIN b : a[i] # b[j]
  <1>1. \A x, y \in DOMAIN (a \o b) : (a \o b)[x] = (a \o b)[y] => x = y
    BY DEF IsInjective
  <1>2. \A i \in DOMAIN a : i \in 1 .. Len(a) /\ i \in DOMAIN (a \o b) /\ (a \o b)[i] = a[i]
    OBVIOUS
  <1>3. ASSUME NEW j \in DOMAIN b
        PROVE  j \in Nat \ {0} /\ Len(a) + j \in DOMAIN (a \o b) /\ (a \o b)[Len(a) + j] = b[j]
    <2>1. j \in 1 .. Len(b) /\ Len(a) \in Nat /\ Len(b) \in Nat
      OBVIOUS
    <2>2. Len(a) + j \in 1 .. Len(a) + Len(b) /\ (Len(a) + j) - Len(a) = j
      BY <2>1
    <2>3. ~(Len(a) + j <= Len(a))
      BY <2>1
    <2> QED
      BY <2>1, <2>2, <2>3
  <1>4. \A i, j \in DOMAIN b : i # j => Len(a) + i # Len(a) + j
    BY <1>3
  <1>5. \A i \in DOMAIN a, j \in DOMAIN b : i # Len(a) + j
    BY <1>2, <1>3
  <1> QED
    BY <1>1, <1>2, <1>3, <1>4, <1>5

LEMMA ApartSingle ==
  ASSUME NEW p \in PartRec
  PROVE  <<p>> \in Seq(PartRec) /\ Apart(<<p>>)
  BY DEF Apart

(* What the three groups of parts hold: each video, the first images, each further link. *)
LEMMA GroupsHold ==
  ASSUME NEW s \in Submission
  PROVE  /\ s.images \in Seq(File) /\ s.videos \in Seq(File) /\ s.links \in Seq(Link)
         /\ s.repost \in BOOLEAN
         /\ Primary(s) \in Link \cup {None} /\ (s.links # <<>> => Primary(s) \in Link)
         /\ Videos(s) \in Seq(PartRec) /\ Len(Videos(s)) = Len(s.videos)
         /\ DOMAIN Videos(s) = DOMAIN s.videos
         /\ \A i \in DOMAIN s.videos : Held(Videos(s)[i]) = {s.videos[i]}
         /\ Rest(s.links) \in Seq(Link)
         /\ \A i \in DOMAIN Rest(s.links) :
                i + 1 \in DOMAIN s.links /\ Rest(s.links)[i] = s.links[i + 1]
         /\ Replies(s) \in Seq(PartRec) /\ Len(Replies(s)) = Len(Rest(s.links))
         /\ DOMAIN Replies(s) = DOMAIN Rest(s.links)
         /\ \A i \in DOMAIN Rest(s.links) : Held(Replies(s)[i]) = {s.links[i + 1]}
  <1>1. s.images \in Seq(File) /\ s.videos \in Seq(File) /\ s.links \in Seq(Link)
        /\ s.repost \in BOOLEAN
    BY DEF Submission
  <1>2. Primary(s) \in Link \cup {None} /\ (s.links # <<>> => Primary(s) \in Link)
    BY <1>1 DEF Primary
  <1>3. /\ Videos(s) \in Seq(PartRec) /\ Len(Videos(s)) = Len(s.videos)
        /\ DOMAIN Videos(s) = DOMAIN s.videos
        /\ \A i \in DOMAIN s.videos : Held(Videos(s)[i]) = {s.videos[i]}
    <2>1. \A i \in DOMAIN s.videos : Part("video", <<s.videos[i]>>, Primary(s)) \in PartRec
      BY <1>1, <1>2 DEF Part, PartRec, PartType
    <2>2. /\ Videos(s) \in Seq(PartRec) /\ Len(Videos(s)) = Len(s.videos)
          /\ DOMAIN Videos(s) = DOMAIN s.videos
      <3>1. Len(s.videos) \in Nat /\ DOMAIN s.videos = 1 .. Len(s.videos)
        BY <1>1
      <3>2. Videos(s) \in [1 .. Len(s.videos) -> PartRec]
        BY <2>1, <3>1 DEF Videos
      <3> QED
        BY <3>1, <3>2, SeqOfParts
    <2>3. ASSUME NEW i \in DOMAIN s.videos PROVE Held(Videos(s)[i]) = {s.videos[i]}
      <3>1. Videos(s)[i] = Part("video", <<s.videos[i]>>, Primary(s))
        BY <1>1 DEF Videos
      <3> QED
        BY <3>1 DEF Held, Part, ToSet
    <2> QED
      BY <1>1, <2>2, <2>3
  <1>4. Rest(s.links) \in Seq(Link) /\ \A i \in DOMAIN Rest(s.links) :
            i + 1 \in DOMAIN s.links /\ Rest(s.links)[i] = s.links[i + 1]
    BY <1>1 DEF Rest
  <1>5. /\ Replies(s) \in Seq(PartRec) /\ Len(Replies(s)) = Len(Rest(s.links))
        /\ DOMAIN Replies(s) = DOMAIN Rest(s.links)
        /\ \A i \in DOMAIN Rest(s.links) : Held(Replies(s)[i]) = {s.links[i + 1]}
    <2>1. \A i \in DOMAIN Rest(s.links) : Part("reply", <<>>, Rest(s.links)[i]) \in PartRec
      BY <1>4 DEF Part, PartRec, PartType
    <2>2. /\ Replies(s) \in Seq(PartRec) /\ Len(Replies(s)) = Len(Rest(s.links))
          /\ DOMAIN Replies(s) = DOMAIN Rest(s.links)
      <3>1. Len(Rest(s.links)) \in Nat /\ DOMAIN Rest(s.links) = 1 .. Len(Rest(s.links))
        BY <1>4
      <3>2. Replies(s) \in [1 .. Len(Rest(s.links)) -> PartRec]
        BY <2>1, <3>1 DEF Replies
      <3> QED
        BY <3>1, <3>2, SeqOfParts
    <2>3. ASSUME NEW i \in DOMAIN Rest(s.links) PROVE Held(Replies(s)[i]) = {s.links[i + 1]}
      <3>1. Replies(s)[i] = Part("reply", <<>>, s.links[i + 1])
        BY <1>4 DEF Replies
      <3> QED
        BY <3>1 DEF Held, Part, ToSet
    <2> QED
      BY <1>4, <2>2, <2>3
  <1> QED
    BY <1>1, <1>2, <1>3, <1>4, <1>5

(* The gallery is one part, of the first images, unless there is no image. *)
LEMMA GalleryHolds ==
  ASSUME NEW s \in Submission
  PROVE  /\ Gallery(s) \in Seq(PartRec) /\ Len(Gallery(s)) <= 1
         /\ Gallery(s) = <<>> <=> s.images = <<>>
         /\ \A i \in DOMAIN Gallery(s) : Held(Gallery(s)[i])
                = {s.images[k] : k \in {n \in DOMAIN s.images : n <= GallerySize}}
  <1> DEFINE firsts == {s.images[k] : k \in {n \in DOMAIN s.images : n <= GallerySize}}
  <1>1. s.images \in Seq(File) /\ Primary(s) \in Link \cup {None}
    BY GroupsHold
  <1>2. CASE s.images = <<>>
    BY <1>2 DEF Gallery
  <1>3. CASE s.images # <<>>
    <2> DEFINE n == Min({GallerySize, Len(s.images)})
               p == Part("gallery", SubSeq(s.images, 1, n), Primary(s))
    <2>1. GallerySize \in Nat /\ Len(s.images) \in Nat
      BY <1>1, PostingAssumption
    <2>2. /\ n \in Nat /\ n <= Len(s.images) /\ n <= GallerySize
          /\ n = GallerySize \/ n = Len(s.images)
      <3> DEFINE both == {GallerySize, Len(s.images)}
      <3>1. \E m \in both : \A k \in both : m <= k
        BY <2>1
      <3>2. n \in both /\ \A k \in both : n <= k
        BY <3>1, Zenon DEF Min
      <3> QED
        BY <2>1, <3>2
    <2>3. SubSeq(s.images, 1, n) \in Seq(File) /\ ToSet(SubSeq(s.images, 1, n)) = firsts
      <3> HIDE DEF n
      <3>1. /\ SubSeq(s.images, 1, n) \in Seq(File)
            /\ DOMAIN SubSeq(s.images, 1, n) = 1 .. n
            /\ \A i \in 1 .. n : SubSeq(s.images, 1, n)[i] = s.images[i]
        BY <1>1, <2>2
      <3>2. {k \in DOMAIN s.images : k <= GallerySize} = 1 .. n
        BY <1>1, <2>1, <2>2
      <3> QED
        BY <3>1, <3>2 DEF ToSet
    <2>4. p \in PartRec /\ Held(p) = firsts
      BY <1>1, <2>3 DEF Part, PartRec, PartType, Held
    <2>5. Gallery(s) = <<p>>
      BY <1>3 DEF Gallery
    <2> HIDE DEF p, firsts
    <2>6. Gallery(s) \in Seq(PartRec) /\ Len(Gallery(s)) <= 1 /\ Gallery(s) # <<>>
          /\ \A i \in DOMAIN Gallery(s) : Held(Gallery(s)[i]) = firsts
      BY <2>4, <2>5
    <2> QED
      BY <1>3, <2>6 DEF firsts
  <1> QED
    BY <1>2, <1>3

(* The parts of a submission are parts, and hold different files and links. *)
LEMMA PartsApart ==
  ASSUME NEW s \in Submission, s.repost => s.links # <<>>,
         IsInjective(s.images \o s.videos), DetermineKind(s) # "empty"
  PROVE  /\ Parts(s) \in Seq(PartRec) /\ Parts(s) # <<>>
         /\ IsInjective(s.links) => Apart(Parts(s))
  <1>1. s.images \in Seq(File) /\ s.videos \in Seq(File) /\ s.links \in Seq(Link)
        /\ s.repost \in BOOLEAN
    BY GroupsHold
  <1>2. Primary(s) \in Link \cup {None} /\ (s.links # <<>> => Primary(s) \in Link)
    BY GroupsHold
  <1>3. /\ Videos(s) \in Seq(PartRec) /\ Len(Videos(s)) = Len(s.videos)
        /\ DOMAIN Videos(s) = DOMAIN s.videos
        /\ \A i \in DOMAIN s.videos : Held(Videos(s)[i]) = {s.videos[i]}
    BY GroupsHold
  <1>4. Rest(s.links) \in Seq(Link) /\ \A i \in DOMAIN Rest(s.links) :
            i + 1 \in DOMAIN s.links /\ Rest(s.links)[i] = s.links[i + 1]
    BY GroupsHold
  <1>5. /\ Replies(s) \in Seq(PartRec) /\ Len(Replies(s)) = Len(Rest(s.links))
        /\ DOMAIN Replies(s) = DOMAIN Rest(s.links)
        /\ \A i \in DOMAIN Rest(s.links) : Held(Replies(s)[i]) = {s.links[i + 1]}
    BY GroupsHold
  <1>6. /\ Gallery(s) \in Seq(PartRec) /\ Len(Gallery(s)) <= 1
        /\ \A i \in DOMAIN Gallery(s) : Held(Gallery(s)[i]) \subseteq ToSet(s.images)
    BY GalleryHolds DEF ToSet
  <1>7. Apart(Gallery(s))
    BY <1>6 DEF Apart
  <1>8. /\ \A i, j \in DOMAIN s.videos : i # j => s.videos[i] # s.videos[j]
        /\ \A i \in DOMAIN s.images, j \in DOMAIN s.videos : s.images[i] # s.videos[j]
    BY <1>1, InjectiveConcat
  <1>9. Apart(Videos(s))
    <2>1. \A i, j \in DOMAIN s.videos : i # j => {s.videos[i]} \cap {s.videos[j]} = {}
      BY <1>8
    <2> QED
      BY <1>3, <2>1 DEF Apart
  <1>10. Apart(Videos(s) \o Gallery(s)) /\ Videos(s) \o Gallery(s) \in Seq(PartRec)
    <2>1. \A i \in DOMAIN Videos(s), j \in DOMAIN Gallery(s) :
              Held(Videos(s)[i]) \cap Held(Gallery(s)[j]) = {}
      <3>1. \A i \in DOMAIN s.videos : {s.videos[i]} \cap ToSet(s.images) = {}
        BY <1>8 DEF ToSet
      <3>2. \A i \in DOMAIN Videos(s) : Held(Videos(s)[i]) \cap ToSet(s.images) = {}
        BY <1>3, <3>1
      <3> QED
        BY <1>6, <3>2
    <2> QED
      BY <1>3, <1>6, <1>7, <1>9, <2>1, ApartConcat
  <1>11. ASSUME NEW a \in Seq(PartRec), Apart(a), IsInjective(s.links),
                \/ \A i \in DOMAIN a : Held(a[i]) \subseteq File
                \/ s.links # <<>> /\ \A i \in DOMAIN a : Held(a[i]) \subseteq {s.links[1]}
         PROVE  Apart(a \o Replies(s))
    <2>1. \A x, y \in DOMAIN s.links : s.links[x] = s.links[y] => x = y
      BY <1>11 DEF IsInjective
    <2>a. /\ DOMAIN Replies(s) = DOMAIN Rest(s.links) /\ DOMAIN Rest(s.links) = 1 .. Len(Rest(s.links))
          /\ \A j \in DOMAIN Replies(s) : j \in Nat \ {0} /\ j + 1 \in DOMAIN s.links
                                           /\ Held(Replies(s)[j]) = {s.links[j + 1]}
      BY <1>4, <1>5
    <2>2. Apart(Replies(s))
      BY <2>a, <2>1 DEF Apart
    <2>3. \A i \in DOMAIN a, j \in DOMAIN Replies(s) : Held(a[i]) \cap Held(Replies(s)[j]) = {}
      <3>1. \A j \in DOMAIN Replies(s) : j + 1 \in DOMAIN s.links /\ j + 1 # 1 /\ 1 \in DOMAIN s.links
                                         /\ Held(Replies(s)[j]) = {s.links[j + 1]}
        BY <1>1, <2>a
      <3>2. \A j \in DOMAIN s.links : s.links[j] \in Link
        BY <1>1
      <3>3. \A j \in DOMAIN Replies(s) : Held(Replies(s)[j]) \cap {s.links[1]} = {}
        BY <2>1, <3>1
      <3>4. File \cap Link = {}
        BY PostingAssumption
      <3>5. CASE \A i \in DOMAIN a : Held(a[i]) \subseteq File
        <4>1. \A j \in DOMAIN Replies(s) : Held(Replies(s)[j]) \subseteq Link
          BY <3>1, <3>2
        <4> QED
          BY <3>4, <3>5, <4>1, Zenon
      <3>6. CASE \A i \in DOMAIN a : Held(a[i]) \subseteq {s.links[1]}
        BY <3>3, <3>6, Zenon
      <3> QED
        BY <1>11, <3>5, <3>6
    <2> QED
      BY <1>5, <1>11, <2>2, <2>3, ApartConcat
  <1>12. CASE DetermineKind(s) = "record"
    <2>1. Part("record", <<>>, Primary(s)) \in PartRec
      BY <1>2 DEF Part, PartRec, PartType
    <2>2. Parts(s) = <<Part("record", <<>>, Primary(s))>>
      BY <1>12 DEF Parts
    <2> QED
      BY <2>1, <2>2, ApartSingle
  <1>13. CASE DetermineKind(s) = "video"
    <2>1. Parts(s) = (Videos(s) \o Gallery(s)) \o Replies(s)
      BY <1>3, <1>5, <1>6, <1>13 DEF Parts
    <2>2. s.videos # <<>>
      BY <1>13 DEF DetermineKind
    <2>3. \A i \in DOMAIN (Videos(s) \o Gallery(s)) : Held((Videos(s) \o Gallery(s))[i]) \subseteq File
      <3>1. \A i \in DOMAIN Videos(s) : Held(Videos(s)[i]) \subseteq File
        <4>1. \A i \in DOMAIN s.videos : s.videos[i] \in File
          BY <1>1
        <4> QED
          BY <1>3, <4>1
      <3>2. \A i \in DOMAIN Gallery(s) : Held(Gallery(s)[i]) \subseteq File
        BY <1>1, <1>6 DEF ToSet
      <3> QED
        BY <1>3, <1>6, <3>1, <3>2, ConcatProperties
    <2>4. Parts(s) \in Seq(PartRec) /\ Parts(s) # <<>>
      BY <1>1, <1>3, <1>5, <1>6, <1>10, <2>1, <2>2
    <2> QED
      BY <1>10, <1>11, <2>1, <2>3, <2>4
  <1>14. CASE DetermineKind(s) = "images"
    <2> DEFINE p == Part("images", s.images, Primary(s))
    <2>1. p \in PartRec /\ Held(p) = ToSet(s.images)
      BY <1>1, <1>2 DEF Part, PartRec, PartType, Held
    <2>2. Parts(s) = <<p>> \o Replies(s)
      BY <1>14 DEF Parts
    <2>3. ToSet(s.images) \subseteq File
      BY <1>1 DEF ToSet
    <2> HIDE DEF p
    <2>4. <<p>> \in Seq(PartRec) /\ Apart(<<p>>) /\ \A i \in DOMAIN <<p>> : Held(<<p>>[i]) \subseteq File
      BY <2>1, <2>3, ApartSingle
    <2>5. Parts(s) \in Seq(PartRec) /\ Parts(s) # <<>>
      BY <1>5, <2>1, <2>2
    <2> QED
      BY <1>11, <2>2, <2>4, <2>5
  <1>15. CASE DetermineKind(s) = "external"
    <2> DEFINE p == Part("card", <<>>, Primary(s))
    <2>1. s.links # <<>>
      BY <1>15 DEF DetermineKind
    <2>2. p \in PartRec /\ Held(p) = {s.links[1]}
      BY <1>1, <1>2, <2>1 DEF Part, PartRec, PartType, Held, ToSet, Primary
    <2>3. Parts(s) = <<p>> \o Replies(s)
      BY <1>15 DEF Parts
    <2> HIDE DEF p
    <2>4. <<p>> \in Seq(PartRec) /\ Apart(<<p>>)
          /\ \A i \in DOMAIN <<p>> : Held(<<p>>[i]) \subseteq {s.links[1]}
      BY <2>2, ApartSingle
    <2>5. Parts(s) \in Seq(PartRec) /\ Parts(s) # <<>>
      BY <1>5, <2>2, <2>3
    <2> QED
      BY <1>11, <2>1, <2>3, <2>4, <2>5
  <1> QED
    BY <1>12, <1>13, <1>14, <1>15 DEF DetermineKind

-----------------------------------------------------------------------------
(* The invariant.                                                          *)

Types ==
    /\ TypeOK
    /\ sub \in Content /\ todo \in Seq(PartRec) /\ pending \in Seq(File) /\ blobs \in Seq(File)
    /\ kinds \in Seq(FailureKind) /\ posts \in Seq(PostRec)
    /\ root \in Nat /\ last \in Nat

\* The posts the bot knows of are those of the attempt under way or recorded, and the next
\* part replies to the last of them; before the first post there is none.
Thread ==
    /\ \A i \in DOMAIN posts : posts[i].first \in 1 .. i
    /\ \A i \in Known : posts[i].first = root
    /\ pc # "idle" => state \in Eligible
    /\ pc = "idle" /\ state \in Eligible => Known = {}
    /\ pc = "login" => root = 0 /\ last = 0 /\ logins < LoginAttempts
    /\ pc = "post" => IF root = 0 THEN last = 0
                      ELSE last \in Known /\ \A i \in Known : i <= last

\* What is still to be posted is different from each other, and from what is posted.
Fresh ==
    /\ pc = "post" => ToSet(blobs) \cup ToSet(pending) \subseteq ToSet(Head(todo).media)
    /\ pc = "post" /\ IsInjective(sub.links) =>
           /\ Apart(todo)
           /\ \A i \in Known, k \in DOMAIN todo : Shown(i) \cap Held(todo[k]) = {}

IInv == Types /\ Thread /\ Fresh /\ Chained /\ PostedOnce

LEMMA InitIInv == Init => IInv
  <1> SUFFICES ASSUME Init PROVE IInv
    OBVIOUS
  <1> USE DEF Init
  <1>1. Known = {} /\ DOMAIN posts = {}
    BY DEF Known
  <1>2. Types
    BY PostingAssumption DEF Types, TypeOK, Eligible, ToSet
  <1> QED
    BY <1>1, <1>2 DEF IInv, Thread, Fresh, Chained, PostedOnce

(* A step that changes nothing that is known keeps the chain and repeats nothing. *)
LEMMA Quiet ==
  ASSUME IInv, Known' = Known, \A i \in Known : posts'[i] = posts[i], UNCHANGED sub
  PROVE  /\ Chained' /\ PostedOnce'
         /\ \A i \in Known : Shown(i)' = Shown(i)
  <1>1. \A i \in Known : Shown(i)' = Shown(i)
    BY DEF Shown
  <1>2. Chained'
    <2>1. ASSUME NEW i \in Known
          PROVE  {j \in Known : j < i /\ posts'[j].first = posts'[i].first}
                   = {j \in Known : j < i /\ posts[j].first = posts[i].first}
      OBVIOUS
    <2> QED
      BY <2>1 DEF IInv, Chained
  <1>3. PostedOnce'
    BY <1>1 DEF IInv, PostedOnce
  <1> QED
    BY <1>1, <1>2, <1>3

(* Before the first post of an attempt nothing is known. *)
LEMMA NothingKnown ==
  ASSUME IInv, root = 0
  PROVE  Known = {}
  <1> SUFFICES ASSUME NEW i \in Known PROVE FALSE
    OBVIOUS
  <1>1. i \in DOMAIN posts /\ posts[i].first \in 1 .. i /\ posts[i].first = 0
        /\ DOMAIN posts = 1 .. Len(posts)
    BY DEF Known, IInv, Thread, Types
  <1> QED
    BY <1>1

LEMMA OneMoreFault ==
  ASSUME IInv, Fault \/ UNCHANGED faults
  PROVE  faults' \in 0 .. MaxFaults
  <1>1. faults \in 0 .. MaxFaults /\ MaxFaults \in Nat
    BY PostingAssumption DEF IInv, Types, TypeOK
  <1> QED
    BY <1>1 DEF Fault

(* What Continue leaves, whatever the parts. *)
LEMMA ContinueTypes ==
  ASSUME state \in Eligible, NEW parts \in Seq(PartRec), Continue(parts)
  PROVE  /\ todo' = parts /\ pending' \in Seq(File) /\ blobs' = <<>> /\ kinds' = <<>>
         /\ blobs' \in Seq(File) /\ kinds' \in Seq(FailureKind)
         /\ IF parts = <<>> THEN pc' = "idle" /\ state' = "published"
            ELSE pc' = "post" /\ state' = state
         /\ pc' = "post" => ToSet(blobs') \cup ToSet(pending') \subseteq ToSet(Head(todo').media)
  <1>1. parts # <<>> => Head(parts) \in PartRec
    OBVIOUS
  <1>2. parts # <<>> => Head(parts).media \in Seq(File)
    BY <1>1 DEF PartRec
  <1> QED
    BY <1>2 DEF Continue, ToSet

(* After a failed part come parts that were to come anyway. *)
LEMMA AfterFailureParts ==
  ASSUME todo \in Seq(PartRec)
  PROVE  /\ AfterFailure \in Seq(PartRec)
         /\ \A k \in DOMAIN AfterFailure : \E n \in DOMAIN todo : AfterFailure[k] = todo[n]
         /\ Apart(todo) => Apart(AfterFailure)
  <1> DEFINE rest == {i \in DOMAIN todo : todo[i].type # Head(todo).type}
  <1>1. CASE rest = {}
    BY <1>1 DEF AfterFailure, Apart
  <1>2. CASE rest # {}
    <2> DEFINE m == Min(rest)
    <2>1. \E x \in rest : \A y \in rest : x =< y
      <3>1. rest \subseteq Nat
        OBVIOUS
      <3> QED
        BY <1>2, <3>1, Least
    <2>2. m \in rest
      BY <2>1, Zenon DEF Min
    <2>3. m \in 1 .. Len(todo)
      BY <2>2
    <2>4. AfterFailure = SubSeq(todo, m, Len(todo))
      BY <1>2 DEF AfterFailure
    <2> HIDE DEF m, rest
    <2>5. /\ AfterFailure \in Seq(PartRec) /\ DOMAIN AfterFailure = 1 .. Len(todo) - m + 1
          /\ \A k \in DOMAIN AfterFailure : AfterFailure[k] = todo[m + k - 1]
      BY <2>3, <2>4
    <2>6. \A k \in DOMAIN AfterFailure : k \in Nat /\ m + k - 1 \in DOMAIN todo
      BY <2>3, <2>5
    <2>7. Apart(todo) => Apart(AfterFailure)
      <3> SUFFICES ASSUME Apart(todo), NEW i \in DOMAIN AfterFailure, NEW j \in DOMAIN AfterFailure, i # j
                   PROVE  Held(AfterFailure[i]) \cap Held(AfterFailure[j]) = {}
        BY DEF Apart
      <3>1. m + i - 1 # m + j - 1
        BY <2>3, <2>6
      <3> QED
        BY <2>5, <2>6, <3>1 DEF Apart
    <2> QED
      BY <2>5, <2>6, <2>7
  <1> QED
    BY <1>1, <1>2

(* A part fails, at most leaving a post nobody knows of. *)
LEMMA FailPartKeeps ==
  ASSUME IInv, pc = "post", NEW kind, FailPart(kind),
         UNCHANGED <<sub, logins, root, last, cut>>, faults' \in 0 .. MaxFaults,
         posts' \in Seq(PostRec), Len(posts) <= Len(posts'),
         \A i \in DOMAIN posts' : posts'[i].first \in 1 .. i,
         Known' = Known, \A i \in Known : posts'[i] = posts[i]
  PROVE  IInv'
  <1>1. /\ Chained' /\ PostedOnce'
        /\ \A i \in Known : Shown(i)' = Shown(i)
    BY Quiet
  <1>2. /\ TypeOK /\ todo \in Seq(PartRec) /\ Len(posts) \in Nat /\ Len(posts') \in Nat
        /\ DOMAIN posts = 1 .. Len(posts) /\ DOMAIN posts' = 1 .. Len(posts')
    BY DEF IInv, Types
  <1>3. {root, last} \subseteq 0 .. Len(posts') /\ cut \subseteq DOMAIN posts'
    BY <1>2 DEF TypeOK
  <1>4. CASE root = 0
    <2>1. Fail(kind)
      BY <1>4 DEF FailPart
    <2>2. Known = {}
      BY <1>4, NothingKnown
    <2>3. Types'
      BY <1>2, <1>3, <2>1 DEF Types, TypeOK, Fail, IInv, ToSet, Eligible
    <2>4. Thread'
      BY <2>1, <2>2 DEF Thread, Fail
    <2>5. Fresh'
      BY <2>1 DEF Fresh, Fail
    <2> QED
      BY <1>1, <2>3, <2>4, <2>5 DEF IInv
  <1>5. CASE root # 0
    <2>1. Continue(AfterFailure)
      BY <1>5 DEF FailPart
    <2>2. /\ AfterFailure \in Seq(PartRec)
          /\ \A k \in DOMAIN AfterFailure : \E n \in DOMAIN todo : AfterFailure[k] = todo[n]
          /\ Apart(todo) => Apart(AfterFailure)
      BY <1>2, AfterFailureParts
    <2>3. state \in Eligible
      BY DEF IInv, Thread
    <2>4. /\ todo' = AfterFailure /\ pending' \in Seq(File)
          /\ blobs' \in Seq(File) /\ kinds' = <<>>
          /\ IF todo' = <<>> THEN pc' = "idle" /\ state' = "published"
             ELSE pc' = "post" /\ state' = state
          /\ pc' = "post" => ToSet(blobs') \cup ToSet(pending') \subseteq ToSet(Head(todo').media)
      BY <2>1, <2>2, <2>3, ContinueTypes
    <2>5. Types'
      <3>1. ToSet(pending') \cup ToSet(blobs') \subseteq File /\ ToSet(kinds') \subseteq FailureKind
        BY <2>4 DEF ToSet
      <3> QED
        BY <1>2, <1>3, <2>2, <2>3, <2>4, <3>1 DEF Types, TypeOK, IInv
    <2>6. Thread'
      BY <1>5, <2>3, <2>4 DEF Thread, IInv, Eligible
    <2>7. Fresh'
      <3>1. ASSUME pc' = "post", IsInjective(sub.links)
            PROVE  /\ Apart(todo')
                   /\ \A i \in Known', k \in DOMAIN todo' : Shown(i)' \cap Held(todo'[k]) = {}
        <4>1. /\ Apart(todo)
              /\ \A i \in Known, k \in DOMAIN todo : Shown(i) \cap Held(todo[k]) = {}
          BY <3>1 DEF IInv, Fresh
        <4> QED
          BY <1>1, <2>2, <2>4, <4>1
      <3> QED
        BY <2>4, <3>1 DEF Fresh
    <2> QED
      BY <1>1, <2>5, <2>6, <2>7 DEF IInv
  <1> QED
    BY <1>4, <1>5

LEMMA StartKeeps == ASSUME IInv, Start PROVE IInv'
  <1>1. Known' = Known /\ \A i \in Known : posts'[i] = posts[i]
    BY DEF Start, Known, part
  <1>2. Chained' /\ PostedOnce'
    BY <1>1, Quiet DEF Start
  <1>3. todo' = <<>> /\ Known = {}
    BY DEF Start, IInv, Types, TypeOK, Thread, part
  <1>a. LoginAttempts \in Nat \ {0}
    BY PostingAssumption
  <1>4. Types'
    <2>1. {root', last'} \subseteq 0 .. Len(posts) /\ logins' \in 0 .. LoginAttempts
          /\ root' \in Nat /\ last' \in Nat
      BY <1>a DEF Start, IInv, Types
    <2> QED
      BY <1>3, <2>1 DEF Start, IInv, Types, TypeOK, part
  <1>5. Thread'
    BY <1>a, <1>1, <1>3 DEF Start, IInv, Thread, part
  <1>6. Fresh'
    BY DEF Start, Fresh, part
  <1> QED
    BY <1>2, <1>4, <1>5, <1>6 DEF IInv

LEMMA LoginFailsKeeps == ASSUME IInv, NEW kind \in FailureKind, LoginFails(kind) PROVE IInv'
  <1>1. Known' = Known /\ \A i \in Known : posts'[i] = posts[i]
    BY DEF LoginFails, Known
  <1>2. Chained' /\ PostedOnce'
    BY <1>1, Quiet DEF LoginFails
  <1>3. root = 0 /\ last = 0
    BY DEF LoginFails, IInv, Thread
  <1>4. Known = {}
    BY <1>3, NothingKnown
  <1>5. logins' \in 0 .. LoginAttempts
    <2>1. /\ LoginAttempts \in Nat \ {0} /\ logins \in 0 .. LoginAttempts
          /\ logins < LoginAttempts /\ logins' = logins + 1
      BY PostingAssumption DEF LoginFails, IInv, Types, TypeOK, Thread
    <2> QED
      BY <2>1
  <1>6. faults' \in 0 .. MaxFaults
    BY OneMoreFault DEF LoginFails
  <1>7. CASE Fail(kind)
    <2>1. Types'
      BY <1>5, <1>6, <1>7 DEF LoginFails, Fail, IInv, Types, TypeOK, ToSet, Eligible
    <2>2. Thread'
      BY <1>1, <1>4, <1>7 DEF LoginFails, Fail, IInv, Thread
    <2>3. Fresh'
      BY <1>7 DEF Fail, Fresh
    <2> QED
      BY <1>2, <2>1, <2>2, <2>3 DEF IInv
  <1>8. CASE logins + 1 # LoginAttempts /\ UNCHANGED <<state, pc, part, mishap>>
    <2>1. Types'
      BY <1>5, <1>6, <1>8 DEF LoginFails, IInv, Types, TypeOK, part
    <2>2. Thread'
      <3>1. logins' < LoginAttempts
        BY <1>5, <1>8, PostingAssumption DEF LoginFails
      <3> QED
        BY <1>1, <1>8, <3>1 DEF LoginFails, IInv, Thread, part
    <2>3. Fresh'
      BY <1>8 DEF LoginFails, Fresh, part
    <2> QED
      BY <1>2, <2>1, <2>2, <2>3 DEF IInv
  <1> QED
    BY <1>7, <1>8 DEF LoginFails

LEMMA LoginKeeps == ASSUME IInv, Login PROVE IInv'
  <1>1. Known' = Known /\ \A i \in Known : posts'[i] = posts[i]
    BY DEF Login, Known
  <1>2. Chained' /\ PostedOnce'
    BY <1>1, Quiet DEF Login
  <1>3. root = 0 /\ last = 0 /\ state \in Eligible
    BY DEF Login, IInv, Thread
  <1>4. Known = {}
    BY <1>3, NothingKnown
  <1>5. CASE DetermineKind(sub) = "empty"
    <2>0. Fail("unknown")
      BY <1>5 DEF Login
    <2>1. Types'
      BY <2>0 DEF Login, Fail, IInv, Types, TypeOK, ToSet, Eligible
    <2>2. Thread'
      BY <1>1, <1>4, <2>0 DEF Login, Fail, IInv, Thread
    <2>3. Fresh'
      BY <2>0 DEF Fail, Fresh
    <2> QED
      BY <1>2, <2>1, <2>2, <2>3 DEF IInv
  <1>6. CASE DetermineKind(sub) # "empty"
    <2>1. Continue(Parts(sub))
      BY <1>6 DEF Login
    <2>2. /\ Parts(sub) \in Seq(PartRec) /\ Parts(sub) # <<>>
          /\ IsInjective(sub.links) => Apart(Parts(sub))
      <3>1. sub \in Content /\ sub \in Submission
        BY DEF IInv, Types, TypeOK
      <3> QED
        BY <1>6, <3>1, PartsApart, PostingAssumption
    <2>3. /\ todo' = Parts(sub) /\ pending' \in Seq(File)
          /\ blobs' \in Seq(File) /\ kinds' = <<>> /\ pc' = "post" /\ state' = state
          /\ ToSet(blobs') \cup ToSet(pending') \subseteq ToSet(Head(todo').media)
      BY <1>3, <2>1, <2>2, ContinueTypes
    <2>4. Types'
      <3>1. ToSet(pending') \cup ToSet(blobs') \subseteq File /\ ToSet(kinds') \subseteq FailureKind
        BY <2>3 DEF ToSet
      <3> QED
        BY <2>2, <2>3, <3>1 DEF Login, IInv, Types, TypeOK
    <2>5. Thread'
      BY <1>1, <1>3, <1>4, <2>3 DEF Login, IInv, Thread
    <2>6. Fresh'
      BY <1>1, <1>4, <2>2, <2>3 DEF Login, Fresh
    <2> QED
      BY <1>2, <2>4, <2>5, <2>6 DEF IInv
  <1> QED
    BY <1>5, <1>6

LEMMA UploadKeeps == ASSUME IInv, Upload \/ \E k \in FailureKind : UploadFails(k) PROVE IInv'
  <1>0. /\ pc = "post" /\ pending # <<>> /\ pending' = Tail(pending)
        /\ \/ blobs' = Append(blobs, Head(pending)) /\ UNCHANGED <<kinds, faults>>
           \/ /\ \E k \in FailureKind : kinds' = Append(kinds, k)
              /\ UNCHANGED blobs /\ faults' \in 0 .. MaxFaults
        /\ UNCHANGED <<sub, state, pc, logins, todo, root, last, posts, cut>>
    <2>1. CASE Upload
      BY <2>1 DEF Upload
    <2>2. CASE \E k \in FailureKind : UploadFails(k)
      <3>1. PICK k \in FailureKind : UploadFails(k)
        BY <2>2
      <3>2. Fault \/ UNCHANGED faults
        BY <3>1 DEF UploadFails
      <3>3. faults' \in 0 .. MaxFaults
        BY <3>2, OneMoreFault
      <3> QED
        BY <3>1, <3>3 DEF UploadFails
    <2> QED
      BY <2>1, <2>2
  <1>1. Known' = Known /\ \A i \in Known : posts'[i] = posts[i]
    BY <1>0 DEF Known
  <1>2. /\ Chained' /\ PostedOnce'
        /\ \A i \in Known : Shown(i)' = Shown(i)
    BY <1>0, <1>1, Quiet
  <1>3. /\ pending \in Seq(File) /\ blobs \in Seq(File) /\ kinds \in Seq(FailureKind)
        /\ TypeOK
    BY DEF IInv, Types
  <1>4. /\ pending' \in Seq(File) /\ blobs' \in Seq(File) /\ kinds' \in Seq(FailureKind)
        /\ faults' \in 0 .. MaxFaults
    <2>1. Tail(pending) \in Seq(File) /\ Append(blobs, Head(pending)) \in Seq(File)
      BY <1>0, <1>3
    <2>2. \A k \in FailureKind : Append(kinds, k) \in Seq(FailureKind)
      BY <1>3
    <2> QED
      BY <1>0, <1>3, <2>1, <2>2 DEF TypeOK
  <1>5. ToSet(pending') \cup ToSet(blobs') \subseteq ToSet(pending) \cup ToSet(blobs)
    <2>1. ToSet(Tail(pending)) \subseteq ToSet(pending) /\ Head(pending) \in ToSet(pending)
      BY <1>0, <1>3 DEF ToSet
    <2>2. ToSet(Append(blobs, Head(pending))) \subseteq ToSet(blobs) \cup {Head(pending)}
      BY <1>3 DEF ToSet
    <2> QED
      BY <1>0, <2>1, <2>2
  <1>6. Types'
    <2>1. ToSet(pending') \cup ToSet(blobs') \subseteq File /\ ToSet(kinds') \subseteq FailureKind
      BY <1>4 DEF ToSet
    <2> QED
      BY <1>0, <1>4, <2>1 DEF IInv, Types, TypeOK
  <1>7. Thread'
    BY <1>0, <1>1 DEF IInv, Thread
  <1>8. Fresh'
    <2>1. ToSet(pending') \cup ToSet(blobs') \subseteq ToSet(Head(todo').media)
      BY <1>0, <1>5 DEF IInv, Fresh
    <2> QED
      BY <1>0, <1>1, <1>2, <2>1 DEF IInv, Fresh
  <1> QED
    BY <1>2, <1>6, <1>7, <1>8 DEF IInv

LEMMA GiveUpKeeps ==
  ASSUME IInv, GiveUpPart \/ \E k \in FailureKind : CreateFails(k)
  PROVE  IInv'
  <1>1. PICK kind : /\ FailPart(kind) /\ pc = "post"
                    /\ (Fault \/ UNCHANGED faults)
                    /\ UNCHANGED <<sub, logins, root, last, posts, cut>>
    BY DEF GiveUpPart, CreateFails
  <1>2. Known' = Known /\ \A i \in Known : posts'[i] = posts[i]
    BY <1>1 DEF Known
  <1>3. faults' \in 0 .. MaxFaults
    BY <1>1, OneMoreFault
  <1>4. /\ posts' \in Seq(PostRec) /\ Len(posts) <= Len(posts')
        /\ \A i \in DOMAIN posts' : posts'[i].first \in 1 .. i
    BY <1>1 DEF IInv, Types, Thread
  <1>5. UNCHANGED <<sub, logins, root, last, cut>> /\ pc = "post" /\ FailPart(kind)
    BY <1>1
  <1> QED
    BY <1>2, <1>3, <1>4, <1>5, FailPartKeeps

(* A part that is posted is a post, under the first post of its attempt. *)
LEMMA NewPostTyped ==
  ASSUME IInv, pc = "post", NEW answered \in BOOLEAN, posts' = Append(posts, NewPost(answered))
  PROVE  /\ NewPost(answered) \in PostRec
         /\ posts' \in Seq(PostRec) /\ Len(posts') = Len(posts) + 1 /\ Len(posts) \in Nat
         /\ DOMAIN posts = 1 .. Len(posts) /\ DOMAIN posts' = 1 .. Len(posts) + 1
         /\ \A i \in DOMAIN posts : posts'[i] = posts[i]
         /\ posts'[Len(posts) + 1] = NewPost(answered)
         /\ \A i \in DOMAIN posts' : posts'[i].first \in 1 .. i
         /\ NewPost(answered).first = IF root = 0 THEN Len(posts) + 1 ELSE root
         /\ NewPost(answered).first \notin cut
  <1>1. /\ posts \in Seq(PostRec) /\ todo \in Seq(PartRec) /\ todo # <<>> /\ blobs \in Seq(File)
        /\ root \in 0 .. Len(posts) /\ last \in Nat /\ Len(posts) \in Nat /\ cut \subseteq DOMAIN posts
    BY DEF IInv, Types, TypeOK
  <1>2. Head(todo) \in PartRec /\ ToSet(blobs) \subseteq File
    BY <1>1 DEF ToSet
  <1>3. NewPost(answered).first = IF root = 0 THEN Len(posts) + 1 ELSE root
    BY DEF NewPost
  <1>4. NewPost(answered) \in PostRec
    <2>1. (IF root = 0 THEN Len(posts) + 1 ELSE root) \in Nat
      BY <1>1
    <2> QED
      BY <1>1, <1>2, <2>1 DEF NewPost, PostRec, PartRec
  <1> DEFINE p == NewPost(answered)
  <1> HIDE DEF p
  <1>5. /\ posts' \in Seq(PostRec) /\ Len(posts') = Len(posts) + 1
        /\ DOMAIN posts = 1 .. Len(posts) /\ DOMAIN posts' = 1 .. Len(posts) + 1
        /\ \A i \in DOMAIN posts : posts'[i] = posts[i]
        /\ posts'[Len(posts) + 1] = NewPost(answered)
    BY <1>1, <1>4, AppendProperties
  <1>6. \A i \in DOMAIN posts' : posts'[i].first \in 1 .. i
    <2>1. \A i \in DOMAIN posts : posts'[i].first \in 1 .. i
      BY <1>5 DEF IInv, Thread
    <2>2. NewPost(answered).first \in 1 .. Len(posts) + 1
      BY <1>1, <1>3
    <2> QED
      BY <1>1, <1>5, <2>1, <2>2
  <1>7. NewPost(answered).first \notin cut
    <2>1. root # 0 => root \notin cut
      BY DEF IInv, Thread, Known
    <2> QED
      BY <1>1, <1>3, <1>5, <2>1
  <1> QED
    BY <1>1, <1>3, <1>4, <1>5, <1>6, <1>7

LEMMA CreateLostKeeps == ASSUME IInv, CreateLost PROVE IInv'
  <1>1. /\ pc = "post" /\ posts' = Append(posts, NewPost(FALSE)) /\ FailPart("upstream") /\ Fault
        /\ UNCHANGED <<sub, logins, root, last, cut>>
    BY DEF CreateLost
  <1>2. /\ posts' \in Seq(PostRec) /\ Len(posts') = Len(posts) + 1 /\ Len(posts) \in Nat
        /\ DOMAIN posts = 1 .. Len(posts) /\ DOMAIN posts' = 1 .. Len(posts) + 1
        /\ \A i \in DOMAIN posts : posts'[i] = posts[i]
        /\ posts'[Len(posts) + 1] = NewPost(FALSE)
        /\ \A i \in DOMAIN posts' : posts'[i].first \in 1 .. i
    BY <1>1, NewPostTyped
  <1>3. NewPost(FALSE).answered = FALSE
    BY DEF NewPost
  <1>4. Known' = Known /\ \A i \in Known : posts'[i] = posts[i]
    <2>1. \A i \in DOMAIN posts' : i \in DOMAIN posts \/ i = Len(posts) + 1
      BY <1>2
    <2>2. DOMAIN posts \subseteq DOMAIN posts'
      BY <1>2
    <2> QED
      BY <1>1, <1>2, <1>3, <2>1, <2>2 DEF Known
  <1>5. faults' \in 0 .. MaxFaults
    BY <1>1, OneMoreFault
  <1>6. Len(posts) <= Len(posts')
    BY <1>2
  <1> QED
    BY <1>1, <1>2, <1>4, <1>5, <1>6, FailPartKeeps

LEMMA CreatePostKeeps == ASSUME IInv, CreatePost PROVE IInv'
  <1> DEFINE p == NewPost(TRUE)
  <1>a. PICK new \in Nat : new = Len(posts) + 1
    <2>1. Len(posts) \in Nat
      BY DEF IInv, Types
    <2> QED
      BY <2>1
  <1>1. /\ pc = "post" /\ posts' = Append(posts, p) /\ Continue(Tail(todo)) /\ ~NoMedia
        /\ root' = p.first /\ last' = Len(posts') /\ UNCHANGED <<sub, logins, mishap, cut, faults>>
    BY DEF CreatePost
  <1>2. /\ p \in PostRec /\ posts' \in Seq(PostRec) /\ Len(posts') = new /\ Len(posts) \in Nat
        /\ DOMAIN posts = 1 .. Len(posts) /\ DOMAIN posts' = 1 .. new
        /\ \A i \in DOMAIN posts : posts'[i] = posts[i]
        /\ posts'[new] = p
        /\ \A i \in DOMAIN posts' : posts'[i].first \in 1 .. i
        /\ p.first = IF root = 0 THEN new ELSE root
        /\ p.first \notin cut
    BY <1>1, <1>a, NewPostTyped
  <1>3. /\ p.answered = TRUE /\ p.parent = last /\ p.media = ToSet(blobs)
        /\ p.type = Head(todo).type /\ p.link = Head(todo).link
    BY DEF NewPost
  <1> HIDE DEF p
  <1>4. Known' = Known \cup {new} /\ \A i \in Known : posts'[i] = posts[i] /\ i < new /\ i \in Nat
    <2>1. \A i \in DOMAIN posts' : i \in DOMAIN posts \/ i = new
      BY <1>2, <1>a
    <2>2. DOMAIN posts \subseteq DOMAIN posts' /\ new \in DOMAIN posts'
      BY <1>2, <1>a
    <2>3. \A i \in DOMAIN posts : i < new /\ i \in Nat
      BY <1>2, <1>a
    <2>4. Known \subseteq DOMAIN posts
      BY DEF Known
    <2> QED
      BY <1>1, <1>2, <1>3, <2>1, <2>2, <2>3, <2>4 DEF Known
  <1>5. \A i \in Known : posts[i].first = root /\ (root # 0 => i <= last)
    BY <1>1 DEF IInv, Thread
  <1>6. root = 0 => Known = {} /\ last = 0
    BY <1>1, NothingKnown DEF IInv, Thread
  <1>7. root # 0 => last \in Known
    BY <1>1 DEF IInv, Thread
  <1>8. todo \in Seq(PartRec) /\ todo # <<>> /\ Tail(todo) \in Seq(PartRec) /\ state \in Eligible
        /\ Head(todo) \in PartRec
    BY <1>1 DEF IInv, Types, TypeOK, Thread
  <1>9. /\ todo' = Tail(todo) /\ pending' \in Seq(File)
        /\ blobs' \in Seq(File) /\ kinds' = <<>>
        /\ IF todo' = <<>> THEN pc' = "idle" /\ state' = "published"
           ELSE pc' = "post" /\ state' = state
        /\ pc' = "post" => ToSet(blobs') \cup ToSet(pending') \subseteq ToSet(Head(todo').media)
    BY <1>1, <1>8, ContinueTypes
  <1>10. Types'
    <2>1. ToSet(pending') \cup ToSet(blobs') \subseteq File /\ ToSet(kinds') \subseteq FailureKind
      BY <1>9 DEF ToSet
    <2>2. TypeOK /\ root \in 0 .. Len(posts) /\ cut \subseteq DOMAIN posts
      BY DEF IInv, Types, TypeOK
    <2>3. root' \in 0 .. Len(posts') /\ last' \in 0 .. Len(posts')
      BY <1>1, <1>2, <1>a, <2>2
    <2>4. cut' \subseteq DOMAIN posts'
      BY <1>1, <1>2, <1>a, <2>2
    <2>5. kinds' \in Seq(FailureKind) /\ root' \in Nat /\ last' \in Nat
      BY <1>2, <1>9, <2>3
    <2>6. todo' \in Seq(PartRec) /\ (pc' = "post" <=> todo' # <<>>)
      BY <1>8, <1>9
    <2> QED
      BY <1>1, <1>2, <1>8, <1>9, <2>1, <2>2, <2>3, <2>4, <2>5, <2>6 DEF Types, TypeOK, IInv
  <1>11. Thread'
    <2>1. \A i \in Known' : posts'[i].first = root'
      BY <1>1, <1>2, <1>4, <1>5, <1>6
    <2>2. root' # 0 /\ last' = new
      BY <1>1, <1>2, <1>6, <1>a
    <2>3. last' \in Known' /\ \A i \in Known' : i <= last'
      BY <1>2, <1>4, <1>a, <2>2
    <2> QED
      BY <1>2, <1>8, <1>9, <2>1, <2>2, <2>3 DEF Thread, Eligible
  <1>12. Chained'
    <2>1. ASSUME NEW i \in Known
          PROVE  posts'[i].parent = Max({0} \cup {j \in Known' : j < i /\ posts'[j].first = posts'[i].first})
      <3>1. {j \in Known' : j < i /\ posts'[j].first = posts'[i].first}
              = {j \in Known : j < i /\ posts[j].first = posts[i].first}
        <4>1. ~(new < i)
          BY <1>2, <1>4, <1>a
        <4> QED
          BY <1>4, <4>1
      <3> QED
        BY <1>4, <3>1 DEF IInv, Chained
    <2>2. p.parent = Max({0} \cup {j \in Known' : j < new /\ posts'[j].first = posts'[new].first})
      <3>1. {j \in Known' : j < new /\ posts'[j].first = posts'[new].first} = Known
        BY <1>2, <1>4, <1>5, <1>6, <1>a
      <3>2. last \in {0} \cup Known /\ {0} \cup Known \subseteq Nat
            /\ \A k \in {0} \cup Known : k <= last
        BY <1>4, <1>5, <1>6, <1>7
      <3>3. Max({0} \cup Known) = last
        BY <3>2, MaxIs
      <3> QED
        BY <1>3, <3>1, <3>3
    <2>3. posts'[new].parent = Max({0} \cup {j \in Known' : j < new /\ posts'[j].first = posts'[new].first})
      BY <1>2, <2>2
    <2>4. \A i \in Known' : i \in Known \/ i = new
      BY <1>4
    <2> QED
      BY <2>1, <2>3, <2>4, Zenon DEF Chained
  <1>13. ASSUME IsInjective(sub.links)
         PROVE  /\ \A i, j \in Known' : i # j => Shown(i)' \cap Shown(j)' = {}
                /\ pc' = "post" => /\ Apart(todo')
                                   /\ \A i \in Known', k \in DOMAIN todo' : Shown(i)' \cap Held(todo'[k]) = {}
    <2>1. /\ Apart(todo)
          /\ \A i \in Known, k \in DOMAIN todo : Shown(i) \cap Held(todo[k]) = {}
          /\ ToSet(blobs) \subseteq ToSet(Head(todo).media)
          /\ \A i, j \in Known : i # j => Shown(i) \cap Shown(j) = {}
      BY <1>1, <1>13 DEF IInv, Fresh, PostedOnce
    <2>2. \A i \in Known : Shown(i)' = Shown(i)
      BY <1>4 DEF Shown
    <2>3. Shown(new)' \subseteq Held(Head(todo))
      BY <1>2, <1>3, <2>1 DEF Shown, Held
    <2>4. 1 \in DOMAIN todo /\ Head(todo) = todo[1]
      BY <1>8
    <2>5. \A i \in Known : Shown(i) \cap Shown(new)' = {}
      BY <2>1, <2>3, <2>4
    <2>6. \A i, j \in Known' : i # j => Shown(i)' \cap Shown(j)' = {}
      BY <1>4, <2>1, <2>2, <2>5
    <2>7. \A k \in DOMAIN Tail(todo) : k \in Nat /\ k + 1 \in DOMAIN todo /\ k + 1 # 1
                                       /\ Tail(todo)[k] = todo[k + 1]
      BY <1>8
    <2>8. Apart(Tail(todo))
      <3> SUFFICES ASSUME NEW i \in DOMAIN Tail(todo), NEW j \in DOMAIN Tail(todo), i # j
                   PROVE  Held(Tail(todo)[i]) \cap Held(Tail(todo)[j]) = {}
        BY DEF Apart
      <3>1. i + 1 # j + 1
        BY <2>7
      <3> QED
        BY <2>1, <2>7, <3>1 DEF Apart
    <2>9. \A k \in DOMAIN Tail(todo) : Shown(new)' \cap Held(Tail(todo)[k]) = {}
      <3>1. \A k \in DOMAIN Tail(todo) : Held(todo[1]) \cap Held(todo[k + 1]) = {}
        BY <2>1, <2>4, <2>7 DEF Apart
      <3> QED
        BY <2>3, <2>4, <2>7, <3>1
    <2>10. \A i \in Known', k \in DOMAIN Tail(todo) : Shown(i)' \cap Held(Tail(todo)[k]) = {}
      BY <1>4, <2>1, <2>2, <2>7, <2>9
    <2> QED
      BY <1>9, <2>6, <2>8, <2>10
  <1>14. PostedOnce' /\ Fresh'
    BY <1>1, <1>9, <1>13 DEF PostedOnce, Fresh
  <1> QED
    BY <1>10, <1>11, <1>12, <1>14 DEF IInv

LEMMA StopKeeps == ASSUME IInv, Stop PROVE IInv'
  <1>1. Known' = {}
    <2>1. \A i \in Known : posts[i].first = root /\ posts[i].first # 0
      <3>1. \A i \in Known : i \in 1 .. Len(posts) /\ posts[i].first \in 1 .. i
        BY DEF IInv, Types, Thread, Known
      <3> QED
        BY <3>1 DEF IInv, Thread
    <2>2. Known' \subseteq Known
      <3>1. cut \subseteq cut' /\ UNCHANGED posts
        BY DEF Stop, IInv, Types, TypeOK
      <3> QED
        BY <3>1 DEF Known
    <2>3. root # 0 => root \in cut'
      BY DEF Stop
    <2> QED
      BY <2>1, <2>2, <2>3 DEF Stop, Known
  <1>2. Types'
    <2>1. faults' \in 0 .. MaxFaults
      BY OneMoreFault DEF Stop
    <2>2. cut' \subseteq DOMAIN posts'
      <3>1. root \in 0 .. Len(posts) /\ DOMAIN posts = 1 .. Len(posts) /\ Len(posts) \in Nat
            /\ cut \subseteq DOMAIN posts
        BY DEF IInv, Types, TypeOK
      <3> QED
        BY <3>1 DEF Stop
    <2> QED
      BY <2>1, <2>2 DEF Stop, IInv, Types, TypeOK, ToSet
  <1>3. Thread'
    BY <1>1 DEF Stop, IInv, Thread
  <1>4. Fresh' /\ Chained' /\ PostedOnce'
    BY <1>1 DEF Stop, Fresh, Chained, PostedOnce
  <1> QED
    BY <1>2, <1>3, <1>4 DEF IInv

LEMMA NextIInv == IInv /\ [Next]_vars => IInv'
  <1> SUFFICES ASSUME IInv, [Next]_vars PROVE IInv'
    OBVIOUS
  <1>1. CASE Start
    BY <1>1, StartKeeps
  <1>2. CASE Login \/ \E k \in FailureKind : LoginFails(k)
    BY <1>2, LoginKeeps, LoginFailsKeeps
  <1>3. CASE Upload \/ \E k \in FailureKind : UploadFails(k)
    BY <1>3, UploadKeeps
  <1>4. CASE GiveUpPart \/ \E k \in FailureKind : CreateFails(k)
    BY <1>4, GiveUpKeeps
  <1>5. CASE CreatePost \/ CreateLost
    BY <1>5, CreatePostKeeps, CreateLostKeeps
  <1>6. CASE Stop
    BY <1>6, StopKeeps
  <1>7. CASE UNCHANGED vars
    <2>1. UNCHANGED <<sub, state, pc, logins, todo, pending, blobs, kinds, root, last, posts,
                      mishap, cut, faults>>
      BY <1>7 DEF vars, conv, part
    <2>2. Known' = Known /\ \A i \in Known : posts'[i] = posts[i]
      BY <2>1 DEF Known
    <2>3. Chained' /\ PostedOnce' /\ \A i \in Known : Shown(i)' = Shown(i)
      BY <2>1, <2>2, Quiet
    <2> QED
      BY <2>1, <2>2, <2>3 DEF IInv, Types, TypeOK, Thread, Fresh
  <1> QED
    BY <1>1, <1>2, <1>3, <1>4, <1>5, <1>6, <1>7 DEF Next, Requests

LEMMA AlwaysIInv == Spec => []IInv
  BY InitIInv, NextIInv, PTL DEF Spec

-----------------------------------------------------------------------------
(* Nothing is left out.                                                    *)

Contained(parts) == UNION {Held(parts[k]) : k \in DOMAIN parts}
Displayed        == UNION {Shown(i) : i \in Known}

\* While nothing went wrong, all files of the part being posted are uploaded or will be,
\* and what is not in a post yet is in a part to come.
Whole ==
    ~mishap =>
        /\ pc = "post" =>
            /\ ToSet(Head(todo).media) = ToSet(blobs) \cup ToSet(pending)
            /\ Everything(sub) = Displayed \cup Contained(todo)
        /\ state = "published" => Everything(sub) = Displayed

LEMMA ContainedIn ==
  ASSUME NEW parts, NEW x
  PROVE  x \in Contained(parts) <=> \E k \in DOMAIN parts : x \in Held(parts[k])
  BY DEF Contained

LEMMA ContainedConcat ==
  ASSUME NEW a \in Seq(PartRec), NEW b \in Seq(PartRec)
  PROVE  Contained(a \o b) = Contained(a) \cup Contained(b)
  <1>1. \A n \in DOMAIN (a \o b) : \/ n \in DOMAIN a /\ (a \o b)[n] = a[n]
                                   \/ n - Len(a) \in DOMAIN b /\ (a \o b)[n] = b[n - Len(a)]
    OBVIOUS
  <1>2. \A n \in DOMAIN a : n \in DOMAIN (a \o b) /\ (a \o b)[n] = a[n]
    OBVIOUS
  <1>3. ASSUME NEW n \in DOMAIN b
        PROVE  Len(a) + n \in DOMAIN (a \o b) /\ (a \o b)[Len(a) + n] = b[n]
    <2>1. n \in 1 .. Len(b) /\ Len(a) \in Nat /\ Len(b) \in Nat
      OBVIOUS
    <2>2. Len(a) + n \in 1 .. Len(a) + Len(b) /\ (Len(a) + n) - Len(a) = n /\ ~(Len(a) + n <= Len(a))
      BY <2>1
    <2> QED
      BY <2>1, <2>2
  <1>4. ASSUME NEW x
        PROVE  x \in Contained(a \o b) <=> x \in Contained(a) \/ x \in Contained(b)
    <2>1. x \in Contained(a \o b) => x \in Contained(a) \/ x \in Contained(b)
      BY <1>1, ContainedIn
    <2>2. x \in Contained(a) => x \in Contained(a \o b)
      BY <1>2, ContainedIn
    <2>3. x \in Contained(b) => x \in Contained(a \o b)
      BY <1>3, ContainedIn
    <2> QED
      BY <2>1, <2>2, <2>3
  <1> QED
    BY <1>4

LEMMA ContainedSingle == ASSUME NEW p \in PartRec PROVE Contained(<<p>>) = Held(p)
  BY DEF Contained

LEMMA ContainedFirst ==
  ASSUME NEW a \in Seq(PartRec), a # <<>>
  PROVE  Contained(a) = Held(Head(a)) \cup Contained(Tail(a))
  <1>1. Head(a) \in PartRec /\ Tail(a) \in Seq(PartRec) /\ a = <<Head(a)>> \o Tail(a)
    OBVIOUS
  <1>2. <<Head(a)>> \in Seq(PartRec)
    BY <1>1
  <1> QED
    BY <1>1, <1>2, ContainedConcat, ContainedSingle

(* The parts of a submission hold everything it should show. *)
LEMMA PartsHoldEverything ==
  ASSUME NEW s \in Submission, s.repost => s.links # <<>>, DetermineKind(s) # "empty"
  PROVE  Contained(Parts(s)) = Everything(s)
  <1> DEFINE videos == ToSet(s.videos)
             rest   == ToSet(Rest(s.links))
             firsts == {s.images[k] : k \in {n \in DOMAIN s.images : n <= GallerySize}}
  <1>1. Contained(Videos(s)) = videos
    <2>1. \A x : x \in Contained(Videos(s)) <=> \E i \in DOMAIN s.videos : x = s.videos[i]
      <3>1. /\ DOMAIN Videos(s) = DOMAIN s.videos
            /\ \A i \in DOMAIN s.videos : Held(Videos(s)[i]) = {s.videos[i]}
        BY GroupsHold, Zenon
      <3>2. \A x : x \in Contained(Videos(s)) <=> \E i \in DOMAIN s.videos : x \in Held(Videos(s)[i])
        BY <3>1, ContainedIn, Zenon
      <3> QED
        <4>1. \A x, y : x \in {y} <=> x = y
          OBVIOUS
        <4>2. \A x, i : i \in DOMAIN s.videos => (x \in Held(Videos(s)[i]) <=> x = s.videos[i])
          BY <3>1, <4>1, Zenon
        <4> QED
          BY <3>2, <4>2, Zenon
    <2> QED
      BY <2>1 DEF ToSet
  <1>2. Contained(Replies(s)) = rest
    <2>1. \A x : x \in Contained(Replies(s)) <=> \E i \in DOMAIN Rest(s.links) : x = s.links[i + 1]
      <3>1. /\ DOMAIN Replies(s) = DOMAIN Rest(s.links)
            /\ \A i \in DOMAIN Rest(s.links) : Held(Replies(s)[i]) = {s.links[i + 1]}
        BY GroupsHold, Zenon
      <3>2. \A x : x \in Contained(Replies(s)) <=> \E i \in DOMAIN Rest(s.links) : x \in Held(Replies(s)[i])
        BY <3>1, ContainedIn, Zenon
      <3> QED
        BY <3>1, <3>2
    <2>2. \A i \in DOMAIN Rest(s.links) : Rest(s.links)[i] = s.links[i + 1]
      BY GroupsHold, Zenon
    <2> QED
      BY <2>1, <2>2 DEF ToSet
  <1>3. Contained(Gallery(s)) = firsts
    <2>1. CASE s.images = <<>>
      <3>1. Gallery(s) = <<>>
        BY <2>1, GalleryHolds
      <3>2. DOMAIN s.images = {} /\ DOMAIN Gallery(s) = {}
        BY <2>1, <3>1
      <3> QED
        BY <3>2 DEF Contained
    <2>2. CASE s.images # <<>>
      <3>1. Gallery(s) # <<>> /\ Gallery(s) \in Seq(PartRec)
            /\ \A i \in DOMAIN Gallery(s) : Held(Gallery(s)[i]) = firsts
        BY <2>2, GalleryHolds
      <3>2. DOMAIN Gallery(s) # {}
        BY <3>1, EmptySeq
      <3> HIDE DEF firsts
      <3>3. \A x : x \in Contained(Gallery(s)) <=> x \in firsts
        BY <3>1, <3>2, ContainedIn
      <3> QED
        BY <3>3
    <2> QED
      BY <2>1, <2>2
  <1>4. /\ Videos(s) \in Seq(PartRec) /\ Gallery(s) \in Seq(PartRec) /\ Replies(s) \in Seq(PartRec)
        /\ Videos(s) \o Gallery(s) \in Seq(PartRec)
    BY GroupsHold, GalleryHolds
  <1>5. s.images \in Seq(File) /\ s.videos \in Seq(File) /\ s.links \in Seq(Link) /\ s.repost \in BOOLEAN
        /\ Primary(s) \in Link \cup {None}
    BY GroupsHold
  <1>6. CASE DetermineKind(s) = "record"
    <2> DEFINE p == Part("record", <<>>, Primary(s))
    <2>1. p \in PartRec /\ Held(p) = {Primary(s)}
      BY <1>5 DEF Part, PartRec, PartType, Held, ToSet
    <2>2. Parts(s) = <<p>> /\ s.repost
      BY <1>6 DEF Parts, DetermineKind
    <2> HIDE DEF p
    <2> QED
      BY <2>1, <2>2, ContainedSingle DEF Everything
  <1>7. CASE DetermineKind(s) = "video"
    <2>1. Parts(s) = (Videos(s) \o Gallery(s)) \o Replies(s)
      BY <1>4, <1>7 DEF Parts
    <2>2. s.videos # <<>> /\ ~s.repost
      BY <1>7 DEF DetermineKind
    <2>3. s.images \o s.videos # <<>>
      BY <1>5, <2>2
    <2>4. Contained(Parts(s)) = videos \cup firsts \cup rest
      <3>1. Contained(Videos(s) \o Gallery(s)) = Contained(Videos(s)) \cup Contained(Gallery(s))
        BY <1>4, ContainedConcat, Zenon
      <3>2. Contained(Parts(s)) = Contained(Videos(s) \o Gallery(s)) \cup Contained(Replies(s))
        BY <1>4, <2>1, ContainedConcat, Zenon
      <3> QED
        BY <1>1, <1>2, <1>3, <3>1, <3>2, Zenon
    <2>5. Everything(s) = videos \cup rest \cup firsts
      BY <2>2, <2>3 DEF Everything
    <2> HIDE DEF videos, firsts, rest
    <2> QED
      BY <2>4, <2>5
  <1>8. CASE DetermineKind(s) = "images"
    <2> DEFINE p == Part("images", s.images, Primary(s))
    <2>1. p \in PartRec /\ Held(p) = ToSet(s.images)
      BY <1>5 DEF Part, PartRec, PartType, Held
    <2>2. Parts(s) = <<p>> \o Replies(s)
      BY <1>8 DEF Parts
    <2>3. s.videos = <<>> /\ s.images # <<>> /\ ~s.repost
      BY <1>8 DEF DetermineKind
    <2>4. s.images \o s.videos # <<>> /\ videos = {}
      BY <1>5, <2>3 DEF ToSet
    <2>5. Everything(s) = ToSet(s.images) \cup rest
      BY <2>3, <2>4 DEF Everything, ToSet
    <2> HIDE DEF p, rest
    <2>6. <<p>> \in Seq(PartRec) /\ Contained(<<p>>) = ToSet(s.images)
      BY <2>1, ContainedSingle
    <2> QED
      BY <1>2, <1>4, <2>2, <2>5, <2>6, ContainedConcat
  <1>9. CASE DetermineKind(s) = "external"
    <2> DEFINE p == Part("card", <<>>, Primary(s))
    <2>1. p \in PartRec /\ Held(p) = {Primary(s)}
      BY <1>5 DEF Part, PartRec, PartType, Held, ToSet
    <2>2. Parts(s) = <<p>> \o Replies(s)
      BY <1>9 DEF Parts
    <2>3. s.videos = <<>> /\ s.images = <<>> /\ ~s.repost
      BY <1>9 DEF DetermineKind
    <2>4. s.images \o s.videos = <<>> /\ videos = {} /\ DOMAIN s.images = {}
      BY <1>5, <2>3 DEF ToSet
    <2>5. Everything(s) = {Primary(s)} \cup rest
      BY <2>3, <2>4 DEF Everything
    <2> HIDE DEF p, rest
    <2>6. <<p>> \in Seq(PartRec) /\ Contained(<<p>>) = {Primary(s)}
      BY <2>1, ContainedSingle
    <2> QED
      BY <1>2, <1>4, <2>2, <2>5, <2>6, ContainedConcat
  <1> QED
    BY <1>6, <1>7, <1>8, <1>9 DEF DetermineKind

(* The first upload of a part is its first file. *)
LEMMA ContinueWhole ==
  ASSUME NEW parts \in Seq(PartRec), Continue(parts), state \in Eligible,
         UNCHANGED sub, Everything(sub) = Displayed' \cup Contained(parts)
  PROVE  Whole'
  <1>1. CASE parts = <<>>
    <2>1. Contained(parts) = {} /\ pc' = "idle"
      BY <1>1 DEF Contained, Continue
    <2> QED
      BY <2>1 DEF Whole
  <1>2. CASE parts # <<>>
    <2>1. pc' = "post" /\ todo' = parts /\ blobs' = <<>> /\ pending' = Head(parts).media /\ state' = state
      BY <1>2 DEF Continue
    <2>2. ToSet(<<>>) = {}
      BY DEF ToSet
    <2>3. Everything(sub)' = Displayed' \cup Contained(todo')
      BY <2>1
    <2> QED
      BY <2>1, <2>2, <2>3 DEF Whole, Eligible
  <1> QED
    BY <1>1, <1>2

LEMMA LoginWhole == ASSUME IInv, Login PROVE Whole'
  <1>1. CASE DetermineKind(sub) = "empty"
    BY <1>1 DEF Login, Fail, Whole
  <1>2. CASE DetermineKind(sub) # "empty"
    <2>1. /\ sub \in Submission /\ (sub.repost => sub.links # <<>>)
          /\ IsInjective(sub.images \o sub.videos)
      BY PostingAssumption DEF IInv, Types
    <2>2. Parts(sub) \in Seq(PartRec) /\ Everything(sub) = Contained(Parts(sub))
      BY <1>2, <2>1, PartsApart, PartsHoldEverything
    <2>3. Continue(Parts(sub)) /\ UNCHANGED <<sub, posts, cut>> /\ pc = "login"
      BY <1>2 DEF Login
    <2>4. root = 0 /\ state \in Eligible
      BY <2>3 DEF IInv, Thread
    <2>5. Known = {} /\ Known' = Known
      BY <2>3, <2>4, NothingKnown DEF Known
    <2>6. Displayed' = {}
      BY <2>5 DEF Displayed
    <2> QED
      BY <2>2, <2>3, <2>4, <2>6, ContinueWhole
  <1> QED
    BY <1>1, <1>2

LEMMA UploadWhole == ASSUME IInv, Whole, Upload PROVE Whole'
  <1>1. pending \in Seq(File) /\ pending # <<>> /\ blobs \in Seq(File)
    BY DEF Upload, IInv, Types
  <1>2. ToSet(pending) = {Head(pending)} \cup ToSet(Tail(pending))
    <2>1. ASSUME NEW i \in DOMAIN pending, i # 1
          PROVE  i - 1 \in DOMAIN Tail(pending) /\ Tail(pending)[i - 1] = pending[i]
      <3>1. /\ i \in 1 .. Len(pending) /\ Len(pending) \in Nat
            /\ DOMAIN Tail(pending) = 1 .. Len(pending) - 1
            /\ \A j \in 1 .. Len(pending) - 1 : Tail(pending)[j] = pending[j + 1]
        BY <1>1
      <3>2. i - 1 \in 1 .. Len(pending) - 1 /\ (i - 1) + 1 = i
        BY <2>1, <3>1
      <3> QED
        BY <3>1, <3>2
    <2>2. 1 \in DOMAIN pending /\ Head(pending) = pending[1]
      BY <1>1
    <2>3. \A i \in DOMAIN Tail(pending) : i + 1 \in DOMAIN pending /\ Tail(pending)[i] = pending[i + 1]
      BY <1>1
    <2>4. ToSet(pending) = {pending[i] : i \in DOMAIN pending}
          /\ ToSet(Tail(pending)) = {Tail(pending)[i] : i \in DOMAIN Tail(pending)}
      BY DEF ToSet
    <2>5. ASSUME NEW x \in ToSet(pending) PROVE x = Head(pending) \/ x \in ToSet(Tail(pending))
      <3>1. PICK i \in DOMAIN pending : x = pending[i]
        BY <2>4
      <3>2. CASE i = 1
        BY <2>2, <3>1, <3>2
      <3>3. CASE i # 1
        BY <2>1, <2>4, <3>1, <3>3
      <3> QED
        BY <3>2, <3>3
    <2>6. Head(pending) \in ToSet(pending)
      BY <2>2, <2>4
    <2>7. ASSUME NEW x \in ToSet(Tail(pending)) PROVE x \in ToSet(pending)
      <3>1. PICK i \in DOMAIN Tail(pending) : x = Tail(pending)[i]
        BY <2>4
      <3> QED
        BY <2>3, <2>4, <3>1
    <2> QED
      BY <2>5, <2>6, <2>7
  <1>3. ToSet(Append(blobs, Head(pending))) = ToSet(blobs) \cup {Head(pending)}
    <2>1. Head(pending) \in File
      BY <1>1
    <2> QED
      BY <1>1, <2>1, AppendProperties DEF ToSet
  <1>4. ToSet(blobs') \cup ToSet(pending') = ToSet(blobs) \cup ToSet(pending)
    BY <1>2, <1>3 DEF Upload
  <1>5. UNCHANGED <<sub, state, pc, todo, posts, cut, mishap>>
    BY DEF Upload
  <1>6. Displayed' = Displayed
    BY <1>5 DEF Displayed, Known, Shown
  <1>7. Everything(sub)' = Everything(sub) /\ Contained(todo)' = Contained(todo)
    BY <1>5
  <1> QED
    BY <1>4, <1>5, <1>6, <1>7 DEF Whole

LEMMA CreatePostWhole == ASSUME IInv, Whole, CreatePost PROVE Whole'
  <1>1. CASE mishap
    BY <1>1 DEF CreatePost, Whole
  <1>2. CASE ~mishap
    <2> DEFINE p == NewPost(TRUE)
    <2>0. PICK new \in Nat : new = Len(posts) + 1
      <3>1. Len(posts) \in Nat
        BY DEF IInv, Types
      <3> QED
        BY <3>1
    <2>1. /\ pc = "post" /\ pending = <<>> /\ posts' = Append(posts, p) /\ Continue(Tail(todo))
          /\ UNCHANGED <<sub, mishap, cut>>
      BY DEF CreatePost
    <2>2. /\ Len(posts) \in Nat /\ DOMAIN posts = 1 .. Len(posts) /\ DOMAIN posts' = 1 .. new
          /\ \A i \in DOMAIN posts : posts'[i] = posts[i]
          /\ posts'[new] = p /\ p.first \notin cut
      BY <2>0, <2>1, NewPostTyped
    <2>3. /\ p.answered = TRUE /\ p.media = ToSet(blobs)
          /\ p.type = Head(todo).type /\ p.link = Head(todo).link
      BY DEF NewPost
    <2> HIDE DEF p
    <2>4. /\ todo \in Seq(PartRec) /\ todo # <<>> /\ Tail(todo) \in Seq(PartRec) /\ state \in Eligible
      BY <2>1 DEF IInv, Types, TypeOK, Thread
    <2>5. /\ ToSet(Head(todo).media) = ToSet(blobs)
          /\ Everything(sub) = Displayed \cup Contained(todo)
      <3>1. ToSet(pending) = {}
        BY <2>1 DEF ToSet
      <3> QED
        BY <1>2, <2>1, <3>1 DEF Whole
    <2>6. Known' = Known \cup {new} /\ \A i \in Known : posts'[i] = posts[i]
      <3>1. DOMAIN posts' = DOMAIN posts \cup {new}
        BY <2>0, <2>2
      <3>2. Known \subseteq DOMAIN posts
        BY DEF Known
      <3> QED
        BY <2>1, <2>2, <2>3, <3>1, <3>2 DEF Known
    <2>7. Shown(new)' = Held(Head(todo))
      BY <2>2, <2>3, <2>5 DEF Shown, Held
    <2>8. \A i \in Known : Shown(i)' = Shown(i)
      BY <2>6 DEF Shown
    <2>9. Displayed' = Displayed \cup Held(Head(todo))
      <3>1. Displayed' = UNION {Shown(i)' : i \in Known'}
        BY DEF Displayed
      <3>2. \A x : x \in Displayed' <=> \E i \in Known \cup {new} : x \in Shown(i)'
        BY <2>6, <3>1
      <3>3. \A x : x \in Displayed <=> \E i \in Known : x \in Shown(i)
        BY DEF Displayed
      <3>4. \A x : x \in Displayed' <=> x \in Displayed \/ x \in Held(Head(todo))
        BY <2>7, <2>8, <3>2, <3>3
      <3> QED
        BY <3>4
    <2>10. Everything(sub) = Displayed' \cup Contained(Tail(todo))
      BY <2>4, <2>5, <2>9, ContainedFirst
    <2> QED
      BY <2>1, <2>4, <2>10, ContinueWhole
  <1> QED
    BY <1>1, <1>2

LEMMA InitWhole == Init => Whole
  BY DEF Init, Whole

LEMMA NextWhole == IInv /\ Whole /\ [Next]_vars => Whole'
  <1> SUFFICES ASSUME IInv, Whole, [Next]_vars PROVE Whole'
    OBVIOUS
  <1>1. CASE Start
    BY <1>1 DEF Start, Whole, Eligible
  <1>2. CASE \E k \in FailureKind : LoginFails(k)
    <2>1. pc = "login" => state \in Eligible
      BY DEF IInv, Thread
    <2> QED
      BY <1>2, <2>1 DEF LoginFails, Fail, Whole, Eligible
  <1>3. CASE Login \/ Upload \/ CreatePost
    BY <1>3, LoginWhole, UploadWhole, CreatePostWhole
  <1>4. CASE GiveUpPart \/ CreateLost \/ \E k \in FailureKind : UploadFails(k) \/ CreateFails(k)
    <2>1. mishap' = TRUE
      BY <1>4 DEF GiveUpPart, CreateLost, UploadFails, CreateFails, FailPart, Fail
    <2> QED
      BY <2>1 DEF Whole
  <1>5. CASE Stop
    <2>1. pc' = "idle" /\ state' \in Eligible
      BY <1>5 DEF Stop, IInv, Thread
    <2> QED
      BY <2>1 DEF Whole, Eligible
  <1>6. CASE UNCHANGED vars
    <2>1. UNCHANGED <<sub, state, pc, todo, pending, blobs, posts, mishap, cut>>
      BY <1>6 DEF vars, conv, part
    <2>2. Displayed' = Displayed
      BY <2>1 DEF Displayed, Known, Shown
    <2>3. Everything(sub)' = Everything(sub) /\ Contained(todo)' = Contained(todo)
      BY <2>1
    <2> QED
      BY <2>1, <2>2, <2>3 DEF Whole
  <1> QED
    BY <1>1, <1>2, <1>3, <1>4, <1>5, <1>6 DEF Next, Requests

(* All posts that are known are of the attempt that was recorded. *)
LEMMA WholeIsComplete == IInv /\ Whole => Complete
  <1> SUFFICES ASSUME IInv, Whole, state = "published", ~mishap
               PROVE  Everything(sub) = UNION {Shown(i) : i \in {n \in Known : posts[n].first = root}}
    BY DEF Complete
  <1>1. {n \in Known : posts[n].first = root} = Known
    BY DEF IInv, Thread
  <1> QED
    BY <1>1 DEF Whole, Displayed

-----------------------------------------------------------------------------
(* The theorems.                                                           *)

\* The variables of an attempt have their types, whatever the submission and whatever
\* fails (publish_submission).
THEOREM SpecTypeOK == Spec => []TypeOK
  <1>1. IInv => TypeOK
    BY DEF IInv, Types
  <1> QED
    BY <1>1, AlwaysIInv, PTL

\* However often and wherever attempts fail, no file or link is in two posts that the bot
\* knows of (publish_submission's rule that the first post decides).
THEOREM SpecPostedOnce == Spec => []PostedOnce
  <1>1. IInv => PostedOnce
    BY DEF IInv
  <1> QED
    BY <1>1, AlwaysIInv, PTL

\* The posts of an attempt form one chain under its first post, across parts that fail
\* (the parent that _publish_reply_thread and the others hand on).
THEOREM SpecChained == Spec => []Chained
  <1>1. IInv => Chained
    BY DEF IInv
  <1> QED
    BY <1>1, AlwaysIInv, PTL

\* An attempt in which nothing went wrong has posted every file and link of the submission
\* (publish_submission: the videos, the images left over and the further links follow the
\* first post).
THEOREM SpecComplete == Spec => []Complete
  BY AlwaysIInv, InitWhole, NextWhole, WholeIsComplete, PTL DEF Spec
=============================================================================
