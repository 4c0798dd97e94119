----------------------------- MODULE MCPosting ------------------------------
(***************************************************************************)
(* Instances of Posting for TLC: submissions of up to three images, two    *)
(* videos and three links, with every way the files can be on disk.        *)
(***************************************************************************)
EXTENDS Posting

CONSTANTS i1, i2, i3, v1, v2, l1, l2, l3

Sub(is, vs, ls, r) ==
    {[images |-> is, videos |-> vs, links |-> ls, repost |-> r, disk |-> d] :
         d \in {d \in [File -> {"there", "none", "bad"}] :
                    \A f \in File \ (ToSet(is) \cup ToSet(vs)) : d[f] = "there"}}

Kinds ==
    Sub(<<>>, <<>>, <<>>, FALSE) \cup Sub(<<i1>>, <<>>, <<l1, l2>>, TRUE)
    \cup Sub(<<>>, <<>>, <<l1, l2, l3>>, FALSE)
    \cup Sub(<<>>, <<v1>>, <<l1, l2, l1>>, FALSE)
    \cup Sub(<<i1, i2, i3>>, <<>>, <<>>, FALSE) \cup Sub(<<i1, i2>>, <<>>, <<l1, l2, l3>>, FALSE)
    \cup Sub(<<>>, <<v1, v2>>, <<l1>>, FALSE)
    \cup Sub(<<i1, i2, i3>>, <<v1>>, <<l1, l2>>, FALSE)
    \cup Sub(<<i1, i2>>, <<v1, v2>>, <<l1, l2>>, FALSE)
=============================================================================
