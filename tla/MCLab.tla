-------------------------------- MODULE MCLab --------------------------------
(***************************************************************************)
(* A small instance of the lab for TLC: two files, two probes, three       *)
(* worlds, two tools and four catalogs of the host bridge.                 *)
(***************************************************************************)
EXTENDS Lab, TLC

CONSTANTS f1, f2, q1, q2, w1, w2, w3, found, other, absent, tool

\* Plain text, text and other bytes in which the literal of q1 occurs.
SmallBytes ==
  {[text |-> TRUE, has |-> {}], [text |-> TRUE, has |-> {q1}], [text |-> FALSE, has |-> {q1}]}

SmallPredicts ==
  (q1 :> (w1 :> found @@ w2 :> other @@ w3 :> absent))
    @@ (q2 :> (w1 :> found @@ w2 :> absent @@ w3 :> found))

Probing(kind, by, paths, anchored, says) ==
  [kind |-> kind, tool |-> by, paths |-> paths, anchored |-> anchored, says |-> says]

\* One answer wherever the literal is, or one for each file.
Alike == Probing("literal", LabReader, {f1, f2}, TRUE,
                 f1 :> found @@ f2 :> found @@ "empty" :> absent)
Apart == Probing("literal", tool, {f1, f2}, TRUE,
                 f1 :> found @@ f2 :> other @@ "empty" :> absent)
InOne(kind, anchored) ==
  Probing(kind, tool, {f2}, anchored, f2 :> found @@ "empty" :> absent)

SmallSourceCatalogs ==
  {(q1 :> Alike) @@ (q2 :> InOne("literal", TRUE)), (q1 :> Alike) @@ (q2 :> Alike)}

SmallCatalogs ==
  { (q1 :> Apart) @@ (q2 :> Probing("check", tool, {f1}, FALSE,
                                    "passed" :> found @@ "failed" :> absent)),
    (q1 :> [Apart EXCEPT !.tool = LabReader]) @@ (q2 :> Probing("read", tool, {f2}, TRUE, <<>>)),
    (q1 :> [Apart EXCEPT !.kind = "navigation"]) @@ (q2 :> InOne("diff", TRUE)),
    (q1 :> [Apart EXCEPT !.kind = "diff", !.anchored = FALSE])
      @@ (q2 :> InOne("navigation", FALSE)) }

SmallPolicies ==
  {[mode |-> "SOURCE_AND_SYMBOLIC", retired |-> {}], [mode |-> "SOURCE_ONLY", retired |-> {tool}]}

\* One premise, or one or else the two others.
SmallSupports == {{{x}} : x \in Name} \cup {{{x}, Name \ {x}} : x \in Name}

\* Two probes that split the worlds alike and one that tells them apart;
\* decisions that need evidence, or none.
SmallModels ==
  [weight : {<<1, 2, 1>>},
   table : {<< <<0, 0, 1>>, <<0, 0, 1>>, <<0, 1, 2>> >>, << <<0, 1, 1>>, <<0, 0, 1>>, <<0, 1, 0>> >>},
   cost : {<<0, 1, 1>>, <<1, 1, 0>>},
   loss : {<< <<3, 3, 3>>, <<0, 6, 6>>, <<6, 0, 0>> >>, << <<2, 3, 2>>, <<0, 2, 6>>, <<6, 0, 0>> >>},
   needs : {<<{}, {}, {}>>, <<{}, {<<1, 0>>}, {<<2, 1>>}>>, <<{}, {<<1, 0>>, <<2, 0>>}, {<<3, 1>>}>>}]

Symmetry == Permutations(Name)
=============================================================================
