-------------------------- MODULE TransformGrammar --------------------------
(***************************************************************************)
(* Version 1 of the grammar of image transformations                       *)
(* (contracts/src/transforms.ts): which specifications are read, as which  *)
(* plan, and how a plan is spelled; and the format in which an answer is   *)
(* sent (derivatives/output-format.ts).                                    *)
(*                                                                         *)
(* A specification is what its operations say, a function from the names   *)
(* given to their values, with two remarks on its text: whether a name is  *)
(* repeated, and whether it is tidy, that is in the order of the grammar   *)
(* and without needless digits.  A plan has a value for every name.        *)
(***************************************************************************)
EXTENDS Naturals, Sequences

MAX_DIMENSION == 8192
MAX_OUTPUT_PIXELS == 40000000
DEFAULT_QUALITY == 80

Fits == {"cover", "contain", "fill", "inside", "outside"}
Gravities == {"center", "north", "northeast", "east", "southeast", "south", "southwest",
              "west", "northwest", "entropy", "attention"}
ImageOutputFormats == {"jpeg", "png", "webp", "avif"}
Formats == ImageOutputFormats \union {"source", "auto"}

Lengths == {"w", "h"}
OperationNames == Lengths \union {"fit", "g", "f", "q", "blur", "sharpen"}

\* The values that an operation may be given; decimals are in thousandths.
Permitted ==
    [w |-> 1 .. MAX_DIMENSION, h |-> 1 .. MAX_DIMENSION,
     fit |-> Fits, g |-> Gravities, f |-> Formats \ {"source"}, q |-> 1 .. 100,
     blur |-> 300 .. 100000, sharpen |-> 300 .. 10000]

\* 0 stands for undefined.
Default ==
    [w |-> 0, h |-> 0, fit |-> "cover", g |-> "center", f |-> "source", q |-> DEFAULT_QUALITY,
     blur |-> 0, sharpen |-> 0]

PlanOf(spec) ==
    [n \in OperationNames |-> IF n \in DOMAIN spec.given THEN spec.given[n] ELSE Default[n]]

Sized(plan) == plan["w"] # 0 /\ plan["h"] # 0

Readable(spec) ==
    LET plan == PlanOf(spec)
        given == DOMAIN spec.given
    IN  /\ given # {} /\ ~spec.repeated
        /\ given \subseteq OperationNames
        /\ \A n \in given : spec.given[n] \in Permitted[n]
        /\ {"fit", "g"} \intersect given # {} => Sized(plan)
        /\ "g" \in given => plan["fit"] = "cover"
        /\ "q" \in given => plan["f"] \notin {"source", "png"}
        /\ plan["w"] * plan["h"] <= MAX_OUTPUT_PIXELS

\* A mutant: the quality is spelled whatever it is.
SpellsQuality(plan, n) ==
    CASE n \in {"fit", "g"} -> Sized(plan) /\ plan[n] # Default[n]
      [] n = "q"            -> plan["f"] # "source"
      [] OTHER              -> plan[n] # Default[n]

\* Whether the canonical specification spells an operation.
Spelled(plan, n) ==
    CASE n \in {"fit", "g"} -> Sized(plan) /\ plan[n] # Default[n]
      [] n = "q"            -> plan["f"] # "source" /\ plan[n] # Default[n]
      [] OTHER              -> plan[n] # Default[n]

Canonical(plan) ==
    [given |-> [n \in {m \in OperationNames : Spelled(plan, m)} |-> plan[n]],
     tidy |-> TRUE, repeated |-> FALSE]

-----------------------------------------------------------------------------
(* The output format.  A header Accept is the sequence of its media ranges *)
(* that are well formed, with qualities in thousandths.                    *)

Accept(ranges) == [given |-> TRUE, ranges |-> ranges]
NoAccept == [given |-> FALSE, ranges |-> <<>>]

Specificity(range) == CASE range = "*/*" -> 0 [] range = "image/*" -> 1 [] OTHER -> 2

\* Of the ranges that match, the first of the most specific ones decides.
QualityFor(format, ranges) ==
    LET matching == {i \in DOMAIN ranges : ranges[i].range \in {format, "image/*", "*/*"}}
        precedes(i, j) == \/ Specificity(ranges[i].range) > Specificity(ranges[j].range)
                          \/ /\ Specificity(ranges[i].range) = Specificity(ranges[j].range)
                             /\ i <= j
    IN  IF matching = {} THEN 0
        ELSE ranges[CHOOSE i \in matching : \A j \in matching : precedes(i, j)].q

Preference(sourceFormat) ==
    [f \in ImageOutputFormats |->
       CASE f = "avif" -> 1
         [] f = "webp" -> 2
         [] f \in {"jpeg", "png"} /\ f = sourceFormat -> 3
         [] f = "jpeg" /\ f # sourceFormat -> 4
         [] OTHER -> 5]

\* "none": the answer is 406.
ResolveOutputFormat(requested, sourceFormat, accept) ==
    LET quality(f) == QualityFor(f, accept.ranges)
        rank == Preference(sourceFormat)
        better(f, g) == \/ quality(f) > quality(g)
                        \/ quality(f) = quality(g) /\ rank[f] <= rank[g]
        acceptable == {f \in ImageOutputFormats : quality(f) > 0}
    IN  CASE requested \in ImageOutputFormats -> requested
          [] requested = "source" -> sourceFormat
          [] requested = "auto" /\ ~accept.given -> IF sourceFormat = "none" THEN "webp" ELSE sourceFormat
          [] OTHER -> IF acceptable = {} THEN "none"
                      ELSE CHOOSE f \in acceptable : \A g \in acceptable : better(f, g)
=============================================================================
