----------------------------- MODULE Conditions -----------------------------
(***************************************************************************)
(* Match conditions of HTTPProxies: how the conditions of a chain of        *)
(* includes and of a route are validated and merged (internal/dag/          *)
(* conditions.go), and how prefix routes with a rewrite are completed with  *)
(* their variant that ends in a slash (httpproxy_processor.go).             *)
(*                                                                         *)
(* A path is a sequence of segments with or without a slash at the end:     *)
(* "/" is no segment and a slash. A condition of the API has a prefix, that *)
(* need not be rooted, or a header condition, or neither.                   *)
(***************************************************************************)
EXTENDS Integers, Sequences, SequencesExt, FiniteSets

CONSTANT Nil (* a pointer or an optional field that is not set *)

Path(segs, slash) == [segs |-> segs, slash |-> slash]
RootPath == Path(<<>>, TRUE)

(* What a loop that skips some elements collects of a sequence. *)
Collect(seq, Test(_)) ==
  FoldLeft(LAMBDA kept, x : IF Test(x) THEN Append(kept, x) ELSE kept, <<>>, seq)

(* The conditions of the API, and the ones of the DAG. *)
PrefixCondition(path, rooted) == [prefix |-> path, rooted |-> rooted, header |-> Nil]
HeaderCondition(name, op, value) ==
  [prefix |-> Nil, rooted |-> TRUE, header |-> [name |-> name, op |-> op, value |-> value]]
PrefixMatch(path, type) == [kind |-> "prefix", path |-> path, type |-> type]
ExactMatch(path) == [kind |-> "exact", path |-> path, type |-> ""]
RegexMatch(path) == [kind |-> "regex", path |-> path, type |-> ""]

-----------------------------------------------------------------------------

(* Prefixes are concatenated, and runs of slashes become one. *)
MergePathMatchConditions(conds) ==
  LET paths == SelectSeq([i \in DOMAIN conds |-> conds[i].prefix], LAMBDA p : p # Nil)
      segs == FlattenSeq([i \in DOMAIN paths |-> paths[i].segs])
  IN  IF segs = <<>> THEN RootPath ELSE Path(segs, Last(paths).slash)

PathMatchConditionsValid(conds) ==
  LET given == {i \in DOMAIN conds : conds[i].prefix # Nil}
  IN  Cardinality(given) <= 1 /\ \A i \in given : conds[i].rooted

Lower(name) == IF name = "X" THEN "x" ELSE name

HeadersOf(conds) ==
  SelectSeq([i \in DOMAIN conds |-> conds[i].header], LAMBDA h : h # Nil)

Opposite(op) ==
  CASE op = "present" -> "notpresent" [] op = "notpresent" -> "present"
    [] op = "exact" -> "notexact" [] op = "notexact" -> "exact"
    [] op = "contains" -> "notcontains" [] op = "notcontains" -> "contains"
    [] OTHER -> "none"

(* Conditions without an operator match nothing and are dropped. *)
MergeHeaderMatchConditions(conds) ==
  LET used == SelectSeq(HeadersOf(conds), LAMBDA h : h.op # "none")
      Invert(op) == op \in {"notpresent", "notexact", "notcontains"}
  IN  [i \in DOMAIN used |->
        [name |-> used[i].name, value |-> used[i].value, invert |-> Invert(used[i].op),
         type |-> IF Invert(used[i].op) THEN Opposite(used[i].op) ELSE used[i].op]]

(* Each condition is compared with the ones before it: a second exact match *)
(* of a header is refused, and the opposite of an earlier condition.        *)
HeaderMatchConditionsValid(conds) ==
  LET hs == HeadersOf(conds)
      Contradicts(g, h) ==
        /\ Lower(g.name) = Lower(h.name)
        /\ \/ g.op = "exact" /\ h.op = "exact"
           \/ h.op # "none" /\ g.op = Opposite(h.op) /\ g.value = h.value
  IN  \A j \in DOMAIN hs : \A i \in 1..(j - 1) : ~Contradicts(hs[i], hs[j])

(* Only neighbouring includes are compared, and any pair of conditions.     *)
IncludeMatchConditionsIdentical(includes) ==
  \E i \in 2..Len(includes) :
    \E a \in Range(includes[i].conditions), b \in Range(includes[i - 1].conditions) :
      a.prefix = b.prefix /\ a.rooted = b.rooted /\ a.header = b.header

-----------------------------------------------------------------------------

(* strings.TrimRight of slashes; what remains of "/" is the empty string,   *)
(* for which no route is made: it stands for "/".                           *)
TrimSlash(path) == IF path.segs = <<>> THEN path ELSE Path(path.segs, FALSE)

ExpandPrefixMatchesUntrimmed(routes) ==
  LET Group(r) == {i \in DOMAIN routes : TrimSlash(routes[i].match.path) = TrimSlash(r.match.path)}
      Expands(r) ==
        /\ Cardinality(Group(r)) = 1
        /\ r.rewrite # Nil /\ r.match.path # RootPath
      Without(r) == [r EXCEPT !.match.path = TrimSlash(@)]
      With(r) == [r EXCEPT !.match.path = Path(@.segs, TRUE), !.rewrite = Path(@.segs, TRUE)]
      kept == [i \in DOMAIN routes |-> IF Expands(routes[i]) THEN Without(routes[i]) ELSE routes[i]]
      expanded == Collect(routes, Expands)
  IN  kept \o [i \in DOMAIN expanded |-> With(expanded[i])]

(* A route that is alone in matching its prefix, with and without slash,    *)
(* gets a second route for the prefix with a slash, and both rewrites are   *)
(* made to fit. The groups are visited in the order of a Go map: what is    *)
(* made of one group does not depend on the others.                         *)
ExpandPrefixMatches(routes) ==
  LET Group(r) == {i \in DOMAIN routes : TrimSlash(routes[i].match.path) = TrimSlash(r.match.path)}
      Expands(r) ==
        /\ Cardinality(Group(r)) = 1
        /\ r.rewrite # Nil /\ r.match.path # RootPath
      Without(r) == [r EXCEPT !.match.path = TrimSlash(@), !.rewrite = TrimSlash(@)]
      With(r) == [r EXCEPT !.match.path = Path(@.segs, TRUE), !.rewrite = Path(@.segs, TRUE)]
      kept == [i \in DOMAIN routes |-> IF Expands(routes[i]) THEN Without(routes[i]) ELSE routes[i]]
      expanded == Collect(routes, Expands)
  IN  kept \o [i \in DOMAIN expanded |-> With(expanded[i])]

(* The replacement for the routing prefix itself, or else the default one,  *)
(* the one for the empty prefix. A replacement that is empty is not set.    *)
PrefixRewrite(path, replacements) ==
  LET For(p) == SelectSeq(replacements, LAMBDA r : r.prefix = p)
  IN  IF For(path) # <<>> /\ Head(For(path)).replacement # Nil THEN Head(For(path)).replacement
      ELSE IF For(Nil) # <<>> THEN Head(For(Nil)).replacement ELSE Nil

PrefixReplacementsAreValid(replacements) ==
  \A i, j \in DOMAIN replacements :
    i # j => replacements[i].prefix # replacements[j].prefix
=============================================================================
