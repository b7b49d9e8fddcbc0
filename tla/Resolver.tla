------------------------------ MODULE Resolver ------------------------------
(***************************************************************************)
(* The computations behind a launch plan: the version requirement of       *)
(* psroot-shell-resolver (version.rs), the outcome of Resolver::resolve    *)
(* (resolve.rs, probe.rs), and the glob matcher that decides which files   *)
(* of a shell psroot-rootfs-stager leaves out.  A version is the sequence  *)
(* of its numbers, a text the sequence of its characters, case folded.     *)
(***************************************************************************)
EXTENDS Naturals, Sequences, SequencesExt, FiniteSetsExt

CONSTANTS Numbers,   \* the numbers in versions, for the checks
          Letters,   \* the letters in names, for the checks
          MaxLength  \* how long patterns and names get in the checks

ASSUME ResolverAssumption == Numbers \subseteq Nat /\ MaxLength \in Nat

-----------------------------------------------------------------------------
(* Versions.                                                               *)

\* Mutant: the last number stands for the missing ones.
PartShort(v, i) == v[IF i > Len(v) THEN Len(v) ELSE i]

\* A number the version does not have is zero.
Part(v, i) == IF i \in DOMAIN v THEN v[i] ELSE 0

\* cmp_versions: the first number that differs decides; -1, 0 or 1 as 0, 1, 2.
cmp_versions(a, b) ==
    LET differ == {i \in 1..Max({Len(a), Len(b)}) : Part(a, i) # Part(b, i)}
        first == Min(differ)
    IN IF differ = {} THEN 1 ELSE IF Part(a, first) < Part(b, first) THEN 0 ELSE 2

Less(a, b) == cmp_versions(a, b) = 0

\* The version above the band of ~: the second number, or the only one, plus one.
upper(target) ==
    IF Len(target) >= 2 THEN <<target[1], target[2] + 1>> ELSE <<target[1] + 1>>

matches(req, v) ==
    LET t == req.target
    IN CASE req.op = "=" -> cmp_versions(v, t) = 1 \/ IsPrefix(t, v)
         [] req.op = ">=" -> ~Less(v, t)
         [] req.op = ">" -> Less(t, v)
         [] req.op = "<=" -> ~Less(t, v)
         [] req.op = "<" -> Less(v, t)
         [] req.op = "~" -> Len(v) >= Len(t) /\ ~Less(v, t) /\ Less(v, upper(t))

-----------------------------------------------------------------------------
(* resolve: the probe chain finds an installation or none; the version must *)
(* satisfy the request and the minimum of the catalog.                      *)

Unversioned == <<0, 0, 0, 0>>

\* read_exe_version gives four zeros when the executable has no version.
read_exe_version(version, readable) == IF readable THEN version ELSE Unversioned

resolve(req, min, installed, version) ==
    CASE ~installed -> "not installed"
      [] installed /\ \E r \in req : ~matches(r, version) -> "version mismatch"
      [] installed /\ (\A r \in req : matches(r, version))
           /\ ~matches([op |-> ">=", target |-> min], version) -> "version mismatch"
      [] OTHER -> "plan"

-----------------------------------------------------------------------------
(* glob_match_inner: one pass over the text that remembers the last star,   *)
(* what follows it in the pattern and how much of the text it took.         *)

\* Mutant: after a mismatch the star skips a character.
RetrySkips(star) == <<star[1], star[2] + 2>>

Retry(star) == <<star[1], star[2] + 1>>

SkipStars(p, i) == Min({j \in i..(Len(p) + 1) : j > Len(p) \/ p[j] # "*"})

RECURSIVE Scan(_, _, _, _, _)
Scan(p, t, pi, ti, star) ==
    IF ti > Len(t) THEN SkipStars(p, pi) > Len(p)
    ELSE IF pi <= Len(p) /\ p[pi] \in {"?", t[ti]} THEN Scan(p, t, pi + 1, ti + 1, star)
    ELSE IF pi <= Len(p) /\ p[pi] = "*"
         THEN LET next == SkipStars(p, pi)
              IN next > Len(p) \/ Scan(p, t, next, ti, <<next, ti>>)
    ELSE IF star # <<>>
         THEN LET again == Retry(star) IN Scan(p, t, again[1], again[2], again)
    ELSE FALSE

glob_match(p, t) == Scan(p, t, 1, 1, <<>>)

-----------------------------------------------------------------------------
(* What the computations are compared with.                                *)

RECURSIVE Glob(_, _)
Glob(p, t) ==
    IF p = <<>> THEN t = <<>>
    ELSE IF p[1] = "*" THEN \E i \in 0..Len(t) : Glob(Tail(p), SubSeq(t, i + 1, Len(t)))
    ELSE t # <<>> /\ p[1] \in {"?", t[1]} /\ Glob(Tail(p), Tail(t))

Upto(S, n) == UNION {[1..k -> S] : k \in 0..n}

MatcherIsGlob ==
    \A p \in Upto(Letters \cup {"*", "?"}, MaxLength), t \in Upto(Letters, MaxLength) :
        glob_match(p, t) <=> Glob(p, t)

Versions3 == Upto(Numbers, 3) \ {<<>>}

OrderAndOperators ==
    \A a, b \in Versions3 :
        /\ cmp_versions(a, b) + cmp_versions(b, a) = 2
        /\ \A c \in Versions3 : Less(a, b) /\ ~Less(c, b) => Less(a, c)
        /\ matches([op |-> ">=", target |-> b], a) <=> ~matches([op |-> "<", target |-> b], a)
        /\ Len(b) >= Len(a) /\ matches([op |-> "=", target |-> b], a)
              => matches([op |-> "<=", target |-> b], a) /\ matches([op |-> ">=", target |-> b], a)
        /\ Len(a) >= Len(b) =>
              (matches([op |-> "~", target |-> b], a)
                <=> /\ SubSeq(a, 1, Min({2, Len(b)})) = SubSeq(b, 1, Min({2, Len(b)}))
                    /\ ~Less(a, b))
=============================================================================
