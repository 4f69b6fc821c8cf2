---------------------------- MODULE ResolverCache ----------------------------
(***************************************************************************)
(* The compiler's cache of resolved constants (resolver_cache.rs): a map   *)
(* from type names to entry states, written once.  A HashMap with no entry *)
(* for a name is a total function whose value there is the state Absent.   *)
(* This module holds the values and the pure effect of each cache call;    *)
(* the machines that call it keep the cache in a variable.                 *)
(***************************************************************************)
EXTENDS Naturals, FiniteSets

CONSTANTS
  Names,   \* the type names of a compilation
  MaxInt   \* the largest i128

ASSUME NamesAssumption  == IsFiniteSet(Names)
ASSUME MaxIntAssumption == MaxInt \in Nat

(* What a value is matters only as far as an operator can tell: its        *)
(* family, and a number that stands for the numeric value of a number and  *)
(* for the length of a string.  "blob" is a byte string that is not UTF-8. *)
(* A float is finite, infinite or no number at all.                        *)
Number == [kind : {"int"}, val : 0..MaxInt] \cup [kind : {"float"}, val : Nat]
          \cup [kind : {"inf", "-inf", "nan"}, val : {0}]
Scalar == Number \cup [kind : {"text", "bytes", "blob"}, val : Nat]
RangeValue ==
  [kind : {"range_int", "range_float"}, exclusive : BOOLEAN,
   min : Number, max : Number]
Value  == Scalar \cup RangeValue

Infinity    == [kind |-> "inf", val |-> 0]
MinInfinity == [kind |-> "-inf", val |-> 0]
NaN         == [kind |-> "nan", val |-> 0]

(* Two states are compared as the derived PartialEq does, which compares   *)
(* floats: a state with a NaN in it is not equal to itself.                *)
HasNaN(s) == \/ s.kind = "nan"
             \/ s.kind \in {"range_int", "range_float"} /\ NaN \in {s.min, s.max}
SameState(s, t) == s = t /\ ~HasNaN(s)

Absent     == [kind |-> "absent"]
Unresolved == [kind |-> "unresolved"]
Pruned     == [kind |-> "pruned"]
State      == {Absent, Unresolved, Pruned} \cup Value

(* The origin of an entry is the definition that first resolved it.        *)
NoOrigin == 0
Entry    == [state : State, origin : Nat]
Cache    == [Names -> Entry]

EmptyCache == [n \in Names |-> [state |-> Absent, origin |-> NoOrigin]]

IsResolved(s) == s \in Value

(* `get` creates the entry it does not find.                               *)
Get(cache, n) ==
  IF cache[n].state = Absent
    THEN [cache EXCEPT ![n] = [state |-> Unresolved, origin |-> NoOrigin]]
    ELSE cache

CntUnresolved(cache) == Cardinality({n \in Names : cache[n].state = Unresolved})

(* The outcome of a write: it is accepted, it repeats the origin and the   *)
(* value the entry has (accepted too), or it is refused.                   *)
WriteResult(entry, v, origin) ==
  IF entry.state \in {Absent, Unresolved}  THEN "ok"
  ELSE IF entry.state = Pruned             THEN "pruned"
  ELSE IF ~SameState(entry.state, v)       THEN "conflicting"
  ELSE IF entry.origin = origin /\ origin # NoOrigin THEN "ok"
  ELSE "redundant"

(* Mutant: the last write wins.                                            *)
ResolveOverwriting(cache, n, v, origin) ==
  [cache EXCEPT ![n] = [state |-> v, origin |-> origin]]

(* `resolve_with_origin`: only an unresolved entry changes.                *)
ResolveWithOrigin(cache, n, v, origin) ==
  IF cache[n].state \in {Absent, Unresolved}
    THEN [cache EXCEPT ![n] = [state |-> v, origin |-> origin]]
    ELSE cache

(* `prune`: any state becomes Pruned.                                      *)
Prune(cache, n) == [cache EXCEPT ![n].state = Pruned]
==============================================================================
