----------------------------- MODULE MCSettings -----------------------------
(***************************************************************************)
(* A user's settings for TLC: the preferences and identities the store     *)
(* holds, and the filters on the script server.  A behaviour is about one  *)
(* of the two; the other rests in one of its initial states.               *)
(***************************************************************************)
EXTENDS Prefs, SieveScripts, TLC

VARIABLE part

Map(S, v) == [n \in S |-> v]
Edit(f) == [op |-> "keep", edits |-> f]
MCPatches == {
    [undo |-> 5, opt |-> "a", other |-> 1],
    [opt |-> "bad", lang |-> "en"],
    [lang |-> "en", labels |-> Edit(Map({"n1"}, "red"))],
    [labels |-> [op |-> "whole", whole |-> Map({"n1", "n2"}, "blue"), edits |-> Map({"n1"}, "null")]],
    [labels |-> Edit(Map({"n2", "n3"}, "red")), folders |-> Edit(Map({"n1"}, "hide"))],
    [lang |-> "null", folders |-> [op |-> "null", edits |-> Map({"n2"}, "show")],
     depth |-> [op |-> "whole", whole |-> Map({"headers"}, 3), edits |-> Empty]],
    [sig |-> Edit([items |-> Map({"n1"}, "raw"), forNew |-> "n1"])],
    [sig |-> Edit([items |-> Map({"n2"}, "")])],
    [sig |-> [op |-> "null", edits |-> Empty], depth |-> [op |-> "null", edits |-> Map({"bodies"}, 3)]],
    [depth |-> Edit(Map({"headers"}, 9))]}
MCIdPatches == {[name |-> "a"], [sig |-> "raw"], [reply |-> "null", name |-> "b"], [email |-> "x"]}
Row(v, d) == [x |-> TRUE, ver |-> v, doc |-> d, at |-> 1]
MCStored == {NoRow, Row(1, [undo |-> 5]), Row(2, [labels |-> Map({"n1"}, "red")]), Row(4, [undo |-> 5])}

MCMaxSets == [edits |-> 3, addresses |-> 2, scripts |-> 4]

(* A behaviour moves one part only, so that both sets may be permuted      *)
(* together: fewer permutations, and the same states.                      *)
Actors == Setters \cup Handlers
SettingsSymmetry ==
    {p \in Permutations(Actors) :
        /\ \A S \in {Setters, Handlers} : {p[x] : x \in S} = S
        /\ (\A x \in Actors : p[x] = x) \/ (\A x \in Actors : p[x] # x)}

settingsVars == <<part, prefsVars, sieveVars>>

PrefsRest == object = "Prefs" /\ row = Row(4, [undo |-> 5]) /\ PrefsInit
SieveRest == topic = "edits" /\ SieveInit

MCInit ==
    \/ part = "prefs" /\ PrefsInit /\ SieveRest
    \/ part = "sieve" /\ SieveInit /\ PrefsRest

MCNext ==
    \/ part = "prefs" /\ PrefsNext /\ UNCHANGED <<part, sieveVars>>
    \/ part = "sieve" /\ SieveNext /\ UNCHANGED <<part, prefsVars>>

MCSpec == MCInit /\ [][MCNext]_settingsVars

\* What no step may do: write over a preferences document of a newer schema,
\* or change the managed script by a SieveScript/set (prefs.go, sieve_adapter.go).
SettingsSteps == NewerPrefsKept /\ ManagedOnlyByPush
=============================================================================
