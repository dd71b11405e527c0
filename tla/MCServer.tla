------------------------------ MODULE MCServer ------------------------------
(***************************************************************************)
(* The HTTP side of the daemon, for TLC: who is let in, what the server    *)
(* does with a request, and a host's branding.  A behaviour is about one   *)
(* of them; the others rest in one of their initial states.                *)
(***************************************************************************)
EXTENDS Access, HttpServer, Branding

VARIABLE part

MCOptional == {"sieve", "prefs", "quota"}
MCNames    == {<<0, 0>>, <<3, 1>>, <<4, 4>>}   \* runes of a name, and of its first word
ServerSymmetry ==
  Permutations(Browsers) \cup Permutations(Clients) \cup Permutations(Procs) \cup Permutations(Users)

serverVars == <<part, accessVars, srv, brandVars>>

AccessRest == topic = "bucket" /\ dovecot = (CHOOSE p \in Passwords : TRUE) /\ AccessInit
HttpRest   == srv = [topic |-> "write", pc |-> "running", did |-> 0, rec |-> NoRecord, had |-> NoRecord,
                     metric |-> 0]
BrandRest  == hostEntry = {} /\ BrandInit

MCInit ==
  \/ part = "access"   /\ AccessInit /\ HttpRest /\ BrandRest
  \/ part = "http"     /\ HttpInit /\ AccessRest /\ BrandRest
  \/ part = "branding" /\ BrandInit /\ AccessRest /\ HttpRest

MCNext ==
  \/ part = "access"   /\ AccessNext /\ UNCHANGED <<part, srv, brandVars>>
  \/ part = "http"     /\ HttpNext /\ UNCHANGED <<part, accessVars, brandVars>>
  \/ part = "branding" /\ BrandNext /\ UNCHANGED <<part, accessVars, srv>>

MCSpec == MCInit /\ [][MCNext]_serverVars

\* What no step may do: cost a token its life that neither expired nor was
\* evicted in its order, or bring back a session that ended (token.go,
\* delegated.go).
ServerSteps == TokensKept /\ EndedStaysEnded
=============================================================================
