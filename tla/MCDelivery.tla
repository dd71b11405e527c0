----------------------------- MODULE MCDelivery -----------------------------
(***************************************************************************)
(* What reaches the user later, for TLC: snoozed mail that comes back, and *)
(* changes that reach a client.  A behaviour is about one of the two; the  *)
(* other rests: no message is snoozed, or the client is up to date with an *)
(* empty account.                                                          *)
(***************************************************************************)
EXTENDS Snooze, Feed

VARIABLE part

MCCopies == 1 .. 5
MCOwner  == [c \in MCCopies |-> "m1"]
MCTo     == [m \in Msgs |-> {"other"}]
MCCc     == [m \in Msgs |-> {"other"}]
MCIds    == 1 .. 2
MCMaxFeedFaults == [k \in Kinds |-> IF k \in {"Mailbox", "Mute"} THEN 1 ELSE 0]

deliveryVars == <<part, vars, feedVars>>

SnoozeRest == at = [c \in Copies |-> IF c = 1 THEN [f |-> "INBOX", u |-> 1] ELSE Unborn] /\ Init
FeedRest ==
    /\ kind = "Email" /\ tab = [i \in Ids |-> Absent] /\ msg = [w |-> 0, n |-> 0]
    /\ tx = [w \in Writers |-> [pc |-> "idle"]] /\ clock = 0
    /\ cl = [pc |-> "idle", tok |-> NoTok, first |-> NoTok, goal |-> "get",
             has |-> [i \in Ids |-> 0], newer |-> FALSE]
    /\ sub = [s \in Streams |-> [pc |-> "off", slot |-> FALSE, first |-> NoTok,
                                 sent |-> NoTok, inbox |-> FALSE]]
    /\ blind = {} /\ torn = {} /\ feedFaults = 0

OfSnooze(A) == part = "snooze" /\ A /\ UNCHANGED <<part, feedVars>>
OfFeed(A)   == part = "feed" /\ A /\ UNCHANGED <<part, vars>>

MCInit ==
    \/ part = "snooze" /\ Init /\ FeedRest
    \/ part = "feed" /\ FeedInit /\ SnoozeRest

MCNext == OfSnooze(Next) \/ OfFeed(FeedNext)

(* The fairness of either component, of the part that moves.               *)
MCFairness == WF_deliveryVars(OfSnooze(SnoozeProgress) \/ OfFeed(Progress))

MCSpec == MCInit /\ [][MCNext]_deliveryVars /\ MCFairness
=============================================================================
