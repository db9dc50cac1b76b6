------------------------------ MODULE RestNonce ------------------------------
(***************************************************************************)
(* The REST nonce of an open tab (assets/shared/restNonce.ts), which the   *)
(* editor and the admin application share: calls made with the nonce of    *)
(* the page, the one refresh they share when it has run out, the retry,    *)
(* and the keep-alive.  WordPress takes a nonce in the tick it was made in *)
(* and in the next one.                                                    *)
(***************************************************************************)
EXTENDS Naturals

CONSTANTS
    Tabs,    \* the calls a tab has open at the same time
    MaxTick  \* bound on the ticks of WordPress, twelve hours each

ASSUME RestNonceAssumption == MaxTick \in Nat

VARIABLES
    tick,      \* wp_nonce_tick()
    quiet,     \* there was a moment without a request since the last tick
    restNonce, \* config.restNonce, as the tick it was made in
    refresh,   \* inFlight: "none", "sent" or "minted", and the nonce
    call       \* what each call waits for, and the nonce it sent

nonceVars == <<tick, quiet, restNonce, refresh, call>>

NotOpen == [at |-> "done", nonce |-> 0]
NoRefresh == [at |-> "none", nonce |-> 0]

RestNonceInit ==
    /\ tick = 0 /\ quiet = TRUE
    /\ restNonce = 0
    /\ refresh = NoRefresh
    /\ call = [c \in Tabs |-> NotOpen]

Over == {"done", "refused", "gaveUp"}
Accepts(nonce) == tick - nonce <= 1

\* Nothing is under way in the next state.
Quietly ==
    quiet' = (quiet \/ (refresh'.at = "none" /\ \A c \in Tabs : call'[c].at \in Over))

\* Twelve hours pass; requests do not take that long.
Ticks ==
    /\ tick < MaxTick /\ quiet /\ tick' = tick + 1
    /\ quiet' = (refresh.at = "none" /\ \A c \in Tabs : call[c].at \in Over)
    /\ UNCHANGED <<restNonce, refresh, call>>

\* fetchWithNonce() with the nonce of the page
Fetches(c) ==
    /\ call[c].at \in Over
    /\ call' = [call EXCEPT ![c] = [at |-> "sent", nonce |-> restNonce]]
    /\ UNCHANGED <<tick, restNonce, refresh>> /\ Quietly

\* The server looks at the nonce of a first or second attempt.
ServerChecks(c) ==
    /\ call[c].at \in {"sent", "resent"}
    /\ call' = [call EXCEPT ![c] =
          IF Accepts(@.nonce) THEN NotOpen
          ELSE [at |-> IF @.at = "sent" THEN "rejected" ELSE "refused", nonce |-> @.nonce]]
    /\ UNCHANGED <<tick, restNonce, refresh>> /\ Quietly

\* refresh(), which joins one that is in flight.
Refresh == refresh' = IF refresh.at = "none" THEN [refresh EXCEPT !.at = "sent"] ELSE refresh

\* Faulty: takes what the page has for fresh.
RejectedReuses(c) ==
    /\ call[c].at = "rejected"
    /\ call' = [call EXCEPT ![c] = [at |-> "resent", nonce |-> restNonce]]
    /\ UNCHANGED <<tick, restNonce, refresh>> /\ Quietly

\* The 403 arrives: another call may have refreshed the nonce already.
Rejected(c) ==
    /\ call[c].at = "rejected"
    /\ IF restNonce # call[c].nonce
       THEN /\ call' = [call EXCEPT ![c] = [at |-> "resent", nonce |-> restNonce]]
            /\ UNCHANGED refresh
       ELSE /\ call' = [call EXCEPT ![c].at = "waits"]
            /\ Refresh
    /\ UNCHANGED <<tick, restNonce>> /\ Quietly

\* startKeepAlive(): every ten hours, unless the laptop sleeps, and when the
\* tab is looked at again.
KeepsAlive ==
    /\ refresh.at = "none" /\ Refresh
    /\ UNCHANGED <<tick, restNonce, call>> /\ Quietly

\* admin-ajax.php?action=rest-nonce
Mints ==
    /\ refresh.at = "sent" /\ refresh' = [at |-> "minted", nonce |-> tick]
    /\ UNCHANGED <<tick, restNonce, call>> /\ Quietly

\* Whoever awaits the refresh goes on at once.
WaitersGet(outcome) ==
    call' = [c \in Tabs |-> IF call[c].at = "waits" THEN outcome ELSE call[c]]

Refreshed ==
    /\ refresh.at = "minted" /\ refresh' = NoRefresh
    /\ restNonce' = refresh.nonce
    /\ WaitersGet([at |-> "resent", nonce |-> refresh.nonce])
    /\ UNCHANGED tick /\ Quietly

\* Logged out, or the network failed: the calls keep their first answer.
RefreshFails ==
    /\ refresh.at # "none" /\ refresh' = NoRefresh
    /\ WaitersGet([at |-> "gaveUp", nonce |-> 0])
    /\ UNCHANGED <<tick, restNonce>> /\ Quietly

RestNonceNext ==
    \/ Ticks \/ KeepsAlive \/ Mints \/ Refreshed \/ RefreshFails
    \/ \E c \in Tabs : Fetches(c) \/ ServerChecks(c) \/ Rejected(c)

RestNonceSpec == RestNonceInit /\ [][RestNonceNext]_nonceVars

-----------------------------------------------------------------------------
RestNonceTypeOK ==
    /\ tick \in 0..MaxTick /\ quiet \in BOOLEAN /\ restNonce \in 0..MaxTick
    /\ refresh \in [at : {"none", "sent", "minted"}, nonce : 0..MaxTick]
    /\ call \in [Tabs -> [at : Over \cup {"sent", "rejected", "waits", "resent"},
                          nonce : 0..MaxTick]]

\* No call is refused after its retry: the nonce it was retried with, from the
\* refresh of another call, of the keep-alive or of its own, is always one the
\* server still takes.
NoNeedlessRefusal == \A c \in Tabs : call[c].at # "refused"
=============================================================================
