--------------------------- MODULE BudgetGateway ---------------------------
(***************************************************************************)
(* The gateway between a Codex child process and its provider              *)
(* (cli/codex_budget_authority.rs), the journal it keeps on disk           *)
(* (cli/codex_usage_journal.rs), and the launcher that starts both and     *)
(* records what became of the attempt (cli/cli_node_executor.rs).          *)
(*                                                                         *)
(* One thread serves one request after another.  A request is reserved in  *)
(* the journal at its worst case, posted, and then committed with what the *)
(* provider reports, or charged at its worst case when nobody knows.  Any  *)
(* write of the journal may fail and the process may die at any step.      *)
(* Tokens are counted in units.  Expiry, session, path, model and limit    *)
(* checks are the one refusal before the call.                             *)
(***************************************************************************)
EXTENDS Integers, FiniteSetsExt

CONSTANTS
    MaxRequests,    \* max_provider_requests
    MaxRetries,     \* max_retries: posts after the first
    MaxTokens,      \* max_cumulative_tokens
    MaxInput,       \* max_input_tokens_per_request
    MaxOutput,      \* max_output_tokens_per_request
    Bodies,         \* input tokens the child's requests are reserved with
    MaxStarts,      \* bound: gateways started on one journal
    MaxRefused,     \* bound: refused requests
    MaxLost         \* bound: failing writes of the journal

ASSUME GatewayAssumption ==
    /\ MaxRequests \in Nat \ {0} /\ MaxRetries \in Nat /\ MaxTokens \in Nat
    /\ MaxInput \in Nat /\ MaxOutput \in Nat \ {0} /\ Bodies \subseteq Nat \ {0}
    /\ MaxStarts \in Nat /\ MaxRefused \in Nat /\ MaxLost \in Nat

VARIABLES
    host,           \* who starts the gateway: the launcher, or a caller that starts it again
    route,          \* upstream authentication; a subscription takes no output limit
    ledger,         \* the journal file
    entry,          \* CodexUsageJournal.entry, the journal in memory
    gateway,        \* where the accept loop is
    counted,        \* the counters in memory: provider_requests, cumulative tokens
    refusal,        \* class of last_reject
    child,          \* the Codex process
    outcome,        \* status of the attempt's row
    reported,       \* its terminal receipt: tokens, and the session log they were compared with
    upstream,       \* external: posts, tokens billed, tokens billed for the post under way
    unsure,         \* some post ended with an unknown effect
    tally           \* what the bounds bound: starts, refused requests, failed writes

gvars == <<host, route, ledger, entry, gateway, counted, refusal, child, outcome, reported,
           upstream, unsure, tally>>

NoLedger == [state |-> "none", requests |-> 0, used |-> 0, input |-> 0, output |-> 0]
Idling   == [NoLedger EXCEPT !.state = "idle"]

\* The post is no longer under way.
Answered == [upstream EXCEPT !.input = 0, !.output = 0]

Halted(e) == e.state = "persistence_failed"

GatewayInit ==
    /\ host \in {"launcher", "harness"}
    /\ route \in {"api_key", "subscription"}
    /\ ledger = NoLedger /\ entry = NoLedger
    /\ gateway = "down"
    /\ counted = [requests |-> 0, used |-> 0]
    /\ refusal = "none"
    /\ child = "none"
    /\ outcome = "admitted" /\ reported = [tokens |-> 0, session |-> "absent"]
    /\ upstream = [posts |-> 0, billed |-> 0, input |-> 0, output |-> 0]
    /\ unsure = FALSE
    /\ tally = [starts |-> 0, refused |-> 0, lost |-> 0]

Outside == <<host, route, child, outcome, reported>>

-----------------------------------------------------------------------------
(* The journal. *)

\* persist: a write that fails leaves the old file, halts the journal and is
\* followed by a second try that may succeed.
Persist(e, ok) ==
    IF ok THEN ledger' = e /\ entry' = e /\ UNCHANGED tally
    ELSE /\ tally.lost < MaxLost
         /\ tally' = [tally EXCEPT !.lost = @ + 1]
         /\ entry' = [e EXCEPT !.state = "persistence_failed"]
         /\ ledger' \in {ledger, entry'}

\* A request is over: its charge replaces its reservation.
Freed(e, state, charge) == [e EXCEPT !.state = state, !.used = @ + charge, !.input = 0, !.output = 0]

\* Mutant: a resumed journal gives the reservation back.
ResumedFree(e) ==
    CASE e.state = "none" -> Idling
      [] e.state \in {"in_flight", "outcome_unknown"} -> Freed(e, "idle", 0)
      [] OTHER -> e

\* create_new, resume_exact_attempt.
Resumed(e) ==
    CASE e.state = "none" -> Idling
      [] e.state \in {"in_flight", "outcome_unknown"} -> Freed(e, "outcome_unknown", e.input + e.output)
      [] OTHER -> e

-----------------------------------------------------------------------------
(* Start and end of the gateway. *)

\* Only the launcher's attempt lease is used up by its one start.
GatewayStart ==
    LET e == Resumed(ledger)
    IN  /\ gateway = "down" /\ outcome = "admitted" /\ child = "none"
        /\ tally.starts < IF host = "launcher" THEN 1 ELSE MaxStarts
        /\ ledger' = e /\ entry' = e
        /\ counted' = [requests |-> e.requests, used |-> e.used]
        /\ refusal' = "none"
        /\ gateway' = "serving"
        /\ child' = IF host = "launcher" THEN "none" ELSE "running"
        /\ tally' = [tally EXCEPT !.starts = @ + 1]
        /\ UNCHANGED <<host, route, outcome, reported, upstream, unsure>>

\* The journal cannot be written; the launcher ends its attempt.
GatewayStartFails ==
    /\ gateway = "down" /\ outcome = "admitted" /\ child = "none"
    /\ tally.starts < IF host = "launcher" THEN 1 ELSE MaxStarts
    /\ Resumed(ledger) # ledger
    /\ tally.lost < MaxLost
    /\ tally' = [tally EXCEPT !.starts = @ + 1, !.lost = @ + 1]
    /\ outcome' = IF host = "launcher" THEN "failed" ELSE outcome
    /\ UNCHANGED <<host, route, ledger, entry, gateway, counted, refusal, child, reported,
                   upstream, unsure>>

\* Home, plan, attestation, preflight, confirmation, revalidation, in this order.
SpawnChild ==
    /\ host = "launcher" /\ gateway = "serving" /\ child = "none"
    /\ child' = "running"
    /\ UNCHANGED <<host, route, ledger, entry, gateway, counted, refusal, outcome, reported,
                   upstream, unsure, tally>>

\* One of them fails: failed_after_pre_child_managed_codex_cleanup.
PreChildFails ==
    /\ host = "launcher" /\ gateway = "serving" /\ child = "none"
    /\ gateway' = "down"
    /\ ledger' = NoLedger
    /\ outcome' = "failed"
    /\ UNCHANGED <<host, route, entry, counted, refusal, child, reported, upstream, unsure, tally>>

\* Exit with success and a completed turn, exit with success and output that reports
\* a failure or cannot be read, exit with an error, or no exit status: timeout,
\* failed wait, too much output.
ChildEnds(how) ==
    /\ child = "running" /\ gateway # "down"
    /\ child' = how
    /\ UNCHANGED <<host, route, ledger, entry, gateway, counted, refusal, outcome, reported,
                   upstream, unsure, tally>>

OutcomeUnknown == Halted(entry) \/ refusal = "outcome_unknown"

\* What the session log of the child says beside the gateway's counters: nothing
\* because there is none, the same tokens, other tokens, or no tokens.
Sessions == {"absent", "same", "other"} \cup IF counted.used > 0 THEN {"empty"} ELSE {}

\* reconcile_gateway_and_session_usage.
Reconciliation(s) ==
    CASE counted.requests = 0 /\ s = "absent" -> "missing"
      [] counted.requests = 0 /\ s # "absent" -> "session_only"
      [] counted.requests > 0 /\ s \in {"absent", "same"} -> "gateway"
      [] OTHER -> "conflict"

\* The launcher's result and its managed_codex_terminal_state.  A log with other
\* tokens is an evidence conflict, looked at before the reconciliation is.
Terminal(s) ==
    LET asked == child = "failed" \/ s = "other" \/ Reconciliation(s) = "gateway"
    IN  CASE child # "boundary" /\ asked /\ OutcomeUnknown -> "outcome_unknown"
          [] child = "succeeded" /\ Reconciliation(s) = "gateway" /\ ~ OutcomeUnknown -> "succeeded"
          [] OTHER -> "failed"

\* shutdown, which joins the thread, then the journal's removal and the receipt.
Finish(s) ==
    /\ host = "launcher" /\ gateway \in {"serving", "stopped"}
    /\ child \in {"succeeded", "garbled", "failed", "boundary"}
    /\ s \in Sessions
    /\ gateway' = "down"
    /\ ledger' = IF OutcomeUnknown \/ Reconciliation(s) \in {"conflict", "missing"}
                 THEN ledger ELSE NoLedger
    /\ outcome' = Terminal(s)
    /\ reported' = [tokens |-> counted.used, session |-> s]
    /\ UNCHANGED <<host, route, entry, counted, refusal, child, upstream, unsure, tally>>

\* What is in memory is gone.
Vanish ==
    /\ gateway' = "down" /\ child' = "none"
    /\ entry' = NoLedger /\ counted' = [requests |-> 0, used |-> 0] /\ refusal' = "none"

\* Callers other than the launcher leave the journal where it is.
ShutDown ==
    /\ host = "harness" /\ gateway \in {"serving", "stopped"}
    /\ Vanish
    /\ UNCHANGED <<host, route, ledger, outcome, reported, upstream, unsure, tally>>

\* The process dies, and the child with it.
GatewayDies ==
    /\ gateway # "down"
    /\ Vanish
    /\ unsure' = (unsure \/ gateway = "posted")
    /\ upstream' = Answered
    /\ UNCHANGED <<host, route, ledger, outcome, reported, tally>>

-----------------------------------------------------------------------------
(* One request: dispatch_request. *)

Ask(class) ==
    /\ gateway = "serving" /\ child = "running" /\ tally.refused < MaxRefused
    /\ refusal' = class
    /\ tally' = [tally EXCEPT !.refused = @ + 1]
    /\ UNCHANGED <<Outside, ledger, entry, gateway, counted, upstream, unsure>>

\* A request that cannot be read, any request once the journal is halted, and
\* an admissible one while the outcome of the last is open.
RefuseUnknown == Ask("outcome_unknown")

\* Expired, unbound, malformed, or not within the limits.
RefuseBeforeCall == ~ Halted(entry) /\ Ask("pre_call")

\* The checks under budget_lock.
WithinLimits(r) ==
    /\ r <= MaxInput
    /\ counted.requests < MaxRequests
    /\ counted.requests >= 1 => counted.requests - 1 < MaxRetries
    /\ r + MaxOutput <= MaxTokens - counted.used

\* Mutant: an open outcome does not stand in the way of the next request.
AdmitsAll(e) == ~ Halted(e)

\* admits_new_request.
Admits(e) == ~ Halted(e) /\ e.state \notin {"in_flight", "outcome_unknown"}

\* The durable reservation comes before the call; without it the gateway stops.
Reserve(r, ok) ==
    /\ gateway = "serving" /\ child = "running"
    /\ Admits(entry) /\ WithinLimits(r)
    /\ LET e == [entry EXCEPT !.state = "in_flight", !.requests = @ + 1, !.input = r, !.output = MaxOutput]
       IN  IF ok THEN /\ Persist(e, TRUE)
                      /\ gateway' = "forwarding"
                      /\ counted' = [counted EXCEPT !.requests = @ + 1]
                      /\ UNCHANGED refusal
           ELSE /\ Persist(e, FALSE)
                /\ gateway' = "stopped"
                /\ refusal' = "outcome_unknown"
                /\ UNCHANGED counted
    /\ UNCHANGED <<Outside, upstream, unsure>>

\* External: the provider receives the request and bills it.  It reads no more
\* input than the body has bytes and, told so, writes no more than the limit.
Excess == IF route = "subscription" THEN 1 ELSE 0

PostUpstream(i, o) ==
    /\ gateway = "forwarding"
    /\ i <= entry.input /\ o <= MaxOutput + Excess
    /\ gateway' = "posted"
    /\ upstream' = [posts |-> upstream.posts + 1, billed |-> upstream.billed + i + o,
                    input |-> i, output |-> o]
    /\ UNCHANGED <<Outside, ledger, entry, counted, refusal, unsure, tally>>

\* mark_outcome_unknown_with_usage; the counters follow only a durable charge.
Charge(i, o, ok) ==
    LET charge == Max({entry.input, i}) + Max({entry.output, o})
    IN  /\ Persist(Freed(entry, "outcome_unknown", charge), ok)
        /\ counted' = IF ok THEN [counted EXCEPT !.used = @ + charge] ELSE counted
        /\ unsure' = TRUE

\* No answer, or one without usage.
Lost(ok) ==
    /\ gateway \in {"forwarding", "posted"}
    /\ Charge(entry.input, entry.output, ok)
    /\ gateway' = "serving"
    /\ refusal' = "outcome_unknown"
    /\ upstream' = Answered
    /\ UNCHANGED <<Outside>>

Exceeds(i, o) == o > entry.output \/ entry.used + i + o > MaxTokens

\* An answer beyond its reservation is charged as observed and not passed on.
AnswerExceeds(ok) ==
    /\ gateway = "posted"
    /\ Exceeds(upstream.input, upstream.output)
    /\ Charge(upstream.input, upstream.output, ok)
    /\ gateway' = "stopped"
    /\ refusal' = "outcome_unknown"
    /\ upstream' = Answered
    /\ UNCHANGED <<Outside>>

\* commit_after_forward, first write.
Commit(ok) ==
    LET use == upstream.input + upstream.output
    IN  /\ gateway = "posted"
        /\ ~ Exceeds(upstream.input, upstream.output)
        /\ counted' = [counted EXCEPT !.used = @ + use]
        /\ Persist(Freed(entry, "committed", use), ok)
        /\ gateway' = IF ok THEN "committed" ELSE "stopped"
        /\ refusal' = IF ok THEN refusal ELSE "outcome_unknown"
        /\ upstream' = Answered
        /\ UNCHANGED <<Outside, unsure>>

\* Its second write, and the answer to the child, which may be gone.
Answer(ok) ==
    /\ gateway = "committed"
    /\ Persist([entry EXCEPT !.state = "idle"], ok)
    /\ gateway' = IF ok THEN "serving" ELSE "stopped"
    /\ refusal' \in IF ok THEN {refusal, "outcome_unknown"} ELSE {"outcome_unknown"}
    /\ UNCHANGED <<Outside, counted, upstream, unsure>>

-----------------------------------------------------------------------------
GatewayNext ==
    \/ GatewayStart \/ GatewayStartFails \/ SpawnChild \/ PreChildFails
    \/ \E how \in {"succeeded", "garbled", "failed", "boundary"} : ChildEnds(how)
    \/ \E s \in Sessions : Finish(s)
    \/ ShutDown \/ GatewayDies
    \/ RefuseUnknown \/ RefuseBeforeCall
    \/ \E ok \in BOOLEAN :
          \/ \E r \in Bodies : Reserve(r, ok)
          \/ Lost(ok) \/ AnswerExceeds(ok) \/ Commit(ok) \/ Answer(ok)
    \/ \E i \in 0 .. MaxInput, o \in 0 .. MaxOutput + 1 : PostUpstream(i, o)

GatewaySpec == GatewayInit /\ [][GatewayNext]_gvars

-----------------------------------------------------------------------------
(* Properties. *)

LedgerStates == {"none", "idle", "in_flight", "committed", "outcome_unknown", "persistence_failed"}

\* Journal, gateway and attempt are well formed; a reservation is kept exactly
\* while its request is open or the journal has failed.
GatewayTypeOK ==
    /\ \A e \in {ledger, entry} :
          /\ e.state \in LedgerStates
          /\ e.requests \in Nat /\ e.used \in Nat
          /\ e.state \in {"none", "idle", "committed", "outcome_unknown"} => e.input + e.output = 0
    /\ gateway \in {"down", "serving", "forwarding", "posted", "committed", "stopped"}
    /\ refusal \in {"none", "pre_call", "outcome_unknown"}
    /\ child \in {"none", "running", "succeeded", "garbled", "failed", "boundary"}
    /\ outcome \in {"admitted", "succeeded", "failed", "outcome_unknown"}

\* "New gateway with same attempt must not restore budget freely": whatever
\* writes fail and wherever the process dies, the provider receives no more
\* requests than allowed and bills no more than the cumulative limit; a
\* subscription, which takes no output limit, can exceed it by the excess of a
\* single response.
BudgetIsKept ==
    /\ upstream.posts <= MaxRequests /\ upstream.posts <= MaxRetries + 1
    /\ upstream.billed <= MaxTokens + Excess

\* The journal on disk accounts for everything that was posted: what a gateway
\* started on it takes for used or reserved covers the provider's bill.
LedgerCoversBill ==
    ledger.state # "none" =>
        /\ upstream.posts <= ledger.requests
        /\ route = "api_key" => upstream.billed <= ledger.used + ledger.input + ledger.output

\* "in-flight or outcome-unknown ... no new request admitted": after a post with
\* an unknown effect nothing is posted any more, by this gateway or a later one.
UnknownBlocks == [][unsure => upstream'.posts = upstream.posts]_gvars

\* The receipt of a successful attempt reports at least what was billed.
ReceiptCoversBill ==
    outcome = "succeeded" /\ route = "api_key" => upstream.billed <= reported.tokens

\* "the attempt terminal state must preserve that uncertainty": an attempt with an
\* unknown effect is recorded as such, except when the child ended without an exit
\* status, when a later request was refused before the call, or when the child
\* exited well but its session log counts no tokens.
UnknownIsKept ==
    unsure /\ outcome \in {"succeeded", "failed"} =>
        \/ child = "boundary"
        \/ refusal = "pre_call"
        \/ child # "failed" /\ outcome = "failed" /\ reported.session = "empty"

\* Money: across failing writes, restarts and lost answers the budget holds, and
\* neither the journal nor the receipt says less than the provider bills.
GatewayIsSound ==
    /\ GatewayTypeOK /\ BudgetIsKept /\ LedgerCoversBill
    /\ ReceiptCoversBill /\ UnknownIsKept
=============================================================================
