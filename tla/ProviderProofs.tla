--------------------------- MODULE ProviderProofs ---------------------------
(***************************************************************************)
(* Proofs about the calls to providers: the budget gateway of one attempt  *)
(* (BudgetGateway) and the delegated attempt whose stages are executed by  *)
(* workers that lose their leases (DelegatedAttempt).                      *)
(***************************************************************************)
EXTENDS BudgetGateway, DelegatedAttempt, TLAPS

-----------------------------------------------------------------------------
(* What the properties of the gateway rest on. *)

Led(state, requests, used, input, output) ==
    [state |-> state, requests |-> requests, used |-> used, input |-> input, output |-> output]

Ledgers == [state : LedgerStates, requests : Nat, used : Nat, input : Nat, output : Nat]

Settled == {"none", "idle", "committed", "outcome_unknown"}

GatewayTypes ==
    /\ host \in {"launcher", "harness"} /\ route \in {"api_key", "subscription"}
    /\ ledger \in Ledgers /\ entry \in Ledgers
    /\ ledger.state = "none" => ledger = NoLedger
    /\ ledger.state \in Settled => ledger.input = 0 /\ ledger.output = 0
    /\ entry.state \in Settled => entry.input = 0 /\ entry.output = 0
    /\ gateway \in {"down", "serving", "forwarding", "posted", "committed", "stopped"}
    /\ counted \in [requests : Nat, used : Nat]
    /\ refusal \in {"none", "pre_call", "outcome_unknown"}
    /\ child \in {"none", "running", "succeeded", "garbled", "failed", "boundary"}
    /\ outcome \in {"admitted", "succeeded", "failed", "outcome_unknown"}
    /\ upstream \in [posts : Nat, billed : Nat, input : Nat, output : Nat]
    /\ unsure \in BOOLEAN
    /\ tally \in [starts : Nat, refused : Nat, lost : Nat]

\* The journal on disk covers what was posted and billed, all of it exactly when
\* it would let a gateway go on; a missing journal is that of an attempt that has
\* not begun, or is over.
LedgerInv ==
    /\ ledger.state # "none" =>
          /\ upstream.posts <= ledger.requests
          /\ ledger.requests <= MaxRequests /\ ledger.requests <= MaxRetries + 1
          /\ upstream.billed <= ledger.used + ledger.input + ledger.output + Excess
    /\ ledger.state \in {"idle", "committed"} => upstream.billed <= ledger.used /\ ~ unsure
    /\ ledger.state = "none" /\ outcome = "admitted" =>
          gateway = "down" /\ upstream.posts = 0 /\ upstream.billed = 0 /\ ~ unsure

\* The state the journal is in at each place of the accept loop.
StatesAt(g) ==
    CASE g \in {"forwarding", "posted"} -> {"in_flight"}
      [] g = "committed" -> {"committed"}
      [] OTHER -> {"idle", "committed", "outcome_unknown"}

\* In memory is what is on disk, until a write fails.
EntryInv ==
    gateway # "down" =>
        /\ ledger.state # "none"
        /\ \/ entry.state = "persistence_failed" /\ gateway \in {"serving", "stopped"}
           \/ /\ entry = ledger /\ entry.state \in StatesAt(gateway)
              /\ counted.requests = entry.requests /\ counted.used = entry.used

\* A request that is under way is within its reservation, which is within the budget.
FlightInv ==
    /\ gateway \in {"forwarding", "posted"} =>
          /\ entry.output = MaxOutput /\ entry.used + entry.input + entry.output <= MaxTokens
          /\ ~ unsure
    /\ gateway = "forwarding" => upstream.posts < entry.requests /\ upstream.billed <= entry.used
    /\ gateway = "posted" =>
          /\ upstream.billed <= entry.used + upstream.input + upstream.output
          /\ upstream.input <= entry.input /\ upstream.output <= MaxOutput + Excess

\* The launcher starts one gateway, which has met no unknown effect before its child
\* runs and notes the last one it meets.
HostInv ==
    /\ outcome # "admitted" => gateway = "down"
    /\ tally.starts = 0 => ~ unsure /\ gateway = "down"
    /\ gateway \in {"forwarding", "posted", "committed"} => child # "none" /\ counted.requests > 0
    /\ host = "launcher" /\ gateway # "down" /\ unsure =>
          child # "none" /\ refusal # "none" /\ counted.requests > 0

GatewayInv ==
    /\ GatewayTypes /\ LedgerInv /\ EntryInv /\ FlightInv /\ HostInv
    /\ BudgetIsKept /\ ReceiptCoversBill /\ UnknownIsKept

-----------------------------------------------------------------------------
(* The writes of the journal, field by field. *)

\* The larger of two amounts.
LEMMA MaxOfTwo ==
    ASSUME NEW a \in Nat, NEW b \in Nat
    PROVE  Max({a, b}) \in {a, b} /\ Max({a, b}) >= a /\ Max({a, b}) >= b
  <1>1. \E x \in {a, b} : \A y \in {a, b} : x >= y
    BY DEF Max
  <1> QED
    BY <1>1 DEF Max

\* A record of such fields is a journal.
LEMMA LedType ==
    ASSUME NEW s \in LedgerStates, NEW rq \in Nat, NEW us \in Nat, NEW i \in Nat, NEW o \in Nat
    PROVE  Led(s, rq, us, i, o) \in Ledgers
  BY DEF Led, Ledgers

\* A request is over: Freed.
LEMMA FreedFields ==
    ASSUME NEW e \in Ledgers, NEW s, NEW ch, NEW q, q = Freed(e, s, ch)
    PROVE  q = Led(s, e.requests, e.used + ch, 0, 0)
  BY Zenon DEF Freed, Led, Ledgers

\* begin_request: the reservation.
LEMMA ReserveFields ==
    ASSUME NEW e \in Ledgers, NEW r, NEW m, NEW q,
           q = [e EXCEPT !.state = "in_flight", !.requests = @ + 1, !.input = r, !.output = m]
    PROVE  q = Led("in_flight", e.requests + 1, e.used, r, m)
  BY Zenon DEF Led, Ledgers

\* A change of the state alone.
LEMMA StateFields ==
    ASSUME NEW e \in Ledgers, NEW s, NEW q, q = [e EXCEPT !.state = s]
    PROVE  q = Led(s, e.requests, e.used, e.input, e.output)
  BY Zenon DEF Led, Ledgers

\* persist: written, or halted in memory with the file as it was or as it should be.
LEMMA PersistFields ==
    ASSUME NEW e \in Ledgers, NEW ok \in BOOLEAN, Persist(e, ok), tally \in [starts : Nat, refused : Nat, lost : Nat]
    PROVE  /\ ok => ledger' = e /\ entry' = e
           /\ ~ ok => /\ entry' = Led("persistence_failed", e.requests, e.used, e.input, e.output)
                      /\ ledger' \in {ledger, entry'}
           /\ tally' \in [starts : Nat, refused : Nat, lost : Nat] /\ tally'.starts = tally.starts
  <1>1. CASE ok
    BY <1>1 DEF Persist
  <1>2. CASE ~ ok
    BY <1>2, StateFields DEF Persist
  <1> QED
    BY <1>1, <1>2

-----------------------------------------------------------------------------
(* One action after the other keeps the invariant. *)

\* The first states.
LEMMA GatewayStarts == GatewayInit => GatewayInv
  <1> SUFFICES ASSUME GatewayInit PROVE GatewayInv
    OBVIOUS
  <1> USE GatewayAssumption DEF GatewayInit, NoLedger
  <1>1. GatewayTypes
    <2>1. ledger \in Ledgers /\ entry \in Ledgers
      BY DEF Ledgers, LedgerStates
    <2>2. unsure \in BOOLEAN
      OBVIOUS
    <2> QED
      BY <2>1, <2>2 DEF GatewayTypes
  <1>2. LedgerInv /\ EntryInv /\ FlightInv /\ HostInv
    BY DEF LedgerInv, EntryInv, FlightInv, HostInv
  <1>3. BudgetIsKept /\ ReceiptCoversBill /\ UnknownIsKept
    BY DEF BudgetIsKept, ReceiptCoversBill, UnknownIsKept, Excess
  <1> QED
    BY <1>1, <1>2, <1>3 DEF GatewayInv

\* What a gateway starts with: everything that was reserved is used.
LEMMA ResumedFields ==
    ASSUME GatewayInv, NEW e, e = Resumed(ledger)
    PROVE  /\ e \in Ledgers /\ e.requests = ledger.requests
           /\ e.state \in {"idle", "committed", "outcome_unknown", "persistence_failed"}
           /\ e.state \in Settled => e.input = 0 /\ e.output = 0
           /\ e.used + e.input + e.output = ledger.used + ledger.input + ledger.output
           /\ e.state \in {"idle", "committed"} =>
                 /\ ledger.state \in {"none", "idle", "committed"}
                 /\ ledger.state = "none" => e = Led("idle", 0, 0, 0, 0)
                 /\ ledger.state # "none" => e = ledger
  <1>1. /\ ledger \in Ledgers /\ ledger.state \in LedgerStates /\ ledger.requests \in Nat
        /\ ledger.used \in Nat /\ ledger.input \in Nat /\ ledger.output \in Nat
        /\ ledger.state \in Settled => ledger.input = 0 /\ ledger.output = 0
        /\ ledger.state = "none" => ledger = NoLedger
    BY DEF GatewayInv, GatewayTypes, Ledgers
  <1>2. CASE ledger.state = "none"
    <2>1. e = Led("idle", 0, 0, 0, 0)
      BY <1>2 DEF Resumed, Idling, NoLedger, Led
    <2>2. e \in Ledgers
      BY <2>1, LedType DEF LedgerStates
    <2> QED
      BY <1>1, <1>2, <2>1, <2>2 DEF Led, Settled, NoLedger
  <1>3. CASE ledger.state \in {"in_flight", "outcome_unknown"}
    <2>1. e = Led("outcome_unknown", ledger.requests, ledger.used + (ledger.input + ledger.output), 0, 0)
      BY <1>1, <1>3, FreedFields DEF Resumed
    <2>2. e \in Ledgers
      BY <1>1, <2>1, LedType DEF LedgerStates
    <2> QED
      BY <1>1, <2>1, <2>2 DEF Led
  <1>4. CASE ledger.state \in {"idle", "committed", "persistence_failed"}
    BY <1>1, <1>4 DEF Resumed
  <1> QED
    BY <1>1, <1>2, <1>3, <1>4 DEF LedgerStates

\* The amounts are numbers.
LEMMA GatewayAmounts ==
    ASSUME GatewayInv
    PROVE  /\ ledger.requests \in Nat /\ ledger.used \in Nat /\ ledger.input \in Nat /\ ledger.output \in Nat
           /\ entry.requests \in Nat /\ entry.used \in Nat /\ entry.input \in Nat /\ entry.output \in Nat
           /\ counted.requests \in Nat /\ counted.used \in Nat
           /\ upstream.posts \in Nat /\ upstream.billed \in Nat
           /\ upstream.input \in Nat /\ upstream.output \in Nat
           /\ tally.starts \in Nat /\ Excess \in 0 .. 1
           /\ ledger.state \in LedgerStates /\ entry.state \in LedgerStates
  BY DEF GatewayInv, GatewayTypes, Ledgers, Excess

\* create_new and resume_exact_attempt.
LEMMA GatewayStartKeeps ==
    ASSUME GatewayInv, GatewayStart
    PROVE  GatewayInv'
  <1> DEFINE e == Resumed(ledger)
  <1>1. /\ e \in Ledgers /\ e.requests = ledger.requests
        /\ e.state \in {"idle", "committed", "outcome_unknown", "persistence_failed"}
        /\ e.state \in Settled => e.input = 0 /\ e.output = 0
        /\ e.used + e.input + e.output = ledger.used + ledger.input + ledger.output
        /\ e.state \in {"idle", "committed"} =>
              /\ ledger.state \in {"none", "idle", "committed"}
              /\ ledger.state = "none" => e = Led("idle", 0, 0, 0, 0)
              /\ ledger.state # "none" => e = ledger
    BY ResumedFields
  <1> HIDE DEF e
  <1>2. /\ ledger' = e /\ entry' = e /\ counted' = [requests |-> e.requests, used |-> e.used]
        /\ refusal' = "none" /\ gateway' = "serving" /\ child' \in {"none", "running"}
        /\ tally' = [tally EXCEPT !.starts = @ + 1]
        /\ gateway = "down" /\ outcome = "admitted"
        /\ host = "launcher" => tally.starts < 1
        /\ UNCHANGED <<host, route, outcome, reported, upstream, unsure>>
    BY DEF GatewayStart, e
  <1>3. /\ e.requests \in Nat /\ e.used \in Nat /\ e.input \in Nat /\ e.output \in Nat
        /\ e.state \in LedgerStates
    BY <1>1 DEF Ledgers
  <1>4. tally' \in [starts : Nat, refused : Nat, lost : Nat] /\ tally'.starts > 0
    BY <1>2 DEF GatewayInv, GatewayTypes
  <1>5. GatewayTypes'
    BY <1>1, <1>2, <1>3, <1>4 DEF GatewayInv, GatewayTypes, LedgerStates
  <1>6. LedgerInv'
    <2>1. CASE ledger.state = "none"
      <3>1. /\ ledger = NoLedger /\ upstream.posts = 0 /\ upstream.billed = 0 /\ ~ unsure
        BY <1>2, <2>1 DEF GatewayInv, LedgerInv, GatewayTypes
      <3>2. e = Led("idle", 0, 0, 0, 0)
        BY <2>1 DEF e, Resumed, Idling, NoLedger, Led
      <3> QED
        BY <1>2, <3>1, <3>2, GatewayAmounts, GatewayAssumption DEF LedgerInv, Led, Excess
    <2>2. CASE ledger.state # "none"
      BY <1>1, <1>2, <1>3, <2>2, GatewayAmounts DEF GatewayInv, LedgerInv, Excess
    <2> QED
      BY <2>1, <2>2
  <1>7. EntryInv' /\ FlightInv'
    BY <1>1, <1>2, <1>3 DEF EntryInv, FlightInv, StatesAt
  <1>8. HostInv'
    BY <1>2, <1>4, GatewayAmounts DEF GatewayInv, HostInv
  <1>9. BudgetIsKept' /\ ReceiptCoversBill' /\ UnknownIsKept'
    BY <1>2 DEF GatewayInv, BudgetIsKept, ReceiptCoversBill, UnknownIsKept, Excess
  <1> QED
    BY <1>5, <1>6, <1>7, <1>8, <1>9 DEF GatewayInv

\* The journal cannot be created; the launcher's attempt fails before it began.
LEMMA GatewayStartFailsKeeps ==
    ASSUME GatewayInv, GatewayStartFails
    PROVE  GatewayInv'
  <1>1. /\ tally' = [tally EXCEPT !.starts = @ + 1, !.lost = @ + 1]
        /\ outcome' = IF host = "launcher" THEN "failed" ELSE outcome
        /\ gateway = "down" /\ outcome = "admitted"
        /\ host = "launcher" => tally.starts < 1
        /\ UNCHANGED <<host, route, ledger, entry, gateway, counted, refusal, child, reported,
                       upstream, unsure>>
    BY DEF GatewayStartFails
  <1>2. tally' \in [starts : Nat, refused : Nat, lost : Nat]
    <2>1. tally \in [starts : Nat, refused : Nat, lost : Nat]
      BY DEF GatewayInv, GatewayTypes
    <2>2. ASSUME NEW q, q = [tally EXCEPT !.starts = @ + 1, !.lost = @ + 1]
          PROVE  q = [starts |-> tally.starts + 1, refused |-> tally.refused, lost |-> tally.lost + 1]
      BY <2>1, <2>2, Zenon
    <2>3. tally' = [starts |-> tally.starts + 1, refused |-> tally.refused, lost |-> tally.lost + 1]
      BY <1>1, <2>2
    <2> QED
      BY <2>1, <2>3
  <1>3. host = "launcher" => ~ unsure
    BY <1>1, GatewayAmounts DEF GatewayInv, HostInv
  <1>4. GatewayTypes'
    BY <1>1, <1>2 DEF GatewayInv, GatewayTypes
  <1>5. LedgerInv' /\ EntryInv' /\ FlightInv'
    BY <1>1 DEF GatewayInv, LedgerInv, EntryInv, FlightInv, Excess
  <1>6. HostInv'
    BY <1>1, <1>2, GatewayAmounts DEF GatewayInv, HostInv
  <1>7. BudgetIsKept' /\ ReceiptCoversBill' /\ UnknownIsKept'
    BY <1>1, <1>3 DEF GatewayInv, BudgetIsKept, ReceiptCoversBill, UnknownIsKept, Excess
  <1> QED
    BY <1>4, <1>5, <1>6, <1>7 DEF GatewayInv

\* The child starts and ends; a request is refused.
LEMMA ChildKeeps ==
    ASSUME GatewayInv,
           SpawnChild \/ (\E how \in {"succeeded", "garbled", "failed", "boundary"} : ChildEnds(how))
             \/ RefuseUnknown \/ RefuseBeforeCall
    PROVE  GatewayInv'
  <1>1. /\ UNCHANGED <<host, route, ledger, entry, gateway, counted, outcome, reported, upstream, unsure>>
        /\ gateway # "down"
        /\ child' \in {"running", "succeeded", "garbled", "failed", "boundary"}
    BY DEF SpawnChild, ChildEnds, RefuseUnknown, RefuseBeforeCall, Ask, Outside
  <1>2. /\ refusal' \in {"pre_call", "outcome_unknown"} \/ refusal' = refusal
        /\ tally' \in [starts : Nat, refused : Nat, lost : Nat] /\ tally'.starts = tally.starts
    BY DEF SpawnChild, ChildEnds, RefuseUnknown, RefuseBeforeCall, Ask, GatewayInv, GatewayTypes
  <1>3. outcome = "admitted"
    BY <1>1 DEF GatewayInv, HostInv, GatewayTypes
  <1>4. GatewayTypes'
    BY <1>1, <1>2 DEF GatewayInv, GatewayTypes
  <1>5. LedgerInv' /\ EntryInv' /\ FlightInv'
    BY <1>1 DEF GatewayInv, LedgerInv, EntryInv, FlightInv, Excess
  <1>6. HostInv'
    BY <1>1, <1>2 DEF GatewayInv, HostInv
  <1>7. BudgetIsKept' /\ ReceiptCoversBill' /\ UnknownIsKept'
    BY <1>1, <1>3 DEF GatewayInv, BudgetIsKept, ReceiptCoversBill, UnknownIsKept, Excess
  <1> QED
    BY <1>4, <1>5, <1>6, <1>7 DEF GatewayInv

\* The launcher gives up before its child, or ends the attempt.
LEMMA FinishKeeps ==
    ASSUME GatewayInv, PreChildFails \/ (\E s \in Sessions : Finish(s))
    PROVE  GatewayInv'
  <1>1. /\ gateway' = "down" /\ gateway \in {"serving", "stopped"} /\ host = "launcher"
        /\ ledger' \in {ledger, NoLedger}
        /\ outcome' \in {"failed", "succeeded", "outcome_unknown"}
        /\ UNCHANGED <<host, route, entry, counted, refusal, child, upstream, unsure, tally>>
    BY DEF PreChildFails, Finish, Terminal
  <1>2. NoLedger \in Ledgers
    BY DEF NoLedger, Ledgers, LedgerStates
  <1>3. GatewayTypes'
    BY <1>1, <1>2 DEF GatewayInv, GatewayTypes, NoLedger
  <1>4. LedgerInv'
    <2>1. CASE ledger' = ledger
      BY <1>1, <2>1 DEF GatewayInv, LedgerInv, Excess
    <2>2. CASE ledger' = NoLedger
      BY <1>1, <2>2 DEF GatewayInv, LedgerInv, NoLedger
    <2> QED
      BY <1>1, <2>1, <2>2
  <1>5. EntryInv' /\ FlightInv' /\ HostInv'
    BY <1>1 DEF GatewayInv, EntryInv, FlightInv, HostInv
  <1>6. BudgetIsKept'
    BY <1>1 DEF GatewayInv, BudgetIsKept, Excess
  <1>7. CASE PreChildFails
    <2>1. ~ unsure /\ outcome' = "failed"
      BY <1>1, <1>7 DEF PreChildFails, GatewayInv, HostInv
    <2> QED
      BY <1>1, <1>3, <1>4, <1>5, <1>6, <2>1 DEF GatewayInv, ReceiptCoversBill, UnknownIsKept
  <1>8. ASSUME NEW s \in Sessions, Finish(s)
        PROVE  ReceiptCoversBill' /\ UnknownIsKept'
    <2>1. /\ outcome' = Terminal(s) /\ reported' = [tokens |-> counted.used, session |-> s]
          /\ reported'.tokens = counted.used /\ reported'.session = s
          /\ child \in {"succeeded", "garbled", "failed", "boundary"}
      BY <1>8 DEF Finish
    <2>2. ASSUME outcome' = "succeeded", route = "api_key"
          PROVE  upstream.billed <= counted.used
      <3>1. ~ Halted(entry)
        BY <2>1, <2>2 DEF Terminal, OutcomeUnknown
      <3>2. /\ entry = ledger /\ entry.state \in {"idle", "committed", "outcome_unknown"}
            /\ counted.used = entry.used
        BY <1>1, <3>1 DEF Halted, GatewayInv, EntryInv, StatesAt
      <3>3. ledger.input = 0 /\ ledger.output = 0 /\ ledger.state # "none"
        BY <3>2 DEF GatewayInv, GatewayTypes, Settled
      <3> QED
        BY <2>2, <3>2, <3>3, GatewayAmounts DEF GatewayInv, LedgerInv, Excess
    <2>3. ASSUME unsure, refusal # "pre_call"
          PROVE  OutcomeUnknown
      BY <1>1, <2>3 DEF OutcomeUnknown, GatewayInv, HostInv, GatewayTypes
    <2>4. UnknownIsKept'
      <3> SUFFICES ASSUME unsure', outcome' \in {"succeeded", "failed"}, child' # "boundary",
                          refusal' # "pre_call"
                   PROVE  child' # "failed" /\ outcome' = "failed" /\ reported'.session = "empty"
        BY DEF UnknownIsKept
      <3>1. OutcomeUnknown /\ child # "boundary" /\ unsure
        BY <1>1, <2>3
      <3>2. counted.requests > 0
        BY <1>1, <3>1 DEF GatewayInv, HostInv
      <3>3. child # "failed" /\ s # "other" /\ Reconciliation(s) # "gateway" /\ outcome' = "failed"
        BY <1>1, <2>1, <3>1 DEF Terminal
      <3>4. s \notin {"absent", "same"}
        BY <3>2, <3>3 DEF Reconciliation
      <3>5. s = "empty"
        BY <3>3, <3>4 DEF Sessions
      <3> QED
        BY <1>1, <2>1, <3>3, <3>5
    <2> QED
      BY <1>1, <2>1, <2>2, <2>4 DEF ReceiptCoversBill
  <1> QED
    BY <1>3, <1>4, <1>5, <1>6, <1>7, <1>8 DEF GatewayInv

\* shutdown, or a crash: the journal on disk is what is left.
LEMMA VanishKeeps ==
    ASSUME GatewayInv, ShutDown \/ GatewayDies
    PROVE  GatewayInv'
  <1>1. /\ Vanish /\ gateway # "down"
        /\ UNCHANGED <<host, route, ledger, outcome, reported, tally>>
        /\ upstream' = upstream \/ upstream' = Answered
        /\ unsure' = unsure \/ (unsure' = TRUE /\ gateway = "posted")
    <2>1. unsure \in BOOLEAN
      BY DEF GatewayInv, GatewayTypes
    <2>2. CASE ShutDown
      BY <2>2 DEF ShutDown
    <2>3. CASE GatewayDies /\ gateway = "posted"
      BY <2>3 DEF GatewayDies
    <2>4. CASE GatewayDies /\ gateway # "posted"
      BY <2>1, <2>4 DEF GatewayDies
    <2> QED
      BY <2>2, <2>3, <2>4
  <1>2. /\ gateway' = "down" /\ child' = "none" /\ entry' = NoLedger
        /\ counted' = [requests |-> 0, used |-> 0] /\ refusal' = "none"
    BY <1>1 DEF Vanish
  <1>3. upstream' \in [posts : Nat, billed : Nat, input : Nat, output : Nat]
        /\ upstream'.posts = upstream.posts /\ upstream'.billed = upstream.billed
    <2>1. upstream \in [posts : Nat, billed : Nat, input : Nat, output : Nat]
      BY DEF GatewayInv, GatewayTypes
    <2>2. ASSUME NEW q, q = Answered
          PROVE  q = [posts |-> upstream.posts, billed |-> upstream.billed, input |-> 0, output |-> 0]
      BY <2>1, <2>2, Zenon DEF Answered
    <2> QED
      BY <1>1, <2>1, <2>2
  <1>4. NoLedger \in Ledgers
    BY DEF NoLedger, Ledgers, LedgerStates
  <1>5. outcome = "admitted"
    BY <1>1 DEF GatewayInv, HostInv, GatewayTypes
  <1>6. unsure' \in BOOLEAN
    BY <1>1 DEF GatewayInv, GatewayTypes
  <1>7. GatewayTypes'
    BY <1>1, <1>2, <1>3, <1>4, <1>6 DEF GatewayInv, GatewayTypes, NoLedger
  <1>8. LedgerInv'
    <2>1. gateway = "posted" => ledger.state = "in_flight"
      BY DEF GatewayInv, EntryInv, StatesAt
    <2>2. ledger.state # "none"
      BY <1>1 DEF GatewayInv, EntryInv
    <2> QED
      BY <1>1, <1>3, <2>1, <2>2 DEF GatewayInv, LedgerInv, Excess
  <1>9. EntryInv' /\ FlightInv'
    BY <1>2 DEF EntryInv, FlightInv
  <1>10. HostInv'
    BY <1>1, <1>2, GatewayAmounts DEF GatewayInv, HostInv
  <1>11. BudgetIsKept' /\ ReceiptCoversBill' /\ UnknownIsKept'
    BY <1>1, <1>3, <1>5 DEF GatewayInv, BudgetIsKept, ReceiptCoversBill, UnknownIsKept, Excess
  <1> QED
    BY <1>7, <1>8, <1>9, <1>10, <1>11 DEF GatewayInv

\* begin_request: the reservation is durable before anything is sent.
LEMMA ReserveKeeps ==
    ASSUME GatewayInv, NEW r \in Bodies, NEW ok \in BOOLEAN, Reserve(r, ok)
    PROVE  GatewayInv'
  <1> DEFINE e == [entry EXCEPT !.state = "in_flight", !.requests = @ + 1, !.input = r, !.output = MaxOutput]
  <1>1. /\ r \in Nat /\ MaxOutput \in Nat /\ entry \in Ledgers
        /\ tally \in [starts : Nat, refused : Nat, lost : Nat]
    BY GatewayAssumption DEF GatewayInv, GatewayTypes
  <1>2. e = Led("in_flight", entry.requests + 1, entry.used, r, MaxOutput)
    BY <1>1, ReserveFields
  <1>4. Persist(e, ok)
    BY DEF Reserve
  <1> HIDE DEF e
  <1>3. e \in Ledgers
    <2>1. entry.requests + 1 \in Nat /\ entry.used \in Nat /\ "in_flight" \in LedgerStates
      BY GatewayAmounts DEF LedgerStates
    <2> QED
      BY <1>1, <1>2, <2>1, LedType
  <1>5. /\ gateway = "serving" /\ child = "running" /\ Admits(entry) /\ WithinLimits(r)
        /\ UNCHANGED <<host, route, child, outcome, reported, upstream, unsure>>
        /\ ok => /\ gateway' = "forwarding" /\ counted' = [counted EXCEPT !.requests = @ + 1]
                 /\ UNCHANGED refusal
        /\ ~ ok => gateway' = "stopped" /\ refusal' = "outcome_unknown" /\ UNCHANGED counted
    BY DEF Reserve, Outside
  <1>6. /\ entry = ledger /\ entry.state \in {"idle", "committed"}
        /\ counted.requests = entry.requests /\ counted.used = entry.used
        /\ upstream.posts <= entry.requests /\ upstream.billed <= entry.used /\ ~ unsure
        /\ outcome = "admitted" /\ entry.requests + 1 <= MaxRequests /\ entry.requests + 1 <= MaxRetries + 1
        /\ entry.used + r + MaxOutput <= MaxTokens
    <2>1. /\ entry = ledger /\ entry.state \in {"idle", "committed"}
          /\ counted.requests = entry.requests /\ counted.used = entry.used
      BY <1>5 DEF GatewayInv, EntryInv, StatesAt, Admits, Halted
    <2>2. upstream.posts <= entry.requests /\ upstream.billed <= entry.used /\ ~ unsure
      BY <2>1 DEF GatewayInv, LedgerInv
    <2>3. outcome = "admitted"
      BY <1>5 DEF GatewayInv, HostInv, GatewayTypes
    <2> QED
      BY <1>1, <1>5, <2>1, <2>2, <2>3, GatewayAmounts, GatewayAssumption DEF WithinLimits
  <1>7. /\ tally' \in [starts : Nat, refused : Nat, lost : Nat] /\ tally'.starts = tally.starts
        /\ ok => ledger' = e /\ entry' = e
        /\ ~ ok => /\ entry' = Led("persistence_failed", e.requests, e.used, e.input, e.output)
                   /\ ledger' \in {ledger, entry'}
    BY <1>1, <1>3, <1>4, PersistFields
  <1>8. e.requests = entry.requests + 1 /\ e.used = entry.used /\ e.input = r /\ e.output = MaxOutput
        /\ e.state = "in_flight"
    BY <1>2 DEF Led
  <1>9. CASE ok
    <2>1. GatewayTypes'
      BY <1>3, <1>5, <1>7, <1>8, <1>9, GatewayAmounts DEF GatewayInv, GatewayTypes, Settled
    <2>2. LedgerInv'
      BY <1>1, <1>5, <1>6, <1>7, <1>8, <1>9, GatewayAmounts DEF GatewayInv, LedgerInv, Excess
    <2>3. EntryInv' /\ FlightInv'
      BY <1>1, <1>5, <1>6, <1>7, <1>8, <1>9, GatewayAmounts
         DEF EntryInv, FlightInv, StatesAt, GatewayInv, GatewayTypes
    <2>4. HostInv'
      <3>1. counted.requests \in Nat /\ counted'.requests = counted.requests + 1
        BY <1>5, <1>9 DEF GatewayInv, GatewayTypes
      <3>2. counted'.requests > 0
        BY <3>1
      <3> QED
        BY <1>5, <1>6, <1>7, <1>9, <3>2 DEF HostInv, GatewayInv
    <2>5. BudgetIsKept' /\ ReceiptCoversBill' /\ UnknownIsKept'
      BY <1>5, <1>6 DEF GatewayInv, BudgetIsKept, ReceiptCoversBill, UnknownIsKept, Excess
    <2> QED
      BY <2>1, <2>2, <2>3, <2>4, <2>5 DEF GatewayInv
  <1>10. CASE ~ ok
    <2>1. entry' \in Ledgers /\ entry'.state = "persistence_failed"
          /\ entry'.requests = entry.requests + 1 /\ entry'.used = entry.used
          /\ entry'.input = r /\ entry'.output = MaxOutput
      <3>1. entry' = Led("persistence_failed", entry.requests + 1, entry.used, r, MaxOutput)
        BY <1>7, <1>8, <1>10
      <3>2. entry.requests + 1 \in Nat /\ entry.used \in Nat /\ "persistence_failed" \in LedgerStates
        BY GatewayAmounts DEF LedgerStates
      <3>3. entry' \in Ledgers
        BY <1>1, <3>1, <3>2, LedType
      <3> QED
        BY <3>1, <3>3 DEF Led
    <2>2. GatewayTypes'
      BY <1>5, <1>7, <1>10, <2>1 DEF GatewayInv, GatewayTypes, Settled
    <2>3. LedgerInv'
      <3>1. CASE ledger' = ledger
        BY <1>5, <1>6, <3>1 DEF GatewayInv, LedgerInv, Excess
      <3>2. CASE ledger' = entry'
        BY <1>1, <1>5, <1>6, <2>1, <3>2, GatewayAmounts DEF LedgerInv, Excess
      <3> QED
        BY <1>7, <1>10, <3>1, <3>2
    <2>4. EntryInv' /\ FlightInv'
      BY <1>5, <1>6, <1>7, <1>10, <2>1 DEF EntryInv, FlightInv
    <2>5. HostInv'
      BY <1>5, <1>6, <1>7, <1>10 DEF HostInv, GatewayInv
    <2>6. BudgetIsKept' /\ ReceiptCoversBill' /\ UnknownIsKept'
      BY <1>5, <1>6 DEF GatewayInv, BudgetIsKept, ReceiptCoversBill, UnknownIsKept, Excess
    <2> QED
      BY <2>2, <2>3, <2>4, <2>5, <2>6 DEF GatewayInv
  <1> QED
    BY <1>9, <1>10

\* The post is within the reservation, up to the excess of one answer.
LEMMA PostKeeps ==
    ASSUME GatewayInv, NEW i \in 0 .. MaxInput, NEW o \in 0 .. MaxOutput + 1, PostUpstream(i, o)
    PROVE  GatewayInv'
  <1>1. i \in Nat /\ o \in Nat /\ MaxOutput \in Nat
    BY GatewayAssumption
  <1>2. /\ gateway = "forwarding" /\ i <= entry.input /\ o <= MaxOutput + Excess /\ gateway' = "posted"
        /\ upstream' = [posts |-> upstream.posts + 1, billed |-> upstream.billed + i + o,
                        input |-> i, output |-> o]
        /\ UNCHANGED <<host, route, child, outcome, reported, ledger, entry, counted, refusal, unsure, tally>>
    BY DEF PostUpstream, Outside
  <1>3. /\ entry = ledger /\ entry.state = "in_flight" /\ entry.output = MaxOutput
        /\ entry.used + entry.input + entry.output <= MaxTokens /\ ~ unsure
        /\ upstream.posts < entry.requests /\ upstream.billed <= entry.used
    BY <1>2 DEF GatewayInv, EntryInv, FlightInv, StatesAt
  <1>4. /\ upstream'.posts = upstream.posts + 1 /\ upstream'.billed = upstream.billed + i + o
        /\ upstream'.input = i /\ upstream'.output = o
        /\ upstream' \in [posts : Nat, billed : Nat, input : Nat, output : Nat]
    BY <1>1, <1>2, GatewayAmounts
  <1>5. GatewayTypes'
    BY <1>2, <1>4 DEF GatewayInv, GatewayTypes
  <1>6. LedgerInv'
    BY <1>1, <1>2, <1>3, <1>4, GatewayAmounts DEF GatewayInv, LedgerInv, Excess
  <1>7. EntryInv' /\ FlightInv'
    BY <1>1, <1>2, <1>3, <1>4, GatewayAmounts DEF GatewayInv, EntryInv, FlightInv, StatesAt, Excess
  <1>8. HostInv' /\ outcome = "admitted"
    BY <1>2 DEF GatewayInv, HostInv, GatewayTypes
  <1>9. BudgetIsKept'
    <2>1. upstream'.posts <= entry.requests /\ entry.requests <= MaxRequests
          /\ entry.requests <= MaxRetries + 1
      BY <1>3, <1>4, GatewayAmounts DEF GatewayInv, LedgerInv
    <2>2. upstream'.billed <= MaxTokens + Excess
      BY <1>1, <1>2, <1>3, <1>4, GatewayAmounts, GatewayAssumption
    <2> QED
      BY <1>2, <1>4, <2>1, <2>2, GatewayAmounts, GatewayAssumption DEF BudgetIsKept, Excess
  <1>10. ReceiptCoversBill' /\ UnknownIsKept'
    BY <1>2, <1>8 DEF ReceiptCoversBill, UnknownIsKept
  <1> QED
    BY <1>5, <1>6, <1>7, <1>8, <1>9, <1>10 DEF GatewayInv

\* The end of a request, as far as every way of ending it goes: the journal in
\* memory and on disk covers the bill, whether or not the write succeeds.
LEMMA RequestEnds ==
    ASSUME GatewayInv, NEW e \in Ledgers, NEW ok \in BOOLEAN, Persist(e, ok),
           gateway \in {"forwarding", "posted", "committed"},
           UNCHANGED <<host, route, child, outcome, reported>>,
           upstream' \in [posts : Nat, billed : Nat, input : Nat, output : Nat],
           upstream'.posts = upstream.posts, upstream'.billed = upstream.billed,
           e.requests = entry.requests, e.input = 0, e.output = 0,
           e.state \in {"idle", "committed", "outcome_unknown"},
           upstream.billed <= e.used + Excess,
           e.state # "outcome_unknown" => upstream.billed <= e.used /\ ~ unsure',
           unsure' \in BOOLEAN, unsure' => ledger.state = "in_flight" /\ refusal' # "none",
           refusal' \in {"none", "pre_call", "outcome_unknown"},
           counted' \in [requests : Nat, used : Nat], counted'.requests = counted.requests,
           ok => counted'.requests = e.requests /\ counted'.used = e.used,
           gateway' \in {"serving", "stopped", "committed"},
           ok => e.state \in StatesAt(gateway'), ~ ok => gateway' # "committed"
    PROVE  GatewayInv'
  <1>1. tally \in [starts : Nat, refused : Nat, lost : Nat]
    BY DEF GatewayInv, GatewayTypes
  <1>2. /\ ok => ledger' = e /\ entry' = e
        /\ ~ ok => /\ entry' = Led("persistence_failed", e.requests, e.used, e.input, e.output)
                   /\ ledger' \in {ledger, entry'}
        /\ tally' \in [starts : Nat, refused : Nat, lost : Nat] /\ tally'.starts = tally.starts
    BY <1>1, PersistFields
  <1>3. e.requests \in Nat /\ e.used \in Nat
    BY DEF Ledgers
  <1>4. entry = ledger /\ ledger.state # "none" /\ child # "none" /\ outcome = "admitted" /\ tally.starts # 0
    BY GatewayAmounts DEF GatewayInv, EntryInv, HostInv, GatewayTypes
  <1>5. /\ entry' \in Ledgers /\ entry'.requests = entry.requests /\ entry'.used = e.used
        /\ entry'.input = 0 /\ entry'.output = 0
        /\ entry'.state = IF ok THEN e.state ELSE "persistence_failed"
    <2>1. "persistence_failed" \in LedgerStates
      BY DEF LedgerStates
    <2>2. CASE ok
      BY <1>2, <2>2
    <2>3. CASE ~ ok
      <3>1. entry' = Led("persistence_failed", e.requests, e.used, 0, 0)
        BY <1>2, <2>3
      <3>2. entry' \in Ledgers
        BY <1>3, <2>1, <3>1, LedType
      <3> QED
        BY <2>3, <3>1, <3>2 DEF Led
    <2> QED
      BY <2>2, <2>3
  <1>6. ledger' = entry' \/ (~ ok /\ ledger' = ledger)
    BY <1>2
  <1>7. GatewayTypes'
    <2>1. GatewayTypes
      BY DEF GatewayInv
    <2>2. ledger' \in Ledgers /\ (ledger'.state = "none" => ledger' = NoLedger)
          /\ (ledger'.state \in Settled => ledger'.input = 0 /\ ledger'.output = 0)
      BY <1>5, <1>6, <2>1 DEF GatewayTypes
    <2> QED
      BY <1>2, <1>5, <2>1, <2>2 DEF GatewayTypes
  <1>8. LedgerInv'
    <2>1. CASE ledger' = ledger
      BY <1>4, <2>1 DEF GatewayInv, LedgerInv, Excess
    <2>2. CASE ledger' = entry'
      BY <1>3, <1>4, <1>5, <2>2, GatewayAmounts DEF GatewayInv, LedgerInv, Excess
    <2> QED
      BY <1>6, <2>1, <2>2
  <1>9. EntryInv' /\ FlightInv'
    <2>1. ledger'.state # "none"
      BY <1>4, <1>5, <1>6
    <2> QED
      BY <1>2, <1>5, <2>1 DEF EntryInv, FlightInv
  <1>10. HostInv'
    BY <1>2, <1>4 DEF HostInv, GatewayInv
  <1>11. BudgetIsKept' /\ ReceiptCoversBill' /\ UnknownIsKept'
    BY <1>4 DEF GatewayInv, BudgetIsKept, ReceiptCoversBill, UnknownIsKept, Excess
  <1> QED
    BY <1>7, <1>8, <1>9, <1>10, <1>11 DEF GatewayInv

\* The post is no longer under way.
LEMMA AnsweredFields ==
    ASSUME GatewayInv, upstream' = Answered
    PROVE  /\ upstream' \in [posts : Nat, billed : Nat, input : Nat, output : Nat]
           /\ upstream'.posts = upstream.posts /\ upstream'.billed = upstream.billed
  <1>1. upstream \in [posts : Nat, billed : Nat, input : Nat, output : Nat]
    BY DEF GatewayInv, GatewayTypes
  <1>2. ASSUME NEW q, q = Answered
        PROVE  q = [posts |-> upstream.posts, billed |-> upstream.billed, input |-> 0, output |-> 0]
    BY <1>1, <1>2, Zenon DEF Answered
  <1>3. upstream' = [posts |-> upstream.posts, billed |-> upstream.billed, input |-> 0, output |-> 0]
    BY <1>2
  <1> QED
    BY <1>1, <1>3

\* A request that ends: lost, beyond its reservation, committed, answered.
LEMMA AnswerKeeps ==
    ASSUME GatewayInv, NEW ok \in BOOLEAN, Lost(ok) \/ AnswerExceeds(ok) \/ Commit(ok) \/ Answer(ok)
    PROVE  GatewayInv'
  <1>1. /\ entry \in Ledgers /\ entry.requests \in Nat /\ entry.used \in Nat
        /\ entry.input \in Nat /\ entry.output \in Nat
        /\ upstream.billed \in Nat /\ upstream.input \in Nat /\ upstream.output \in Nat
        /\ counted \in [requests : Nat, used : Nat] /\ counted.used \in Nat /\ Excess \in 0 .. 1
        /\ {"outcome_unknown", "committed", "idle"} \subseteq LedgerStates
        /\ refusal \in {"none", "pre_call", "outcome_unknown"} /\ MaxOutput \in Nat
    BY GatewayAmounts, GatewayAssumption DEF GatewayInv, GatewayTypes, LedgerStates
  <1>2. ASSUME NEW i \in Nat, NEW o \in Nat, Charge(i, o, ok), gateway \in {"forwarding", "posted"},
               UNCHANGED Outside, upstream' = Answered, refusal' = "outcome_unknown",
               gateway' \in {"serving", "stopped"}
        PROVE  GatewayInv'
    <2> DEFINE charge == Max({entry.input, i}) + Max({entry.output, o})
               e == Freed(entry, "outcome_unknown", charge)
    <2>1. /\ charge \in Nat /\ charge >= entry.input + entry.output
      BY <1>1, <1>2, MaxOfTwo
    <2>2. /\ Persist(e, ok) /\ unsure' = TRUE
          /\ counted' = IF ok THEN [counted EXCEPT !.used = @ + charge] ELSE counted
          /\ UNCHANGED <<host, route, child, outcome, reported>>
      BY <1>2 DEF Charge, Outside
    <2>3. e = Led("outcome_unknown", entry.requests, entry.used + charge, 0, 0)
      BY <1>1, FreedFields
    <2> HIDE DEF charge, e
    <2>4. e \in Ledgers
      <3>1. entry.used + charge \in Nat
        BY <1>1, <2>1
      <3> QED
        BY <1>1, <2>3, <3>1, LedType
    <2>5. /\ e.requests = entry.requests /\ e.input = 0 /\ e.output = 0
          /\ e.state = "outcome_unknown" /\ e.used = entry.used + charge
      BY <2>3 DEF Led
    <2>6. /\ upstream' \in [posts : Nat, billed : Nat, input : Nat, output : Nat]
          /\ upstream'.posts = upstream.posts /\ upstream'.billed = upstream.billed
      BY <1>2, AnsweredFields
    <2>7. /\ entry = ledger /\ ledger.state = "in_flight" /\ entry.output = MaxOutput
          /\ counted.requests = entry.requests /\ counted.used = entry.used
      BY <1>2 DEF GatewayInv, EntryInv, FlightInv, StatesAt
    <2>8. upstream.billed <= e.used + Excess
      <3>1. CASE gateway = "forwarding"
        BY <1>1, <2>1, <2>5, <3>1 DEF GatewayInv, FlightInv
      <3>2. CASE gateway = "posted"
        BY <1>1, <2>1, <2>5, <2>7, <3>2 DEF GatewayInv, FlightInv
      <3> QED
        BY <1>2, <3>1, <3>2
    <2>9. counted' \in [requests : Nat, used : Nat] /\ (ok => counted'.requests = e.requests /\ counted'.used = e.used)
      BY <1>1, <2>1, <2>2, <2>5, <2>7
    <2>10. "outcome_unknown" \in StatesAt(gateway')
      BY <1>2 DEF StatesAt
    <2> QED
      BY <1>2, <2>2, <2>4, <2>5, <2>6, <2>7, <2>8, <2>9, <2>10, RequestEnds
  <1>3. CASE Lost(ok)
    BY <1>1, <1>2, <1>3 DEF Lost
  <1>4. CASE AnswerExceeds(ok)
    BY <1>1, <1>2, <1>4 DEF AnswerExceeds
  <1>5. CASE Commit(ok)
    <2> DEFINE use == upstream.input + upstream.output
               e == Freed(entry, "committed", use)
    <2>1. /\ gateway = "posted" /\ ~ Exceeds(upstream.input, upstream.output)
          /\ counted' = [counted EXCEPT !.used = @ + use] /\ Persist(e, ok)
          /\ gateway' = IF ok THEN "committed" ELSE "stopped"
          /\ refusal' = IF ok THEN refusal ELSE "outcome_unknown"
          /\ upstream' = Answered
          /\ UNCHANGED <<host, route, child, outcome, reported, unsure>>
      BY <1>5 DEF Commit, Outside
    <2>2. e = Led("committed", entry.requests, entry.used + use, 0, 0)
      BY <1>1, FreedFields
    <2>3. use \in Nat /\ entry.used + use \in Nat
      BY <1>1
    <2> HIDE DEF e
    <2>4. e \in Ledgers
      BY <1>1, <2>2, <2>3, LedType
    <2>5. /\ e.requests = entry.requests /\ e.input = 0 /\ e.output = 0
          /\ e.state = "committed" /\ e.used = entry.used + use
      BY <2>2 DEF Led
    <2>6. /\ upstream' \in [posts : Nat, billed : Nat, input : Nat, output : Nat]
          /\ upstream'.posts = upstream.posts /\ upstream'.billed = upstream.billed
      BY <2>1, AnsweredFields
    <2>7. /\ entry = ledger /\ ledger.state = "in_flight" /\ ~ unsure
          /\ counted.requests = entry.requests /\ counted.used = entry.used
          /\ upstream.billed <= entry.used + upstream.input + upstream.output
      BY <2>1 DEF GatewayInv, EntryInv, FlightInv, StatesAt
    <2>8. upstream.billed <= e.used /\ upstream.billed <= e.used + Excess
      BY <1>1, <2>5, <2>7
    <2>9. counted' \in [requests : Nat, used : Nat] /\ counted'.requests = e.requests /\ counted'.used = e.used
      BY <1>1, <2>1, <2>3, <2>5, <2>7
    <2>10. "committed" \in StatesAt("committed")
      BY DEF StatesAt
    <2>11. unsure' \in BOOLEAN /\ ~ unsure'
      BY <2>1, <2>7 DEF GatewayInv, GatewayTypes
    <2> QED
      BY <1>1, <2>1, <2>4, <2>5, <2>6, <2>8, <2>9, <2>10, <2>11, RequestEnds
  <1>6. CASE Answer(ok)
    <2> DEFINE e == [entry EXCEPT !.state = "idle"]
    <2>1. /\ gateway = "committed" /\ Persist(e, ok)
          /\ gateway' = IF ok THEN "serving" ELSE "stopped"
          /\ refusal' \in {refusal, "outcome_unknown"}
          /\ UNCHANGED <<host, route, child, outcome, reported, counted, upstream, unsure>>
      BY <1>6 DEF Answer, Outside
    <2>2. e = Led("idle", entry.requests, entry.used, entry.input, entry.output)
      BY <1>1, StateFields
    <2> HIDE DEF e
    <2>3. e \in Ledgers
      BY <1>1, <2>2, LedType
    <2>4. /\ entry = ledger /\ entry.state = "committed"
          /\ counted.requests = entry.requests /\ counted.used = entry.used
      BY <2>1 DEF GatewayInv, EntryInv, StatesAt
    <2>5. entry.input = 0 /\ entry.output = 0 /\ upstream.billed <= entry.used /\ ~ unsure
      BY <2>4 DEF GatewayInv, GatewayTypes, Settled, LedgerInv
    <2>6. /\ e.requests = entry.requests /\ e.input = 0 /\ e.output = 0
          /\ e.state = "idle" /\ e.used = entry.used
      BY <2>2, <2>5 DEF Led
    <2>7. upstream.billed <= e.used /\ upstream.billed <= e.used + Excess
      BY <1>1, <2>5, <2>6
    <2>8. "idle" \in StatesAt("serving")
      BY DEF StatesAt
    <2>9. unsure' \in BOOLEAN /\ ~ unsure' /\ upstream' \in [posts : Nat, billed : Nat, input : Nat, output : Nat]
      BY <2>1, <2>5 DEF GatewayInv, GatewayTypes
    <2> QED
      BY <1>1, <2>1, <2>3, <2>4, <2>6, <2>7, <2>8, <2>9, RequestEnds
  <1> QED
    BY <1>3, <1>4, <1>5, <1>6

\* The invariant, for every budget, every body and any number of restarts and failing writes.
THEOREM GatewayInvariance == GatewaySpec => []GatewayInv
  <1>1. GatewayInit => GatewayInv
    BY GatewayStarts
  <1>2. GatewayInv /\ [GatewayNext]_gvars => GatewayInv'
    <2> SUFFICES ASSUME GatewayInv, [GatewayNext]_gvars PROVE GatewayInv'
      OBVIOUS
    <2>1. CASE UNCHANGED gvars
      <3>1. GatewayTypes'
        BY <2>1 DEF gvars, GatewayInv, GatewayTypes
      <3>2. LedgerInv' /\ EntryInv' /\ FlightInv' /\ HostInv'
        BY <2>1 DEF gvars, GatewayInv, LedgerInv, EntryInv, FlightInv, HostInv, Excess
      <3>3. BudgetIsKept' /\ ReceiptCoversBill' /\ UnknownIsKept'
        BY <2>1 DEF gvars, GatewayInv, BudgetIsKept, ReceiptCoversBill, UnknownIsKept, Excess
      <3> QED
        BY <3>1, <3>2, <3>3 DEF GatewayInv
    <2>2. CASE GatewayNext
      BY <2>2, GatewayStartKeeps, GatewayStartFailsKeeps, ChildKeeps, FinishKeeps, VanishKeeps,
         ReserveKeeps, PostKeeps, AnswerKeeps DEF GatewayNext
    <2> QED
      BY <2>1, <2>2
  <1> QED
    BY <1>1, <1>2, PTL DEF GatewaySpec

\* dispatch_request between a durable reservation and a durable charge: whatever writes
\* fail and wherever the process dies, the budget holds, and neither the journal nor the
\* receipt of the attempt says less than the provider bills.
THEOREM GatewaySoundness == GatewaySpec => []GatewayIsSound
  <1>1. GatewayInv => GatewayIsSound
    <2> SUFFICES ASSUME GatewayInv PROVE GatewayIsSound
      OBVIOUS
    <2>1. GatewayTypeOK
      BY GatewayAmounts DEF GatewayInv, GatewayTypes, GatewayTypeOK, Settled
    <2>2. LedgerCoversBill
      BY GatewayAmounts DEF GatewayInv, LedgerInv, LedgerCoversBill, Excess
    <2> QED
      BY <2>1, <2>2 DEF GatewayInv, GatewayIsSound
  <1> QED
    BY <1>1, GatewayInvariance, PTL

\* admits_new_request and resume_exact_attempt: after a post with an unknown effect nothing
\* is posted any more, by this gateway or by a later one on the same journal.
THEOREM GatewayUnknownBlocks == GatewaySpec => UnknownBlocks
  <1>1. GatewayInv /\ [GatewayNext]_gvars => [unsure => upstream'.posts = upstream.posts]_gvars
    <2> SUFFICES ASSUME GatewayInv, GatewayNext, unsure
                 PROVE  upstream'.posts = upstream.posts
      OBVIOUS
    <2>1. ASSUME NEW i \in 0 .. MaxInput, NEW o \in 0 .. MaxOutput + 1, PostUpstream(i, o)
          PROVE  FALSE
      BY <2>1 DEF PostUpstream, GatewayInv, FlightInv
    <2>2. CASE upstream' = Answered
      BY <2>2, AnsweredFields
    <2>3. CASE upstream' = upstream
      BY <2>3
    <2> QED
      BY <2>1, <2>2, <2>3 DEF GatewayNext, GatewayStart, GatewayStartFails, SpawnChild, PreChildFails,
         ChildEnds, Finish, ShutDown, GatewayDies, RefuseUnknown, RefuseBeforeCall, Ask, Reserve, Lost,
         AnswerExceeds, Commit, Answer
  <1> QED
    BY <1>1, GatewayInvariance, PTL DEF GatewaySpec, UnknownBlocks

-----------------------------------------------------------------------------
(* What the properties of a delegated attempt rest on. *)

Grants8 ==
    [status : {"active", "revoked", "expired"}, proposed : BOOLEAN, approved : BOOLEAN,
     spend : {"none", "active", "consumed", "revoked", "expired"},
     attempt : {"none", "admitted", "closed"}, approver : Reviewer,
     activator : Executor \cup {Nobody}, confirmer : Confirmer \cup {Nobody}]

Nodes == [status : {"pending", "running", "completed", "failed"}, lease : 0 .. MaxLeases]

Entries ==
    [status : {"none", "sending", "succeeded", "failed_before_send", "failed_known_outcome",
               "outcome_unknown"},
     lease : 0 .. MaxLeases, units : 0 .. 2]

Places == {"gone", "claim", "send", "answer", "apply", "done", "failed"}

Execs ==
    [at : Places, answer : {"none", "response", "pre_send", "known", "unknown"}, used : 0 .. 2]

Classes == {"none", "succeeded", "failed", "cancelled", "outcome_unknown", "revoked"}

Closers ==
    [at : {"idle", "revoked", "cleaning"}, kind : {"none", "failure", "success", "revoked"},
     class : Classes, over : BOOLEAN]

AttemptTypes ==
    /\ grant \in Grants8
    /\ goal \in Failures \cup {"workspace_bound", "running", "awaiting_approval", "completed"}
    /\ node \in [Stage -> Nodes]
    /\ journal \in [Stage -> Entries]
    /\ sent \in [Stage -> Nat]
    /\ exec \in [Execution -> Execs]
    /\ closer \in [Closer -> Closers]
    /\ seal \in Classes
    /\ stops \in 0 .. MaxStops

Flying(x) == exec[x].at \in {"send", "answer"}

\* A request under way is the only one of its stage, and its claim is open.
FlyInv ==
    /\ \A x \in Execution : Flying(x) => journal[x[1]].status = "sending"
    /\ \A x \in Execution : exec[x].at = "answer" => exec[x].answer # "none"
    /\ \A x \in Execution : exec[x].at = "send" => sent[x[1]] = 0
    /\ \A x, y \in Execution : Flying(x) /\ Flying(y) /\ x[1] = y[1] => x = y
    /\ \A n \in Stage : journal[n].status = "none" => sent[n] = 0
    /\ SentOnce

\* The task has ended; nothing is open at the provider.
Over  == goal \notin {"workspace_bound", "running"}
Quiet == \A n \in Stage : journal[n].status \notin {"sending", "outcome_unknown"}

\* What a receipt of a class says, from the moment its call has read the row.
Tells(class) ==
    /\ class \in {"failed", "cancelled"} => Over /\ Quiet
    /\ class = "succeeded" => goal = "completed" /\ grant.confirmer # Nobody

\* A call that cleans up knows why, and the reason lasts.
CloseInv ==
    /\ Tells(seal)
    /\ seal # "none" <=> grant.attempt = "closed"
    /\ \A c \in Closer : closer[c].at = "cleaning" =>
          /\ closer[c].class # "none" /\ Tells(closer[c].class)
          /\ closer[c].kind \in {"failure", "success"} => Over
          /\ closer[c].kind = "revoked" => grant.status # "active"
          /\ closer[c].kind # "none" /\ grant.attempt # "none"

\* The authorities on the row come one after the other.
GrantInv ==
    /\ grant.approved => grant.proposed
    /\ grant.spend \in {"active", "consumed"} => grant.approved
    /\ grant.attempt # "none" => grant.approved
    /\ grant.activator # Nobody => grant.approved /\ grant.attempt # "none"
    /\ grant.confirmer # Nobody =>
          /\ grant.attempt # "none"
          /\ \A n \in Stage : journal[n].status = "succeeded"
    /\ DutiesAreSeparate

AttemptInv == AttemptTypes /\ FlyInv /\ CloseInv /\ GrantInv

\* The first states.
LEMMA AttemptStarts == AttemptInit => AttemptInv
  <1> SUFFICES ASSUME AttemptInit PROVE AttemptInv
    OBVIOUS
  <1> USE AttemptAssumption DEF AttemptInit
  <1>1. grant \in Grants8
    BY DEF Grants8
  <1>2. node \in [Stage -> Nodes] /\ journal \in [Stage -> Entries] /\ sent \in [Stage -> Nat]
    BY DEF Nodes, Entries, NoEntry
  <1>3. Gone \in Execs /\ NoClose \in Closers
    BY DEF Gone, Execs, Places, NoClose, Closers, Classes
  <1>4. AttemptTypes
    BY <1>1, <1>2, <1>3 DEF AttemptTypes, Classes
  <1>5. FlyInv
    BY DEF FlyInv, Flying, Gone, NoEntry, SentOnce
  <1>6. CloseInv /\ GrantInv
    BY DEF CloseInv, GrantInv, Tells, NoClose, DutiesAreSeparate
  <1> QED
    BY <1>4, <1>5, <1>6 DEF AttemptInv

-----------------------------------------------------------------------------
(* The writers of the row, field by field. *)

\* admit_delegated_attempt: the spend is consumed by the attempt.
LEMMA AdmitFields ==
    ASSUME grant \in Grants8, NEW p \in Executor, NEW q,
           q = [grant EXCEPT !.spend = "consumed", !.attempt = "admitted", !.activator = p]
    PROVE  /\ q \in Grants8
           /\ q = [status |-> grant.status, proposed |-> grant.proposed, approved |-> grant.approved,
                   spend |-> "consumed", attempt |-> "admitted", approver |-> grant.approver,
                   activator |-> p, confirmer |-> grant.confirmer]
  <1>1. q = [status |-> grant.status, proposed |-> grant.proposed, approved |-> grant.approved,
             spend |-> "consumed", attempt |-> "admitted", approver |-> grant.approver,
             activator |-> p, confirmer |-> grant.confirmer]
    BY Zenon DEF Grants8
  <1> QED
    BY <1>1, Zenon DEF Grants8

\* The receipt: status, spend and attempt are closed together.
LEMMA SealFields ==
    ASSUME grant \in Grants8, NEW s \in {"revoked", "expired"}, NEW q,
           q = [grant EXCEPT !.status = s, !.spend = s, !.attempt = "closed"]
    PROVE  /\ q \in Grants8
           /\ q = [status |-> s, proposed |-> grant.proposed, approved |-> grant.approved,
                   spend |-> s, attempt |-> "closed", approver |-> grant.approver,
                   activator |-> grant.activator, confirmer |-> grant.confirmer]
  <1>1. q = [status |-> s, proposed |-> grant.proposed, approved |-> grant.approved,
             spend |-> s, attempt |-> "closed", approver |-> grant.approver,
             activator |-> grant.activator, confirmer |-> grant.confirmer]
    BY Zenon DEF Grants8
  <1> QED
    BY <1>1 DEF Grants8

\* Revocation.
LEMMA RevokeFields ==
    ASSUME grant \in Grants8, NEW q, q = [grant EXCEPT !.status = "revoked", !.spend = "revoked"]
    PROVE  /\ q \in Grants8
           /\ q = [status |-> "revoked", proposed |-> grant.proposed, approved |-> grant.approved,
                   spend |-> "revoked", attempt |-> grant.attempt, approver |-> grant.approver,
                   activator |-> grant.activator, confirmer |-> grant.confirmer]
  <1>1. q = [status |-> "revoked", proposed |-> grant.proposed, approved |-> grant.approved,
             spend |-> "revoked", attempt |-> grant.attempt, approver |-> grant.approver,
             activator |-> grant.activator, confirmer |-> grant.confirmer]
    BY Zenon DEF Grants8
  <1> QED
    BY <1>1 DEF Grants8

-----------------------------------------------------------------------------
(* One group of actions after the other keeps the invariant. *)

\* The separated authorities on the row.
LEMMA GrantKeeps ==
    ASSUME AttemptInv, Grants,
           \/ \E p \in Reviewer : Rebind(p) \/ Approve(p) \/ IssueSpend(p)
           \/ \E p \in Executor : AdmitAttempt(p)
           \/ \E p \in Confirmer : ConfirmArtifact(p)
           \/ Propose
    PROVE  AttemptInv'
  <1>1. /\ grant \in Grants8 /\ GrantInv /\ CloseInv
        /\ UNCHANGED <<goal, node, journal, sent, exec, closer, seal, stops>>
    BY DEF AttemptInv, AttemptTypes, Grants
  <1> DEFINE Goes ==
        /\ grant' \in Grants8 /\ grant'.status = grant.status
        /\ grant'.attempt = "closed" <=> grant.attempt = "closed"
        /\ grant.attempt # "none" => grant'.attempt # "none"
        /\ grant.confirmer # Nobody => grant'.confirmer = grant.confirmer
        /\ GrantInv'
  <1>2. ASSUME NEW p \in Reviewer, Rebind(p) PROVE Goes
    <2>1. grant' = [grant EXCEPT !.approver = p] /\ ~ grant.proposed
      BY <1>2 DEF Rebind
    <2>2. grant' \in Grants8 /\ grant'.activator = grant.activator /\ grant'.confirmer = grant.confirmer
          /\ grant'.attempt = grant.attempt /\ grant'.approved = grant.approved
          /\ grant'.spend = grant.spend /\ grant'.proposed = grant.proposed /\ grant'.status = grant.status
      BY <1>1, <2>1 DEF Grants8
    <2> QED
      BY <1>1, <2>1, <2>2 DEF GrantInv, DutiesAreSeparate
  <1>3. ASSUME NEW p \in Reviewer, Approve(p) PROVE Goes
    <2>1. grant' = [grant EXCEPT !.approved = TRUE] /\ grant.proposed
      BY <1>3 DEF Approve
    <2> QED
      BY <1>1, <2>1 DEF GrantInv, DutiesAreSeparate, Grants8
  <1>4. ASSUME NEW p \in Reviewer, IssueSpend(p) PROVE Goes
    <2>1. grant' = [grant EXCEPT !.spend = "active"] /\ grant.approved
      BY <1>4 DEF IssueSpend
    <2> QED
      BY <1>1, <2>1 DEF GrantInv, DutiesAreSeparate, Grants8
  <1>5. ASSUME Propose PROVE Goes
    <2>1. grant' = [grant EXCEPT !.proposed = TRUE]
      BY <1>5 DEF Propose
    <2> QED
      BY <1>1, <2>1 DEF GrantInv, DutiesAreSeparate, Grants8
  <1>6. ASSUME NEW p \in Executor, AdmitAttempt(p) PROVE Goes
    <2>1. /\ grant' = [grant EXCEPT !.spend = "consumed", !.attempt = "admitted", !.activator = p]
          /\ grant.spend = "active" /\ grant.attempt = "none" /\ grant.approver # p
      BY <1>6 DEF AdmitAttempt
    <2>2. /\ grant' \in Grants8
          /\ grant' = [status |-> grant.status, proposed |-> grant.proposed, approved |-> grant.approved,
                       spend |-> "consumed", attempt |-> "admitted", approver |-> grant.approver,
                       activator |-> p, confirmer |-> grant.confirmer]
      BY <1>1, <2>1, AdmitFields
    <2> QED
      BY <1>1, <2>1, <2>2, AttemptAssumption DEF GrantInv, DutiesAreSeparate
  <1>7. ASSUME NEW p \in Confirmer, ConfirmArtifact(p) PROVE Goes
    <2>1. /\ grant' = [grant EXCEPT !.confirmer = p] /\ grant.confirmer = Nobody
          /\ p \notin {grant.activator, grant.approver} /\ grant.attempt = "admitted"
          /\ \A n \in Stage : journal[n].status = "succeeded"
      BY <1>7 DEF ConfirmArtifact, Evidenced
    <2> QED
      BY <1>1, <2>1, AttemptAssumption DEF GrantInv, DutiesAreSeparate, Grants8
  <1> HIDE DEF Goes
  <1>8. Goes
    BY <1>2, <1>3, <1>4, <1>5, <1>6, <1>7
  <1> USE DEF Goes
  <1>9. AttemptTypes'
    BY <1>1, <1>8 DEF AttemptInv, AttemptTypes
  <1>10. FlyInv'
    BY <1>1 DEF AttemptInv, FlyInv, Flying, SentOnce
  <1>11. CloseInv'
    BY <1>1, <1>8 DEF CloseInv, Tells, Over, Quiet
  <1> QED
    BY <1>8, <1>9, <1>10, <1>11 DEF AttemptInv

\* The task moves on, and does not come back to its run.
LEMMA TaskKeeps ==
    ASSUME AttemptInv, Activate \/ Finalize \/ KillTask \/ Deliver
    PROVE  AttemptInv'
  <1>1. PICK s \in Failures \cup {"running", "awaiting_approval", "completed"} :
          /\ TaskBecomes(s)
          /\ s = "running" => goal = "workspace_bound"
          /\ goal # "completed"
    <2>1. CASE Activate
      BY <2>1 DEF Activate
    <2>2. CASE Finalize
      BY <2>2 DEF Finalize, Failures
    <2>3. CASE KillTask
      BY <2>3 DEF KillTask, Failures
    <2>4. CASE Deliver
      BY <2>4 DEF Deliver, Failures
    <2> QED
      BY <2>1, <2>2, <2>3, <2>4
  <1>2. goal' = s /\ UNCHANGED <<grant, node, journal, sent, exec, closer, seal, stops>>
    BY <1>1 DEF TaskBecomes
  <1>3. AttemptTypes'
    BY <1>1, <1>2 DEF AttemptInv, AttemptTypes
  <1>4. FlyInv' /\ GrantInv'
    BY <1>2 DEF AttemptInv, FlyInv, Flying, SentOnce, GrantInv, DutiesAreSeparate
  <1>5. CloseInv'
    BY <1>1, <1>2 DEF AttemptInv, CloseInv, Tells, Over, Quiet, Failures
  <1> QED
    BY <1>3, <1>4, <1>5 DEF AttemptInv

\* Executions are of stages.
LEMMA ExecutionStage ==
    ASSUME NEW x \in Execution
    PROVE  x[1] \in Stage /\ x = <<x[1], x[2]>>
  BY DEF Execution

\* A step of a worker that touches neither the journal nor the provider.
LEMMA WorkKeeps ==
    ASSUME AttemptInv, UNCHANGED <<grant, goal, closer, seal, stops, journal, sent>>,
           node' \in [Stage -> Nodes],
           \/ exec' = exec
           \/ \E x \in Execution, r \in Execs :
                 r.at \notin {"send", "answer"} /\ exec' = [exec EXCEPT ![x] = r]
    PROVE  AttemptInv'
  <1>1. exec' \in [Execution -> Execs]
        /\ \A y \in Execution : exec'[y].at \in {"send", "answer"} => exec'[y] = exec[y]
    BY DEF AttemptInv, AttemptTypes
  <1>2. AttemptTypes'
    BY <1>1 DEF AttemptInv, AttemptTypes
  <1>3. FlyInv'
    BY <1>1 DEF AttemptInv, FlyInv, Flying, SentOnce
  <1>4. CloseInv' /\ GrantInv'
    BY DEF AttemptInv, CloseInv, Tells, Over, Quiet, GrantInv, DutiesAreSeparate
  <1> QED
    BY <1>2, <1>3, <1>4 DEF AttemptInv

\* Where a worker goes on.
LEMMA GoOnType ==
    ASSUME NEW step \in Places
    PROVE  /\ [Gone EXCEPT !.at = step] \in Execs /\ Gone \in Execs
           /\ [Gone EXCEPT !.at = step].at = step /\ Gone.at = "gone"
  BY DEF Gone, Execs, Places

\* Leases, refusals, the write to the workspace, settlement and death.
LEMMA WorkerKeeps ==
    ASSUME AttemptInv,
           \/ \E n \in Stage : LeaseStage(n) \/ DirectStage(n) \/ RecoverLease(n)
           \/ \E x \in Execution : \/ ClaimRefused(x) \/ ApplyAction(x) \/ ApplyRefused(x)
                                   \/ SettleStage(x) \/ WorkerDies(x)
    PROVE  AttemptInv'
  <1>1. node \in [Stage -> Nodes]
    BY DEF AttemptInv, AttemptTypes
  <1>2. ASSUME NEW n \in Stage, LeaseStage(n) PROVE AttemptInv'
    <2>1. node[n].lease + 1 \in 1 .. MaxLeases
      BY <1>1, <1>2, AttemptAssumption DEF LeaseStage, Nodes
    <2>2. <<n, node[n].lease + 1>> \in Execution
      BY <2>1 DEF Execution
    <2>3. node' \in [Stage -> Nodes]
      BY <1>1, <1>2, <2>1 DEF LeaseStage, Nodes
    <2>4. exec' = [exec EXCEPT ![<<n, node[n].lease + 1>>] = [Gone EXCEPT !.at = "claim"]]
      BY <1>2 DEF LeaseStage, GoOn
    <2>5. UNCHANGED <<grant, goal, closer, seal, stops, journal, sent>>
      BY <1>2 DEF LeaseStage, Work
    <2>6. "claim" \in Places /\ "claim" \notin {"send", "answer"}
      BY DEF Places
    <2> QED
      BY <2>2, <2>3, <2>4, <2>5, <2>6, GoOnType, WorkKeeps
  <1>d. ASSUME NEW n \in Stage, DirectStage(n) PROVE AttemptInv'
    <2>1. <<n, 0>> \in Execution
      BY AttemptAssumption DEF Execution
    <2>2. exec' = [exec EXCEPT ![<<n, 0>>] = [Gone EXCEPT !.at = "claim"]]
      BY <1>d DEF DirectStage, GoOn
    <2>3. UNCHANGED <<grant, goal, closer, seal, stops, journal, sent, node>>
      BY <1>d DEF DirectStage, Work
    <2>4. "claim" \in Places /\ "claim" \notin {"send", "answer"}
      BY DEF Places
    <2> QED
      BY <1>1, <2>1, <2>2, <2>3, <2>4, GoOnType, WorkKeeps
  <1>3. ASSUME NEW n \in Stage, RecoverLease(n) PROVE AttemptInv'
    <2>1. node' \in [Stage -> Nodes]
      BY <1>1, <1>3 DEF RecoverLease, Nodes
    <2> QED
      BY <1>3, <2>1, WorkKeeps DEF RecoverLease, Work
  <1>4. ASSUME NEW x \in Execution, ClaimRefused(x) \/ ApplyAction(x) \/ ApplyRefused(x)
        PROVE  AttemptInv'
    <2>1. PICK step \in {"failed", "done"} : GoOn(x, step)
      BY <1>4 DEF ClaimRefused, ApplyAction, ApplyRefused, Writing
    <2>2. UNCHANGED <<grant, goal, closer, seal, stops, journal, sent, node>>
      BY <1>4 DEF ClaimRefused, ApplyAction, ApplyRefused, Writing, Work
    <2>3. step \in Places
      BY DEF Places
    <2>4. /\ [Gone EXCEPT !.at = step] \in Execs
          /\ [Gone EXCEPT !.at = step].at \notin {"send", "answer"}
      BY <2>3, GoOnType
    <2>5. exec' = [exec EXCEPT ![x] = [Gone EXCEPT !.at = step]]
      BY <2>1 DEF GoOn
    <2> QED
      BY <1>1, <2>2, <2>4, <2>5, WorkKeeps
  <1>5. ASSUME NEW x \in Execution, SettleStage(x) \/ WorkerDies(x) PROVE AttemptInv'
    <2>1. exec' = [exec EXCEPT ![x] = Gone] /\ Gone \in Execs /\ Gone.at \notin {"send", "answer"}
      BY <1>5 DEF SettleStage, WorkerDies, Gone, Execs, Places
    <2>2. node' \in [Stage -> Nodes]
      <3>1. CASE node' = node
        BY <1>1, <3>1
      <3>2. ASSUME NEW s \in {"completed", "pending", "failed"}, node' = [node EXCEPT ![x[1]].status = s]
            PROVE  node' \in [Stage -> Nodes]
        BY <1>1, <3>2, ExecutionStage DEF Nodes
      <3> QED
        BY <1>5, <3>1, <3>2 DEF SettleStage, WorkerDies
    <2>3. UNCHANGED <<grant, goal, closer, seal, stops, journal, sent>>
      BY <1>5 DEF SettleStage, WorkerDies, Work
    <2> QED
      BY <2>1, <2>2, <2>3, WorkKeeps
  <1> QED
    BY <1>2, <1>d, <1>3, <1>4, <1>5

\* The claim: the journal has no entry of the stage, whoever holds the lease.
LEMMA ClaimKeeps ==
    ASSUME AttemptInv, NEW x \in Execution, ClaimRequest(x)
    PROVE  AttemptInv'
  <1> DEFINE n == x[1]
  <1>1. n \in Stage
    BY ExecutionStage
  <1> HIDE DEF n
  <1>2. /\ journal' = [journal EXCEPT ![n] = [status |-> "sending", lease |-> node[n].lease, units |-> 1]]
        /\ exec' = [exec EXCEPT ![x] = [Gone EXCEPT !.at = "send"]]
        /\ journal[n].status = "none" /\ goal \in {"workspace_bound", "running"}
        /\ UNCHANGED <<grant, goal, closer, seal, stops, node, sent>>
    BY DEF ClaimRequest, Claiming, GoOn, MayClaim, Unclaimed, Executable, Work, n
  <1>3. /\ [status |-> "sending", lease |-> node[n].lease, units |-> 1] \in Entries
        /\ [Gone EXCEPT !.at = "send"] \in Execs /\ [Gone EXCEPT !.at = "send"].at = "send"
    <2>1. node[n].lease \in 0 .. MaxLeases
      BY <1>1 DEF AttemptInv, AttemptTypes, Nodes
    <2> QED
      BY <2>1, GoOnType DEF Entries, Places
  <1>4. /\ journal \in [Stage -> Entries] /\ exec \in [Execution -> Execs]
        /\ journal' \in [Stage -> Entries] /\ exec' \in [Execution -> Execs]
        /\ journal'[n].status = "sending" /\ exec'[x].at = "send"
        /\ \A m \in Stage : m # n => journal'[m] = journal[m]
        /\ \A y \in Execution : y # x => exec'[y] = exec[y]
    BY <1>1, <1>2, <1>3 DEF AttemptInv, AttemptTypes
  <1>5. AttemptTypes'
    BY <1>2, <1>4 DEF AttemptInv, AttemptTypes
  <1>6. FlyInv'
    <2>1. \A y \in Execution : y[1] = n /\ y # x => ~ Flying(y)'
      BY <1>2, <1>4 DEF AttemptInv, FlyInv, Flying
    <2>2. \A y \in Execution : y[1] \in Stage
      BY ExecutionStage
    <2>3. \A y \in Execution : Flying(y)' => journal'[y[1]].status = "sending"
      BY <1>4, <2>1, <2>2 DEF AttemptInv, FlyInv, Flying, n
    <2>4. \A y \in Execution : exec'[y].at = "send" => sent'[y[1]] = 0
      BY <1>1, <1>2, <1>4 DEF AttemptInv, FlyInv, n
    <2>5. \A y, z \in Execution : Flying(y)' /\ Flying(z)' /\ y[1] = z[1] => y = z
      <3> SUFFICES ASSUME NEW y \in Execution, NEW z \in Execution, Flying(y)', Flying(z)', y[1] = z[1]
                   PROVE  y = z
        OBVIOUS
      <3>1. CASE y[1] = n
        BY <2>1, <3>1
      <3>2. CASE y[1] # n
        BY <1>4, <3>2 DEF AttemptInv, FlyInv, Flying, n
      <3> QED
        BY <3>1, <3>2
    <2>6. /\ \A m \in Stage : journal'[m].status = "none" => sent'[m] = 0
          /\ \A y \in Execution : exec'[y].at = "answer" => exec'[y].answer # "none"
      BY <1>2, <1>4 DEF AttemptInv, FlyInv
    <2> QED
      BY <1>2, <2>3, <2>4, <2>5, <2>6 DEF AttemptInv, FlyInv, SentOnce
  <1>7. CloseInv'
    <2>1. ~ Over
      BY <1>2 DEF Over
    <2> QED
      BY <1>2, <2>1 DEF AttemptInv, CloseInv, Tells, Over, Quiet
  <1>8. GrantInv'
    <2>1. grant.confirmer = Nobody
      BY <1>1, <1>2 DEF AttemptInv, GrantInv
    <2> QED
      BY <1>2, <2>1 DEF AttemptInv, GrantInv, DutiesAreSeparate
  <1> QED
    BY <1>5, <1>6, <1>7, <1>8 DEF AttemptInv

\* The provider receives the one request of the stage.
LEMMA SendKeeps ==
    ASSUME AttemptInv, NEW x \in Execution, Send(x)
    PROVE  AttemptInv'
  <1> DEFINE n == x[1]
  <1>1. n \in Stage
    BY ExecutionStage
  <1> HIDE DEF n
  <1>2. PICK a \in {"response", "pre_send", "known", "unknown"}, u \in 0 .. 2 :
          /\ exec' = [exec EXCEPT ![x] = [at |-> "answer", answer |-> a, used |-> u]]
          /\ sent' = [sent EXCEPT ![n] = IF a = "pre_send" THEN @ ELSE @ + 1]
    <2>1. PICK a \in {"response", "pre_send", "known", "unknown"} :
            \E u \in IF a = "response" THEN 1 .. 2 ELSE {0} :
              /\ exec' = [exec EXCEPT ![x] = [at |-> "answer", answer |-> a, used |-> u]]
              /\ sent' = [sent EXCEPT ![x[1]] = IF a = "pre_send" THEN @ ELSE @ + 1]
      BY DEF Send
    <2>2. PICK u \in IF a = "response" THEN 1 .. 2 ELSE {0} :
            /\ exec' = [exec EXCEPT ![x] = [at |-> "answer", answer |-> a, used |-> u]]
            /\ sent' = [sent EXCEPT ![x[1]] = IF a = "pre_send" THEN @ ELSE @ + 1]
      BY <2>1
    <2>3. u \in 0 .. 2
      BY <2>2
    <2> QED
      BY <2>2, <2>3 DEF n
  <1>3. exec[x].at = "send" /\ UNCHANGED <<grant, goal, closer, seal, stops, node, journal>>
    BY DEF Send, Work
  <1>4. [at |-> "answer", answer |-> a, used |-> u] \in Execs
    BY DEF Execs, Places
  <1>5. /\ exec \in [Execution -> Execs] /\ sent \in [Stage -> Nat]
        /\ exec' \in [Execution -> Execs] /\ sent' \in [Stage -> Nat]
        /\ exec'[x].at = "answer" /\ exec'[x].answer # "none" /\ sent'[n] \in {sent[n], sent[n] + 1}
        /\ \A m \in Stage : m # n => sent'[m] = sent[m]
        /\ \A y \in Execution : y # x => exec'[y] = exec[y]
    BY <1>1, <1>2, <1>4 DEF AttemptInv, AttemptTypes
  <1>6. AttemptTypes'
    BY <1>3, <1>5 DEF AttemptInv, AttemptTypes
  <1>7. sent[n] = 0 /\ journal[n].status = "sending"
    BY <1>3 DEF AttemptInv, FlyInv, Flying, n
  <1>8. FlyInv'
    <2>1. \A y \in Execution : Flying(y)' <=> Flying(y)
      BY <1>3, <1>5 DEF Flying
    <2>2. \A y \in Execution : y # x /\ Flying(y) => y[1] # n
      BY <1>3 DEF AttemptInv, FlyInv, Flying, n
    <2>3. \A y \in Execution : exec'[y].at = "send" => sent'[y[1]] = 0
      <3> SUFFICES ASSUME NEW y \in Execution, exec'[y].at = "send"
                   PROVE  sent'[y[1]] = 0
        OBVIOUS
      <3>1. y # x /\ exec[y].at = "send" /\ y[1] # n /\ y[1] \in Stage
        BY <1>5, <2>2, ExecutionStage DEF Flying
      <3> QED
        BY <1>5, <3>1 DEF AttemptInv, FlyInv
    <2>4. \A m \in Stage : journal'[m].status = "none" => sent'[m] = 0
      BY <1>3, <1>5, <1>7 DEF AttemptInv, FlyInv
    <2>5. SentOnce'
      BY <1>5, <1>7 DEF AttemptInv, FlyInv, SentOnce
    <2>6. /\ \A y \in Execution : Flying(y)' => journal'[y[1]].status = "sending"
          /\ \A y, z \in Execution : Flying(y)' /\ Flying(z)' /\ y[1] = z[1] => y = z
          /\ \A y \in Execution : exec'[y].at = "answer" => exec'[y].answer # "none"
      BY <1>3, <1>5, <2>1 DEF AttemptInv, FlyInv
    <2> QED
      BY <2>3, <2>4, <2>5, <2>6 DEF FlyInv
  <1>9. CloseInv' /\ GrantInv'
    BY <1>3 DEF AttemptInv, CloseInv, Tells, Over, Quiet, GrantInv, DutiesAreSeparate
  <1> QED
    BY <1>6, <1>8, <1>9 DEF AttemptInv

\* What the answer makes of a claim.
LEMMA ReconciledType ==
    ASSUME NEW e \in Entries, NEW a \in {"response", "pre_send", "known", "unknown"}, NEW u \in 0 .. 2,
           NEW q, q = Reconciled(e, a, u)
    PROVE  q \in Entries /\ q.status \notin {"none", "sending"}
  <1>1. CASE a = "response"
    <2>1. q = [status |-> "succeeded", lease |-> e.lease, units |-> u]
      BY <1>1, Zenon DEF Reconciled, Entries
    <2> QED
      BY <2>1 DEF Entries
  <1>2. CASE a = "pre_send"
    <2>1. q = [e EXCEPT !.status = "failed_before_send", !.units = 0]
      BY <1>2 DEF Reconciled
    <2>2. q = [status |-> "failed_before_send", lease |-> e.lease, units |-> 0]
      BY <2>1, Zenon DEF Entries
    <2> QED
      BY <2>2 DEF Entries
  <1>3. CASE a = "known"
    <2>1. q = [e EXCEPT !.status = "failed_known_outcome", !.units = 0]
      BY <1>3 DEF Reconciled
    <2>2. q = [status |-> "failed_known_outcome", lease |-> e.lease, units |-> 0]
      BY <2>1, Zenon DEF Entries
    <2> QED
      BY <2>2 DEF Entries
  <1>4. CASE a = "unknown"
    BY <1>4 DEF Reconciled, Entries
  <1> QED
    BY <1>1, <1>2, <1>3, <1>4

\* The answer is reconciled with the claim, or refused because the attempt is over.
LEMMA ReconcileKeeps ==
    ASSUME AttemptInv, NEW x \in Execution, Reconcile(x)
    PROVE  AttemptInv'
  <1> DEFINE n == x[1]
  <1>1. n \in Stage
    BY ExecutionStage
  <1> HIDE DEF n
  <1>2. /\ journal \in [Stage -> Entries] /\ exec \in [Execution -> Execs] /\ node \in [Stage -> Nodes]
        /\ exec[x].at = "answer"
        /\ UNCHANGED <<grant, goal, closer, seal, stops, node, sent>>
    BY DEF AttemptInv, AttemptTypes, Reconcile, Work
  <1>3. CASE ~ (grant.attempt = "admitted" /\ journal[n].status = "sending")
    <2>1. exec' = [exec EXCEPT ![x] = [Gone EXCEPT !.at = "failed"]] /\ UNCHANGED journal
      BY <1>3 DEF Reconcile, GoOn, n
    <2>2. /\ [Gone EXCEPT !.at = "failed"] \in Execs
          /\ [Gone EXCEPT !.at = "failed"].at \notin {"send", "answer"}
      BY GoOnType DEF Places
    <2> QED
      BY <1>2, <2>1, <2>2, WorkKeeps
  <1>4. CASE grant.attempt = "admitted" /\ journal[n].status = "sending"
    <2>1. /\ exec[x].answer \in {"response", "pre_send", "known", "unknown"} /\ exec[x].used \in 0 .. 2
      BY <1>2 DEF AttemptInv, FlyInv, Execs
    <2>2. journal' = [journal EXCEPT ![n] = Reconciled(@, exec[x].answer, exec[x].used)]
      BY <1>4 DEF Reconcile, n
    <2>3. PICK step \in {"apply", "done", "claim", "failed"} :
            exec' = [exec EXCEPT ![x] = [Gone EXCEPT !.at = step]]
      BY <1>4, <2>1 DEF Reconcile, GoOn, n
    <2>4. /\ [Gone EXCEPT !.at = step] \in Execs
          /\ [Gone EXCEPT !.at = step].at = step
      BY GoOnType DEF Places
    <2>5. /\ Reconciled(journal[n], exec[x].answer, exec[x].used) \in Entries
          /\ Reconciled(journal[n], exec[x].answer, exec[x].used).status \notin {"none", "sending"}
      BY <1>1, <1>2, <2>1, ReconciledType
    <2>6. /\ journal' \in [Stage -> Entries] /\ exec' \in [Execution -> Execs]
          /\ journal'[n].status \notin {"none", "sending"} /\ exec'[x].at \notin {"send", "answer"}
          /\ \A m \in Stage : m # n => journal'[m] = journal[m]
          /\ \A y \in Execution : y # x => exec'[y] = exec[y]
      BY <1>1, <1>2, <2>2, <2>3, <2>4, <2>5
    <2>7. AttemptTypes'
      BY <1>2, <2>6 DEF AttemptInv, AttemptTypes
    <2>8. \A y \in Execution : Flying(y)' => Flying(y) /\ y[1] # n /\ y[1] \in Stage /\ exec'[y] = exec[y]
      <3> SUFFICES ASSUME NEW y \in Execution, Flying(y)'
                   PROVE  Flying(y) /\ y[1] # n /\ y[1] \in Stage /\ exec'[y] = exec[y]
        OBVIOUS
      <3>1. y # x /\ Flying(y) /\ Flying(x) /\ exec'[y] = exec[y]
        BY <1>2, <2>6 DEF Flying
      <3> QED
        BY <3>1, ExecutionStage DEF AttemptInv, FlyInv, n
    <2>9. FlyInv'
      <3>1. /\ \A y \in Execution : Flying(y)' => journal'[y[1]].status = "sending"
            /\ \A y, z \in Execution : Flying(y)' /\ Flying(z)' /\ y[1] = z[1] => y = z
        BY <2>6, <2>8 DEF AttemptInv, FlyInv
      <3>2. /\ \A y \in Execution : exec'[y].at = "answer" => exec'[y].answer # "none"
            /\ \A y \in Execution : exec'[y].at = "send" => sent'[y[1]] = 0
        BY <1>2, <2>6 DEF AttemptInv, FlyInv
      <3>3. \A m \in Stage : journal'[m].status = "none" => sent'[m] = 0
        BY <1>2, <2>6 DEF AttemptInv, FlyInv
      <3> QED
        BY <1>2, <3>1, <3>2, <3>3 DEF AttemptInv, FlyInv, SentOnce
    <2>10. ~ Quiet /\ grant.confirmer = Nobody
      BY <1>1, <1>4 DEF Quiet, AttemptInv, GrantInv
    <2>11. CloseInv'
      BY <1>2, <2>10 DEF AttemptInv, CloseInv, Tells, Over
    <2>12. GrantInv'
      BY <1>2, <2>10 DEF AttemptInv, GrantInv, DutiesAreSeparate
    <2> QED
      BY <2>7, <2>9, <2>11, <2>12 DEF AttemptInv
  <1> QED
    BY <1>3, <1>4

-----------------------------------------------------------------------------
(* The calls that close the attempt. *)

\* A closing call that notes something, or nothing, about itself.
LEMMA CloserKeeps ==
    ASSUME AttemptInv, NEW c \in Closer, NEW r \in Closers, closer' = [closer EXCEPT ![c] = r],
           Closing, stops' \in 0 .. MaxStops, seal' \in Classes, grant' \in Grants8,
           GrantInv', Tells(seal'), seal' # "none" <=> grant'.attempt = "closed",
           grant.status # "active" => grant'.status # "active",
           grant.attempt # "none" => grant'.attempt # "none",
           grant'.confirmer = grant.confirmer,
           r.at = "cleaning" =>
              /\ r.class # "none" /\ Tells(r.class)
              /\ r.kind \in {"failure", "success"} => Over
              /\ r.kind = "revoked" => grant'.status # "active"
              /\ r.kind # "none" /\ grant'.attempt # "none"
    PROVE  AttemptInv'
  <1>1. UNCHANGED <<goal, node, journal, sent, exec>>
    BY DEF Closing
  <1>2. AttemptTypes'
    BY <1>1 DEF AttemptInv, AttemptTypes
  <1>3. FlyInv'
    BY <1>1 DEF AttemptInv, FlyInv, Flying, SentOnce
  <1>4. CloseInv'
    <2>1. closer \in [Closer -> Closers] /\ CloseInv
      BY DEF AttemptInv, AttemptTypes
    <2>2. \A class \in Classes : Tells(class) => Tells(class)'
      BY <1>1 DEF Tells, Over, Quiet
    <2>3. Tells(seal)'
      BY <1>1 DEF Tells, Over, Quiet
    <2>4. ASSUME NEW d \in Closer, closer'[d].at = "cleaning"
          PROVE  /\ closer'[d].class # "none" /\ Tells(closer'[d].class)
                 /\ closer'[d].kind \in {"failure", "success"} => Over
                 /\ closer'[d].kind = "revoked" => grant'.status # "active"
                 /\ closer'[d].kind # "none" /\ grant'.attempt # "none"
      <3>1. CASE d = c
        BY <2>1, <2>4, <3>1
      <3>2. CASE d # c
        BY <2>1, <2>4, <3>2 DEF CloseInv
      <3> QED
        BY <3>1, <3>2
    <2> QED
      BY <1>1, <2>3, <2>4 DEF CloseInv, Tells, Over, Quiet
  <1> QED
    BY <1>2, <1>3, <1>4 DEF AttemptInv

\* The row as a call leaves it that does not write the receipt.
LEMMA RowUntouched ==
    ASSUME AttemptInv, UNCHANGED <<grant, seal>>, Closing
    PROVE  /\ seal' \in Classes /\ grant' \in Grants8 /\ GrantInv' /\ Tells(seal')
           /\ seal' # "none" <=> grant'.attempt = "closed"
  BY DEF AttemptInv, AttemptTypes, GrantInv, CloseInv, DutiesAreSeparate, Closing

\* Closing, whoever closes and wherever a call stops.
LEMMA ClosingKeeps ==
    ASSUME AttemptInv, NEW c \in Closer,
           CloseFailure(c) \/ CloseSuccess(c) \/ Revoke(c) \/ CloserStep(c) \/ CloserStops(c)
    PROVE  AttemptInv'
  <1>1. /\ grant \in Grants8 /\ closer \in [Closer -> Closers] /\ stops \in 0 .. MaxStops
        /\ CloseInv /\ GrantInv
    BY DEF AttemptInv, AttemptTypes
  <1>2. NoClose \in Closers /\ NoClose.at = "idle"
    BY DEF NoClose, Closers, Classes
  <1>3. CASE CloseFailure(c)
    <2> DEFINE r == [at |-> "cleaning", kind |-> "failure", class |-> FailureClass, over |-> Units > Ceiling]
    <2>1. /\ closer' = [closer EXCEPT ![c] = r] /\ UNCHANGED <<grant, seal, stops>> /\ Closing
          /\ goal \in Failures /\ grant.attempt = "admitted"
      BY <1>3 DEF CloseFailure, Begin
    <2>2. FailureClass \in {"outcome_unknown", "cancelled", "failed"}
      BY DEF FailureClass
    <2>3. r \in Closers
      BY <2>2 DEF Closers, Classes
    <2>4. Over
      BY <2>1 DEF Over, Failures
    <2>5. FailureClass \in {"failed", "cancelled"} => Quiet
      BY DEF FailureClass, Quiet
    <2>6. Tells(FailureClass)
      BY <2>2, <2>4, <2>5 DEF Tells
    <2>7. r.at = "cleaning" /\ r.kind = "failure" /\ r.class = FailureClass
      OBVIOUS
    <2> HIDE DEF r
    <2> QED
      BY <1>1, <2>1, <2>2, <2>3, <2>4, <2>6, <2>7, RowUntouched, CloserKeeps
  <1>4. CASE CloseSuccess(c)
    <2> DEFINE r == [at |-> "cleaning", kind |-> "success", class |-> "succeeded", over |-> Units > Ceiling]
    <2>1. /\ closer' = [closer EXCEPT ![c] = r] /\ UNCHANGED <<grant, seal, stops>> /\ Closing
          /\ goal = "completed" /\ grant.confirmer # Nobody /\ grant.attempt # "none"
      BY <1>4 DEF CloseSuccess, Begin
    <2>2. r \in Closers
      BY DEF Closers, Classes
    <2>3. Over /\ Tells("succeeded")
      BY <2>1 DEF Over, Tells
    <2>4. r.at = "cleaning" /\ r.kind = "success" /\ r.class = "succeeded"
      OBVIOUS
    <2> HIDE DEF r
    <2> QED
      BY <1>1, <2>1, <2>2, <2>3, <2>4, RowUntouched, CloserKeeps
  <1>5. CASE Revoke(c)
    <2> DEFINE r == [NoClose EXCEPT !.at = "revoked"]
    <2>1. /\ closer' = [closer EXCEPT ![c] = r] /\ UNCHANGED <<seal, stops>> /\ Closing
          /\ grant' = [grant EXCEPT !.status = "revoked", !.spend = "revoked"]
      BY <1>5 DEF Revoke
    <2>2. r \in Closers /\ r.at = "revoked"
      BY DEF NoClose, Closers, Classes
    <2>3. /\ grant' \in Grants8
          /\ grant' = [status |-> "revoked", proposed |-> grant.proposed, approved |-> grant.approved,
                       spend |-> "revoked", attempt |-> grant.attempt, approver |-> grant.approver,
                       activator |-> grant.activator, confirmer |-> grant.confirmer]
      BY <1>1, <2>1, RevokeFields
    <2>4. /\ grant'.status = "revoked" /\ grant'.attempt = grant.attempt
          /\ grant'.confirmer = grant.confirmer
      BY <2>3
    <2>5. GrantInv'
      <3>1. journal' = journal
        BY <2>1 DEF Closing
      <3> QED
        BY <1>1, <2>3, <3>1 DEF GrantInv, DutiesAreSeparate
    <2>6. seal' \in Classes /\ Tells(seal') /\ (seal' # "none" <=> grant'.attempt = "closed")
      BY <1>1, <2>1, <2>4 DEF CloseInv, AttemptInv, AttemptTypes
    <2> HIDE DEF r
    <2> QED
      BY <1>1, <2>1, <2>2, <2>3, <2>4, <2>5, <2>6, CloserKeeps
  <1>6. CASE CloseRevoked(c)
    <2> DEFINE r == IF grant.status = "revoked" /\ grant.attempt = "admitted"
                    THEN [at |-> "cleaning", kind |-> "revoked", class |-> "revoked", over |-> Units > Ceiling]
                    ELSE NoClose
    <2>1. closer' = [closer EXCEPT ![c] = r] /\ UNCHANGED <<grant, seal, stops>> /\ Closing
      BY <1>6 DEF CloseRevoked
    <2>2. r \in Closers
      BY <1>2 DEF Closers, Classes
    <2>3. r.at = "cleaning" => /\ r.kind = "revoked" /\ r.class = "revoked"
                               /\ grant.status = "revoked" /\ grant.attempt = "admitted"
      BY <1>2
    <2>4. Tells("revoked")
      BY DEF Tells
    <2> HIDE DEF r
    <2> QED
      BY <1>1, <2>1, <2>2, <2>3, <2>4, RowUntouched, CloserKeeps
  <1>7. ASSUME NEW s \in {"revoked", "expired"}, NEW ok \in BOOLEAN, Sealing(c, ok, s)
        PROVE  AttemptInv'
    <2>1. closer' = [closer EXCEPT ![c] = NoClose] /\ stops' = stops /\ Closing /\ closer[c].at = "cleaning"
      BY <1>7 DEF Sealing
    <2>2. CASE ~ ok
      <3>1. UNCHANGED <<grant, seal>>
        BY <1>7, <2>2 DEF Sealing
      <3> QED
        BY <1>1, <1>2, <2>1, <3>1, RowUntouched, CloserKeeps
    <2>3. CASE ok
      <3>1. /\ seal' = closer[c].class
            /\ grant' = [grant EXCEPT !.status = s, !.spend = s, !.attempt = "closed"]
        BY <1>7, <2>3 DEF Sealing
      <3>2. /\ grant' \in Grants8
            /\ grant' = [status |-> s, proposed |-> grant.proposed, approved |-> grant.approved,
                         spend |-> s, attempt |-> "closed", approver |-> grant.approver,
                         activator |-> grant.activator, confirmer |-> grant.confirmer]
        BY <1>1, <3>1, SealFields
      <3>3. /\ grant'.status = s /\ grant'.attempt = "closed" /\ grant'.confirmer = grant.confirmer
            /\ grant'.spend = s /\ grant'.approved = grant.approved /\ grant'.proposed = grant.proposed
            /\ grant'.activator = grant.activator /\ grant'.approver = grant.approver
        BY <3>2
      <3>4. seal' \in Classes /\ seal' # "none" /\ Tells(seal') /\ grant.attempt # "none"
        BY <1>1, <2>1, <3>1 DEF CloseInv, Closers
      <3>5. GrantInv'
        <4>1. journal' = journal
          BY <2>1 DEF Closing
        <4> QED
          BY <1>1, <3>3, <3>4, <4>1 DEF GrantInv, DutiesAreSeparate
      <3> QED
        BY <1>1, <1>2, <2>1, <3>2, <3>3, <3>4, <3>5, CloserKeeps
    <2> QED
      BY <2>2, <2>3
  <1>8. CASE CompleteAttempt(c)
    <2>1. (IF grant.status = "revoked" THEN "revoked" ELSE "expired") \in {"revoked", "expired"}
          /\ (seal = "none" /\ ~ closer[c].over) \in BOOLEAN
      OBVIOUS
    <2> QED
      BY <1>7, <1>8, <2>1 DEF CompleteAttempt
  <1>9. CASE SealRevoked(c)
    <2>1. (grant.status = "revoked" /\ grant.attempt = "admitted") \in BOOLEAN
      OBVIOUS
    <2> QED
      BY <1>7, <1>9, <2>1 DEF SealRevoked
  <1>10. CASE CloserStops(c)
    <2>1. /\ closer' = [closer EXCEPT ![c] = NoClose] /\ UNCHANGED <<grant, seal>> /\ Closing
          /\ stops' \in 0 .. MaxStops
      BY <1>1, <1>10, AttemptAssumption DEF CloserStops
    <2> QED
      BY <1>1, <1>2, <2>1, RowUntouched, CloserKeeps
  <1> QED
    BY <1>3, <1>4, <1>5, <1>6, <1>8, <1>9, <1>10 DEF CloserStep

\* A step that changes none of it.
LEMMA AttemptStutters ==
    ASSUME AttemptInv, UNCHANGED <<grant, goal, node, journal, sent, exec, closer, seal, stops>>
    PROVE  AttemptInv'
  <1>1. AttemptTypes'
    BY DEF AttemptInv, AttemptTypes
  <1>2. FlyInv' /\ CloseInv' /\ GrantInv'
    BY DEF AttemptInv, FlyInv, Flying, SentOnce, CloseInv, Tells, Over, Quiet, GrantInv,
       DutiesAreSeparate
  <1> QED
    BY <1>1, <1>2 DEF AttemptInv

\* The invariant, for any number of stages, leases, closing calls and principals.
THEOREM AttemptInvariance == AttemptSpec => []AttemptInv
  <1>1. AttemptInit => AttemptInv
    BY AttemptStarts
  <1>2. AttemptInv /\ [AttemptNext]_avars => AttemptInv'
    <2> SUFFICES ASSUME AttemptInv, [AttemptNext]_avars PROVE AttemptInv'
      OBVIOUS
    <2>1. CASE Lapse \/ UNCHANGED avars
      BY <2>1, AttemptStutters DEF Lapse, avars
    <2>2. CASE \/ \E p \in Reviewer : Rebind(p) \/ Approve(p) \/ IssueSpend(p)
               \/ \E p \in Executor : AdmitAttempt(p)
               \/ \E p \in Confirmer : ConfirmArtifact(p)
               \/ Propose
      <3>1. Grants
        BY <2>2 DEF Rebind, Approve, IssueSpend, AdmitAttempt, ConfirmArtifact, Propose
      <3> QED
        BY <2>2, <3>1, GrantKeeps
    <2>3. CASE Activate \/ Finalize \/ KillTask \/ Deliver
      BY <2>3, TaskKeeps
    <2>4. CASE \E n \in Stage : LeaseStage(n) \/ DirectStage(n) \/ RecoverLease(n)
      BY <2>4, WorkerKeeps
    <2>5. ASSUME NEW x \in Execution,
                 \/ ClaimRequest(x) \/ ClaimRefused(x) \/ Send(x) \/ Reconcile(x)
                 \/ ApplyAction(x) \/ ApplyRefused(x) \/ SettleStage(x) \/ WorkerDies(x)
          PROVE  AttemptInv'
      BY <2>5, WorkerKeeps, ClaimKeeps, SendKeeps, ReconcileKeeps
    <2>6. ASSUME NEW c \in Closer,
                 CloseFailure(c) \/ CloseSuccess(c) \/ Revoke(c) \/ CloserStep(c) \/ CloserStops(c)
          PROVE  AttemptInv'
      BY <2>6, ClosingKeeps
    <2> QED
      BY <2>1, <2>2, <2>3, <2>4, <2>5, <2>6 DEF AttemptNext
  <1> QED
    BY <1>1, <1>2, PTL DEF AttemptSpec

\* claim, send and reconcile against lost leases, dead workers, retries and late answers:
\* a stage's request is sent once, a receipt tells what happened although the row was read
\* before the cleanup, and approving, running and confirming are three principals.
THEOREM StageSoundness == AttemptSpec => []StageIsSound
  <1>1. AttemptInv => StageIsSound
    <2> SUFFICES ASSUME AttemptInv PROVE StageIsSound
      OBVIOUS
    <2>1. AttemptTypeOK
      <3>1. \A n \in Stage : journal[n].units \in 0 .. 2
        BY DEF AttemptInv, AttemptTypes, Entries
      <3> QED
        BY <3>1 DEF AttemptInv, AttemptTypes, AttemptTypeOK, Grants8, Nodes, Classes
    <2>2. SealIsSound
      <3>1. ASSUME seal \in {"failed", "cancelled"}, NEW n \in Stage
            PROVE  journal[n].status \notin {"sending", "outcome_unknown"} /\ ~ InFlight(n)
        BY <3>1 DEF AttemptInv, CloseInv, Tells, Quiet, FlyInv, Flying, InFlight
      <3> QED
        BY <3>1 DEF AttemptInv, CloseInv, Tells, GrantInv, SealIsSound
    <2> QED
      BY <2>1, <2>2 DEF AttemptInv, FlyInv, GrantInv, StageIsSound
  <1> QED
    BY <1>1, AttemptInvariance, PTL

\* complete_delegated_attempt and the revocation race for the receipt: whoever closes
\* first, receipt, closed attempt and status stay as written; and no action is written to
\* the workspace once a call has begun to clean it up.
THEOREM AttemptFinal == AttemptSpec => AttemptIsFinal
  <1>1. AttemptInv /\ [AttemptNext]_avars =>
            [seal # "none" => seal' = seal /\ grant'.attempt = "closed" /\ grant'.status = grant.status]_avars
    <2> SUFFICES ASSUME AttemptInv, AttemptNext, seal # "none"
                 PROVE  seal' = seal /\ grant'.attempt = "closed" /\ grant'.status = grant.status
      OBVIOUS
    <2>1. grant.attempt = "closed" /\ grant \in Grants8
      BY DEF AttemptInv, CloseInv, AttemptTypes
    <2>2. CASE UNCHANGED <<grant, seal>>
      BY <2>1, <2>2
    <2>3. ASSUME NEW p \in Reviewer, Rebind(p) \/ Approve(p) \/ IssueSpend(p)
          PROVE  seal' = seal /\ grant'.attempt = grant.attempt /\ grant'.status = grant.status
      BY <2>1, <2>3 DEF Rebind, Approve, IssueSpend, Grants, Grants8
    <2>4. ASSUME \/ \E p \in Executor : AdmitAttempt(p)
                 \/ \E p \in Confirmer : ConfirmArtifact(p)
                 \/ \E c \in Closer : Revoke(c)
          PROVE  FALSE
      BY <2>1, <2>4 DEF AdmitAttempt, ConfirmArtifact, Revoke
    <2>5. ASSUME Propose
          PROVE  seal' = seal /\ grant'.attempt = grant.attempt /\ grant'.status = grant.status
      BY <2>1, <2>5 DEF Propose, Grants, Grants8
    <2>6. ASSUME NEW c \in Closer, CloseFailure(c) \/ CloseSuccess(c) \/ CloserStep(c) \/ CloserStops(c)
          PROVE  UNCHANGED <<grant, seal>>
      BY <2>1, <2>6 DEF CloseFailure, CloseSuccess, Begin, CloserStep, CloseRevoked, CompleteAttempt,
         SealRevoked, Sealing, CloserStops
    <2>7. ASSUME NEW n \in Stage, LeaseStage(n) \/ DirectStage(n) \/ RecoverLease(n)
          PROVE  UNCHANGED <<grant, seal>>
      BY <2>7 DEF LeaseStage, DirectStage, RecoverLease, Work
    <2>8. ASSUME NEW x \in Execution,
                 \/ ClaimRequest(x) \/ ClaimRefused(x) \/ Send(x) \/ Reconcile(x)
                 \/ ApplyAction(x) \/ ApplyRefused(x) \/ SettleStage(x) \/ WorkerDies(x)
          PROVE  UNCHANGED <<grant, seal>>
      BY <2>8 DEF ClaimRequest, Claiming, ClaimRefused, Send, Reconcile, ApplyAction, Writing,
         ApplyRefused, SettleStage, WorkerDies, Work
    <2>9. ASSUME Lapse \/ Activate \/ Finalize \/ KillTask \/ Deliver
          PROVE  UNCHANGED <<grant, seal>>
      BY <2>9 DEF Lapse, Activate, Finalize, KillTask, Deliver, TaskBecomes
    <2> QED
      BY <2>1, <2>2, <2>3, <2>4, <2>5, <2>6, <2>7, <2>8, <2>9 DEF AttemptNext
  <1>2. AttemptInv /\ [AttemptNext]_avars =>
            [wrote' # wrote => \A c \in Closer : closer[c].at # "cleaning"]_avars
    <2> SUFFICES ASSUME AttemptInv, AttemptNext, wrote' # wrote, NEW c \in Closer,
                        closer[c].at = "cleaning"
                 PROVE  FALSE
      OBVIOUS
    <2>1. ASSUME NEW x \in Execution, ApplyAction(x)
          PROVE  FALSE
      <3>1. grant.status = "active" /\ goal \in {"workspace_bound", "running"}
        BY <2>1 DEF ApplyAction, Admitted, Active, Applicable, Executable
      <3>2. closer[c].kind \in {"failure", "success", "revoked"}
        BY DEF AttemptInv, CloseInv, AttemptTypes, Closers
      <3> QED
        BY <3>1, <3>2 DEF AttemptInv, CloseInv, Over
    <2>2. ASSUME ~ \E x \in Execution : ApplyAction(x)
          PROVE  wrote' = wrote
      BY <2>2 DEF AttemptNext, Rebind, Approve, IssueSpend, AdmitAttempt, ConfirmArtifact, Propose,
         Grants, Lapse, Activate, Finalize, KillTask, Deliver, TaskBecomes, LeaseStage, DirectStage,
         RecoverLease,
         Work, ClaimRequest, Claiming, ClaimRefused, Send, Reconcile, ApplyRefused, SettleStage,
         WorkerDies, CloseFailure, CloseSuccess, Begin, Revoke, CloserStep, CloseRevoked,
         CompleteAttempt, SealRevoked, Sealing, CloserStops, Closing
    <2> QED
      BY <2>1, <2>2
  <1> QED
    BY <1>1, <1>2, AttemptInvariance, PTL DEF AttemptSpec, AttemptIsFinal, SealedForGood,
       WritesBeforeCleanup
=============================================================================
