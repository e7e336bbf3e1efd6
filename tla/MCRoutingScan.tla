---------------------------- MODULE MCRoutingScan ----------------------------
(***************************************************************************)
(* Bounded inputs for RoutingScan.                                         *)
(***************************************************************************)
EXTENDS RoutingScan, MCRetryTimes

CONSTANTS a1, a2, a3

MCAccounts == {a1, a2, a3}

MCRequest == [protocol |-> "openai", capabilities |-> {"text"}]

PlainRow(account, priority, limit) ==
    [account |-> account, priority |-> priority, limit |-> limit, enabled |-> TRUE,
     provider |-> "openai", protocols |-> {"openai"}, capabilities |-> {"text", "stream"},
     status |-> "active", credential |-> TRUE, oauth |-> FALSE, expiry |-> NoTime,
     cooldown |-> NoTime, quota |-> NoTime]

\* Rows that differ in what the selection loop compares; one is resting.
SelectionRows ==
    {PlainRow(a, p, l) : a \in MCAccounts, p \in {0, 1}, l \in 1..3}
        \cup {[PlainRow(a, 0, 3) EXCEPT !.cooldown = 2] : a \in MCAccounts}

\* Rows that differ in what the filter reads: one per objection, rows with
\* two objections, boundary times, and the xai alias of the openai protocol.
FilterRows ==
    UNION {
      LET base == PlainRow(a, 0, 1) IN
      { base,
        [base EXCEPT !.enabled = FALSE],
        [base EXCEPT !.protocols = {"gemini"}],
        [base EXCEPT !.protocols = {"xai"}, !.provider = "xai"],
        [base EXCEPT !.status = "reauth_required"],
        [base EXCEPT !.status = "invalid", !.capabilities = {"stream"}],
        [base EXCEPT !.status = "disabled"],
        [base EXCEPT !.credential = FALSE, !.oauth = TRUE],
        [base EXCEPT !.expiry = 1],
        [base EXCEPT !.expiry = 2],
        [base EXCEPT !.expiry = 1, !.oauth = TRUE],
        [base EXCEPT !.quota = 3],
        [base EXCEPT !.quota = 4, !.cooldown = 2],
        [base EXCEPT !.cooldown = 2],
        [base EXCEPT !.cooldown = 4] } : a \in MCAccounts }

MCRows == SelectionRows \cup FilterRows

AccountSymmetry == Permutations(MCAccounts)
=============================================================================
