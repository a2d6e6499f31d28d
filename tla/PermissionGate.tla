---------------------------- MODULE PermissionGate ----------------------------
(***************************************************************************)
(* What an agent session promises about permissions, without saying how a  *)
(* question travels to the user and back: a tool call is allowed only in a *)
(* read-only session, or because the user trusts the tool in this session, *)
(* or because the user said yes to the very question the session is        *)
(* waiting for.  Trust comes from the grants the user has stored, when the *)
(* session begins, or from an answer given to this session.                *)
(***************************************************************************)
EXTENDS Integers, Sequences

CONSTANTS Session, Tool

VARIABLES
    begun,      \* the sessions that exist or existed
    readonly,   \* their scope
    granted,    \* the tools the user ever stored an "always allow" for
    trust,      \* trust[s]: tools that s calls without asking
    asked,      \* every question put to the user: its session and its tool
    said,       \* the user's answer to each, "none" before there is one
    open,       \* open[s]: the question s waits for, 0 if there is none
    allowed     \* the calls allowed so far

vars == <<begun, readonly, granted, trust, asked, said, open, allowed>>

Consent == {"once", "session", "always"}
Lasting == {"session", "always"}

Init ==
    /\ begun = {}
    /\ readonly = [s \in Session |-> TRUE]
    /\ granted = {}
    /\ trust = [s \in Session |-> {}]
    /\ asked = <<>>
    /\ said = <<>>
    /\ open = [s \in Session |-> 0]
    /\ allowed = {}

Begin(s) ==
    /\ s \notin begun
    /\ begun' = begun \cup {s}
    /\ \E ro \in BOOLEAN : readonly' = [readonly EXCEPT ![s] = ro]
    /\ \E seed \in SUBSET granted : trust' = [trust EXCEPT ![s] = seed]
    /\ UNCHANGED <<granted, asked, said, open, allowed>>

\* A question that reaches nobody is denied at once: the session does not wait.
Ask(s, t) ==
    /\ s \in begun
    /\ ~readonly[s]
    /\ t \notin trust[s]
    /\ open[s] = 0
    /\ asked' = Append(asked, [by |-> s, tool |-> t])
    /\ said' = Append(said, "none")
    /\ \E waits \in BOOLEAN :
          open' = [open EXCEPT ![s] = IF waits THEN Len(asked) + 1 ELSE 0]
    /\ UNCHANGED <<begun, readonly, granted, trust, allowed>>

Say(q) ==
    /\ said[q] = "none"
    /\ \E answer \in Consent \cup {"deny"} :
          /\ said' = [said EXCEPT ![q] = answer]
          /\ granted' \in {granted, granted \cup
                 (IF answer = "always" THEN {asked[q].tool} ELSE {})}
    /\ UNCHANGED <<begun, readonly, trust, asked, open, allowed>>

Resolve(s) ==
    /\ open[s] # 0
    /\ said[open[s]] # "none"
    /\ LET tool == asked[open[s]].tool
           answer == said[open[s]]
       IN  /\ allowed' = allowed \cup
                 (IF answer \in Consent THEN {<<s, tool>>} ELSE {})
           /\ trust' = [trust EXCEPT ![s] = @ \cup
                 (IF answer \in Lasting THEN {tool} ELSE {})]
    /\ open' = [open EXCEPT ![s] = 0]
    /\ UNCHANGED <<begun, readonly, granted, asked, said>>

Silently(s, t) ==
    /\ s \in begun
    /\ readonly[s] \/ t \in trust[s]
    /\ allowed' = allowed \cup {<<s, t>>}
    /\ UNCHANGED <<begun, readonly, granted, trust, asked, said, open>>

\* The session ends, or loses its agent, while it waits.
Withdraw(s) ==
    /\ open[s] # 0
    /\ open' = [open EXCEPT ![s] = 0]
    /\ UNCHANGED <<begun, readonly, granted, trust, asked, said, allowed>>

Next ==
    \/ \E s \in Session :
          \/ Begin(s) \/ Resolve(s) \/ Withdraw(s)
          \/ \E t \in Tool : Ask(s, t) \/ Silently(s, t)
    \/ \E q \in DOMAIN asked : Say(q)

Spec == Init /\ [][Next]_vars

=============================================================================
