----------------------------- MODULE EventStream -----------------------------
(***************************************************************************)
(* What an ordered event ingress promises to its users, with no queue,     *)
(* lock, worker or timer in it.  Offers are accepted one after the other   *)
(* and then emitted.  A durable event is emitted alone.  The updates of    *)
(* one coalescing key may be emitted merged.  No emission may overtake an  *)
(* earlier durable event or an earlier update of the same key, and a       *)
(* durable event overtakes nothing at all.                                 *)
(***************************************************************************)
EXTENDS Naturals, Sequences

CONSTANTS
    Keys,       \* the coalescing keys
    Durable     \* the class of the events that are never merged

VARIABLES
    log,        \* the class of each accepted offer, in acceptance order
    emitted     \* the emissions so far: each one is the set of offers it carries

vars == <<log, emitted>>

Class == Keys \cup {Durable}

\* The accepted offers some emission already carries.
Emitted == UNION {emitted[e] : e \in DOMAIN emitted}

\* The accepted offers no emission carries yet.
Waiting == DOMAIN log \ Emitted

Init ==
    /\ log = << >>
    /\ emitted = << >>

Accept(c) ==
    /\ log' = Append(log, c)
    /\ UNCHANGED emitted

\* A durable event goes out alone, after everything accepted before it.
EmitDurable(s) ==
    /\ log[s] = Durable
    /\ \A t \in Waiting : s <= t
    /\ emitted' = Append(emitted, {s})
    /\ UNCHANGED log

\* Some waiting updates of one key go out merged; what stays behind and is
\* older than one of them is an update of another key.
EmitMerged(k, S) ==
    /\ \A s \in S : log[s] = k
    /\ \A s \in S, t \in Waiting \ S : t < s => log[t] \in Keys \ {k}
    /\ emitted' = Append(emitted, S)
    /\ UNCHANGED log

Next ==
    \/ \E c \in Class : Accept(c)
    \/ \E s \in Waiting : EmitDurable(s)
    \/ \E k \in Keys, S \in (SUBSET Waiting) \ {{}} : EmitMerged(k, S)

Spec == Init /\ [][Next]_vars
=============================================================================
