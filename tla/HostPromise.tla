----------------------------- MODULE HostPromise -----------------------------
(***************************************************************************)
(* What the safe update of a host promises to those who ask for one,       *)
(* without bags, jobs or transactions.  An organization serves its host    *)
(* until the one it is asked to take is set up and free; then it changes   *)
(* over in one step, and nothing is pending any more.  Only another        *)
(* question takes a pending host back.  What else clients keep beside it   *)
(* is replaced by what they store later and by nothing else.               *)
(***************************************************************************)
EXTENDS Naturals

CONSTANTS Org, Host, NoHost,
          FirstHost,   \* FirstHost[o]: the host of o before any request
          Stamp        \* what clients store, the later the greater

VARIABLES serving,     \* serving[o]: the host of o
          asked,       \* asked[o]: the host o was last asked to take
          pending,     \* pending[o]: the host o is to have, or NoHost
          notes,       \* notes[o]: what clients stored last
          ready        \* the hosts that were set up

hostVars == <<serving, asked, pending, notes, ready>>

Init ==
  /\ serving = FirstHost
  /\ asked = FirstHost
  /\ pending = [o \in Org |-> NoHost]
  /\ notes = [o \in Org |-> 0]
  /\ ready \in SUBSET Host

\* Who asks for the host that is served asks for nothing, and takes back what
\* was asked before.
Ask(o, h) ==
  /\ asked' = [asked EXCEPT ![o] = h]
  /\ pending' = [pending EXCEPT ![o] = IF h = serving[o] THEN NoHost ELSE h]
  /\ UNCHANGED <<serving, notes, ready>>

SetUp(h) ==
  /\ ready' = ready \cup {h}
  /\ UNCHANGED <<serving, asked, pending, notes>>

Switch(o) ==
  /\ pending[o] \in ready
  /\ \A p \in Org \ {o} : serving[p] # pending[o]
  /\ serving' = [serving EXCEPT ![o] = pending[o]]
  /\ pending' = [pending EXCEPT ![o] = NoHost]
  /\ UNCHANGED <<asked, notes, ready>>

Store(o, n) ==
  /\ n > notes[o]
  /\ notes' = [notes EXCEPT ![o] = n]
  /\ UNCHANGED <<serving, asked, pending, ready>>

Next ==
  \/ \E h \in Host : SetUp(h)
  \/ \E o \in Org : \/ \E h \in Host : Ask(o, h)
                    \/ \E n \in Stamp : Store(o, n)
                    \/ Switch(o)

Spec == Init /\ [][Next]_hostVars
=============================================================================
