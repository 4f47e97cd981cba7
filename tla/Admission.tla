----------------------------- MODULE Admission ------------------------------
(***************************************************************************)
(* What the control plane promises about invitations: an id is invited     *)
(* once, to one match; whoever takes a seat had an invitation to that very *)
(* match, gives it up, and finds a seat free; and whoever has neither      *)
(* invitation nor seat any more never gets one again.  A match that closes *)
(* takes its invitations and seats along.                                  *)
(***************************************************************************)
EXTENDS Integers, FiniteSets

CONSTANTS Matches, Players, MaxPlayers

VARIABLES
  open,     \* matches one can be invited to
  known,    \* ids that have been invited so far
  invited,  \* who may come to which match, as pairs
  seated    \* [Matches -> SUBSET Players]

admissionVars == <<open, known, invited, seated>>

Init ==
  /\ open = {} /\ known = {} /\ invited = {}
  /\ seated = [m \in Matches |-> {}]

Open(m) ==
  /\ m \notin open
  /\ open' = open \cup {m}
  /\ UNCHANGED <<known, invited, seated>>

Invite(p, m) ==
  /\ m \in open
  /\ p \notin known
  /\ known' = known \cup {p}
  /\ invited' = invited \cup {<<p, m>>}
  /\ UNCHANGED <<open, seated>>

Admit(p, m) ==
  /\ m \in open
  /\ <<p, m>> \in invited
  /\ Cardinality(seated[m]) < MaxPlayers
  /\ invited' = invited \ {<<p, m>>}
  /\ seated' = [seated EXCEPT ![m] = @ \cup {p}]
  /\ UNCHANGED <<open, known>>

\* The invitation has expired, or the match was full when its holder came.
Lapse(p, m) ==
  /\ <<p, m>> \in invited
  /\ invited' = invited \ {<<p, m>>}
  /\ UNCHANGED <<open, known, seated>>

Leave(p, m) ==
  /\ p \in seated[m]
  /\ seated' = [seated EXCEPT ![m] = @ \ {p}]
  /\ UNCHANGED <<open, known, invited>>

Close(S) ==
  /\ open' = open \ S
  /\ invited' = {i \in invited : i[2] \notin S}
  /\ seated' = [m \in Matches |-> IF m \in S THEN {} ELSE seated[m]]
  /\ UNCHANGED known

Next ==
  \/ \E m \in Matches : Open(m)
  \/ \E p \in Players, m \in Matches :
        Invite(p, m) \/ Admit(p, m) \/ Lapse(p, m) \/ Leave(p, m)
  \/ \E S \in SUBSET open : Close(S)

Spec == Init /\ [][Next]_admissionVars

-----------------------------------------------------------------------------
Expected(p) == \E m \in Matches : <<p, m>> \in invited
Seated(p) == \E m \in Matches : p \in seated[m]

\* Who was invited once and has neither invitation nor seat any more (the ticket has
\* expired, the room was full or has closed, the player was removed) gets in nowhere.
OutForGood ==
  [][\A p \in known : ~Expected(p) /\ ~Seated(p)
       => ~Expected(p)' /\ ~Seated(p)']_admissionVars
=============================================================================
