------------------------------ MODULE Registry ------------------------------
(***************************************************************************)
(* What signing in promises.  An identity that has been proved gets one    *)
(* account and keeps it; an account is one identity's.  An account that    *)
(* waits for the identity's email is adopted, not duplicated.  A proved    *)
(* sign-in is turned away only by a conflict: the identity has an account  *)
(* by now, or its email stands on another identity's.  A session is opened *)
(* for the account of the identity proved in that sign-in, and a browser's *)
(* requests act for an account only through a session of its own.          *)
(***************************************************************************)
CONSTANTS Flows, Browsers, Subs, Emails, Waiting, Accounts, Nobody

VARIABLES
    mail,      \* each account's email, Nobody when it has none or is not there
    owner,     \* each identity's account
    proof,     \* who proved to be whom, by what email, from which browser
    standing,  \* of each sign-in: none, open, over or turned away
    caller     \* the browser of the latest request, and the account it acted for

vars == <<mail, owner, proof, standing, caller>>

NoProof == [sub |-> Nobody, email |-> Nobody, browser |-> Nobody]

Init ==
    /\ mail \in [Accounts -> Emails \cup {Nobody}]
    /\ \A a \in Accounts : mail[a] # Nobody => a \in Waiting
    /\ \A a, b \in Waiting : mail[a] = mail[b] /\ mail[a] # Nobody => a = b
    /\ owner = [s \in Subs |-> Nobody]
    /\ proof = [f \in Flows |-> NoProof]
    /\ standing = [f \in Flows |-> "none"]
    /\ caller = [browser |-> Nobody, account |-> Nobody]

Owned(a) == \E s \in Subs : owner[s] = a

Prove(f) ==
    /\ proof[f] = NoProof
    /\ \E s \in Subs, e \in Emails \cup {Nobody}, b \in Browsers :
          proof' = [proof EXCEPT ![f] = [sub |-> s, email |-> e, browser |-> b]]
    /\ UNCHANGED <<mail, owner, standing, caller>>

\* The account that waits for this email, if there is one, and else a new one.
Adopt(f) ==
    LET s == proof[f].sub
        e == proof[f].email
        waiting == {a \in Waiting : e # Nobody /\ mail[a] = e /\ ~Owned(a)}
    IN  /\ s # Nobody /\ owner[s] = Nobody
        /\ \E a \in IF waiting # {} THEN waiting ELSE Accounts \ Waiting :
              /\ ~Owned(a)
              /\ owner' = [owner EXCEPT ![s] = a]
              /\ mail' = [mail EXCEPT ![a] = e]
        /\ \A a, b \in Accounts : mail'[a] = mail'[b] /\ mail'[a] # Nobody => a = b
        /\ UNCHANGED <<proof, standing, caller>>

TurnAway(f) ==
    LET s == proof[f].sub
        e == proof[f].email
    IN  /\ s # Nobody /\ standing[f] = "none"
        /\ \/ owner[s] # Nobody
           \/ e # Nobody /\ \E a \in Accounts : mail[a] = e /\ Owned(a)
        /\ standing' = [standing EXCEPT ![f] = "turned away"]
        /\ UNCHANGED <<mail, owner, proof, caller>>

Open(f) ==
    /\ proof[f] # NoProof /\ owner[proof[f].sub] # Nobody
    /\ standing[f] = "none"
    /\ standing' = [standing EXCEPT ![f] = "open"]
    /\ UNCHANGED <<mail, owner, proof, caller>>

Close(f) ==
    /\ standing[f] = "open"
    /\ standing' = [standing EXCEPT ![f] = "over"]
    /\ UNCHANGED <<mail, owner, proof, caller>>

\* A request of the browser acts for nobody, or through one of its sessions.
Request(b) ==
    /\ \/ caller' = [browser |-> b, account |-> Nobody]
       \/ \E f \in Flows :
             /\ standing[f] = "open" /\ proof[f].browser = b
             /\ caller' = [browser |-> b, account |-> owner[proof[f].sub]]
    /\ UNCHANGED <<mail, owner, proof, standing>>

Next ==
    \/ \E f \in Flows : Prove(f) \/ Adopt(f) \/ TurnAway(f) \/ Open(f) \/ Close(f)
    \/ \E b \in Browsers : Request(b)

Spec == Init /\ [][Next]_vars

=============================================================================
