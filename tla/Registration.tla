--------------------------- MODULE Registration ---------------------------
(***************************************************************************)
(* Registration with a code: the transactions of auth.register and of the  *)
(* admin's registration_codes endpoints, interleaved at every statement.   *)
(*                                                                         *)
(* The database is PostgreSQL at READ COMMITTED: a statement sees what was *)
(* committed before it, SELECT ... FOR UPDATE waits for the row's lock and *)
(* then reads its latest version, an INSERT waits for an uncommitted row   *)
(* with the same unique key, and everything a transaction wrote and locked *)
(* appears or goes away at its COMMIT or ROLLBACK.                         *)
(***************************************************************************)
EXTENDS Handlers, Naturals, FiniteSets

CONSTANTS Codes,       \* registration_codes.id
          Addresses,   \* addresses, which users.email keeps unique
          MaxMaxUses   \* bound: the largest max_uses an admin sets

Code == [max : 1..MaxMaxUses, uses : Nat, active : BOOLEAN, expired : BOOLEAN]

ASSUME RegistrationAssumption ==
    /\ MaxMaxUses \in Nat \ {0}
    /\ IsFiniteSet(Addresses)
    /\ None \notin Codes \cup Addresses \cup Requests
    /\ None \notin Code

VARIABLES code,      \* table registration_codes, committed
          cameWith,  \* table users, committed: the code each address came with
          reg        \* what each registration has done so far

registrationVars == <<code, cameWith, reg>>

NoRegistration == [pc |-> "idle", code |-> None, email |-> None, uses |-> 0]

RegistrationTypeOK ==
    /\ code \in [Codes -> Code \cup {None}]
    /\ cameWith \in [Addresses -> Codes \cup {None}]
    /\ reg \in [Requests -> [pc : {"idle", "started", "counted", "free", "inserted"},
                             code : Codes \cup {None},
                             email : Addresses \cup {None},
                             uses : Nat]]

-----------------------------------------------------------------------------
\* The row locks and the uncommitted rows are those of the open transactions.
Locks(r, c)     == reg[r].code = c /\ reg[r].pc \in {"counted", "free", "inserted"}
Unlocked(c)     == \A r \in Requests : ~Locks(r, c)
Uncommitted(e)  == \E r \in Requests : reg[r].pc = "inserted" /\ reg[r].email = e

Usable(c) == /\ code[c] # None
             /\ code[c].active
             /\ code[c].uses < code[c].max
             /\ ~code[c].expired

RegistrationInit ==
    /\ code = [c \in Codes |-> None]
    /\ cameWith = [e \in Addresses |-> None]
    /\ reg = [r \in Requests |-> NoRegistration]

-----------------------------------------------------------------------------
(***************************************************************************)
(* auth.register, one action per statement.                                *)
(***************************************************************************)
Rollback(r) == /\ reg' = [reg EXCEPT ![r] = NoRegistration]
               /\ UNCHANGED <<code, cameWith>>

BeginRegistration(r, c, e) ==
    /\ reg[r].pc = "idle"
    /\ reg' = [reg EXCEPT ![r] = [pc |-> "started", code |-> c, email |-> e,
                                  uses |-> 0]]
    /\ UNCHANGED <<code, cameWith>>

\* A mistake: the row is read without FOR UPDATE.
UseCodeUnlocked(r) ==
    /\ reg[r].pc = "started"
    /\ Usable(reg[r].code)
    /\ reg' = [reg EXCEPT ![r].pc = "counted",
                         ![r].uses = code[reg[r].code].uses + 1]
    /\ UNCHANGED <<code, cameWith>>

\* validate_and_use_registration_code: SELECT ... FOR UPDATE, the checks, and
\* the increment, which the next statement flushes.
UseCode(r) ==
    LET c == reg[r].code IN
    /\ reg[r].pc = "started"
    /\ Unlocked(c)
    /\ Usable(c)
    /\ reg' = [reg EXCEPT ![r].pc = "counted", ![r].uses = code[c].uses + 1]
    /\ UNCHANGED <<code, cameWith>>

CodeRefused(r) ==
    /\ reg[r].pc = "started"
    /\ Unlocked(reg[r].code)
    /\ ~Usable(reg[r].code)
    /\ Rollback(r)

EmailFree(r) ==
    /\ reg[r].pc = "counted"
    /\ cameWith[reg[r].email] = None
    /\ reg' = [reg EXCEPT ![r].pc = "free"]
    /\ UNCHANGED <<code, cameWith>>

\* A mistake: the registration is tried again instead of refused.
EmailTakenRetried(r) ==
    /\ reg[r].pc = "counted"
    /\ cameWith[reg[r].email] # None
    /\ reg' = [reg EXCEPT ![r].pc = "started"]
    /\ UNCHANGED <<code, cameWith>>

EmailTaken(r) ==
    /\ reg[r].pc = "counted"
    /\ cameWith[reg[r].email] # None
    /\ Rollback(r)

InsertUser(r) ==
    /\ reg[r].pc = "free"
    /\ ~Uncommitted(reg[r].email)
    /\ cameWith[reg[r].email] = None
    /\ reg' = [reg EXCEPT ![r].pc = "inserted"]
    /\ UNCHANGED <<code, cameWith>>

\* The unique index on users.email: another registration won.
InsertFails(r) ==
    /\ reg[r].pc = "free"
    /\ cameWith[reg[r].email] # None
    /\ Rollback(r)

Commit(r) ==
    LET c == reg[r].code IN
    /\ reg[r].pc = "inserted"
    /\ code' = [code EXCEPT ![c] = [code[c] EXCEPT !.uses = reg[r].uses]]
    /\ cameWith' = [cameWith EXCEPT ![reg[r].email] = c]
    /\ reg' = [reg EXCEPT ![r] = NoRegistration]

\* The connection or the process dies; PostgreSQL rolls back.
Crash(r) == reg[r].pc # "idle" /\ Rollback(r)

-----------------------------------------------------------------------------
(***************************************************************************)
(* registration_codes.py: one statement changes one row, so it waits for   *)
(* the row's lock and then changes the latest version.                     *)
(***************************************************************************)
\* A mistake: max_uses counted from zero.
CreateCodeFromZero(c, max) ==
    /\ code[c] = None
    /\ code' = [code EXCEPT ![c] = [max |-> max - 1, uses |-> 0, active |-> TRUE,
                                    expired |-> FALSE]]
    /\ UNCHANGED <<cameWith, reg>>

CreateCode(c, max) ==
    /\ code[c] = None
    /\ \A e \in Addresses : cameWith[e] # c      \* the sequence gives out no id twice
    /\ \A r \in Requests : reg[r].code # c
    /\ code' = [code EXCEPT ![c] = [max |-> max, uses |-> 0, active |-> TRUE,
                                    expired |-> FALSE]]
    /\ UNCHANGED <<cameWith, reg>>

\* A mistake: the row is changed behind the lock.
DeactivateCodeAtOnce(c) ==
    /\ code[c] # None
    /\ code' = [code EXCEPT ![c] = [code[c] EXCEPT !.active = FALSE]]
    /\ UNCHANGED <<cameWith, reg>>

DeactivateCode(c) ==
    /\ code[c] # None
    /\ Unlocked(c)
    /\ code' = [code EXCEPT ![c] = [code[c] EXCEPT !.active = FALSE]]
    /\ UNCHANGED <<cameWith, reg>>

DeleteCode(c) ==
    /\ code[c] # None
    /\ Unlocked(c)
    /\ code' = [code EXCEPT ![c] = None]
    /\ UNCHANGED <<cameWith, reg>>

\* expires_at passes, whatever is locked.
Expire(c) ==
    /\ code[c] # None
    /\ code' = [code EXCEPT ![c] = [code[c] EXCEPT !.expired = TRUE]]
    /\ UNCHANGED <<cameWith, reg>>

-----------------------------------------------------------------------------
RequestStep(r) ==
    \/ \E c \in Codes, e \in Addresses : BeginRegistration(r, c, e)
    \/ UseCode(r) \/ CodeRefused(r)
    \/ EmailFree(r) \/ EmailTaken(r)
    \/ InsertUser(r) \/ InsertFails(r)
    \/ Commit(r) \/ Crash(r)

AdminStep(c) ==
    \/ \E max \in 1..MaxMaxUses : CreateCode(c, max)
    \/ DeactivateCode(c) \/ DeleteCode(c) \/ Expire(c)

RegistrationNext == (\E r \in Requests : RequestStep(r)) \/ (\E c \in Codes : AdminStep(c))

RegistrationSpec == RegistrationInit /\ [][RegistrationNext]_registrationVars

\* The statements of a registration that has begun are executed; a row lock is
\* granted to each waiter in turn, so no waiter is passed over for ever.
Advance(r) == \/ UseCode(r) \/ CodeRefused(r) \/ EmailFree(r) \/ EmailTaken(r)
              \/ InsertUser(r) \/ InsertFails(r) \/ Commit(r)

FairSpec == RegistrationSpec /\ \A r \in Requests : SF_registrationVars(Advance(r))

-----------------------------------------------------------------------------
(***************************************************************************)
(* Properties.                                                             *)
(***************************************************************************)
UsersOf(c) == {e \in Addresses : cameWith[e] = c}

\* "multiple concurrent registrations could use the same code beyond max_uses"
\* is what the row lock prevents: every user is counted by the code it came with,
\* and the count is within the maximum, so that no code admits more.  Only a lower
\* bound of the count is stated: register says that it is "still incremented" if the
\* email is taken, though the exception rolls it back (RefusedUsesRolledBack).
UsesWithinMax == \A c \in Codes : code[c] # None => code[c].uses <= code[c].max

UsersCounted ==
    \A c \in Codes : code[c] # None => Cardinality(UsersOf(c)) <= code[c].uses

UsersWithinMax == UsesWithinMax /\ UsersCounted

\* A registration that is past the check commits with a code that still exists
\* and is still active: deactivation and deletion wait for it.
CommitsUnderLiveCode ==
    [][\A r \in Requests : Commit(r) =>
         code[reg[r].code] # None /\ code[reg[r].code].active]_registrationVars

\* Every registration is answered: the lock on the code and the wait for the
\* unique address are taken in one order, so no two wait for each other.
RegistrationsEnd == \A r \in Requests : reg[r].pc # "idle" ~> reg[r].pc = "idle"
=============================================================================
