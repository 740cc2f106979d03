-------------------------- MODULE ConfirmTokenStore --------------------------
(* InMemoryConfirmTokenStore (guards.py): single-use, short-lived tokens.    *)
(* Each action is one section under the store's lock; what `redeem' does     *)
(* with the popped entry after it has released the lock is `Admits', which   *)
(* the caller evaluates in a later step, against a later reading of the      *)
(* clock.                                                                    *)
EXTENDS Models, Clocks

CONSTANTS
    Token,      \* the strings secrets.token_urlsafe may return
    Ttl         \* confirm_token_ttl, in seconds

ASSUME StoreAssumption == Ttl \in Nat /\ None \notin Token

VARIABLE store  \* token |-> (payload, issued_at), or None when it is not a key

Entry == [payload : TokenPayload, issued : Int]

ASSUME EntryAssumption == None \notin TokenPayload /\ None \notin Entry

StoreTypeOK == store \in [Token -> Entry \cup {None}]

EmptyStore == [t \in Token |-> None]

StoreInit == store = EmptyStore

\* Python compares with `>', so an entry of age exactly ttl is still good.
Expired(entry) == now - entry.issued > Ttl

\* _sweep_expired: drop every expired entry.
Swept ==
    [t \in Token |->
        IF store[t] # None /\ Expired(store[t]) THEN None ELSE store[t]]

\* issue: sweep, then store the new token; one critical section.
Issue(token, payload) ==
    store' = [Swept EXCEPT ![token] = [payload |-> payload, issued |-> now]]

\* redeem, under the lock: pop(token, None).  An absent token ("" included)
\* pops nothing.
Popped(token) == IF token \in Token THEN store[token] ELSE None

\* Mutant of Pop: get instead of pop.
Peek(token) == UNCHANGED store

Pop(token) ==
    store' = [t \in Token |-> IF t = token THEN None ELSE store[t]]

\* Mutant of Admits: the payload is not compared.
AdmitsAnyAction(entry, expected) == entry # None /\ ~Expired(entry)

\* redeem, after the lock: the three conditions under which it does not raise.
Admits(entry, expected) ==
    /\ entry # None
    /\ ~Expired(entry)
    /\ entry.payload = expected
=============================================================================
