---------------------------- MODULE Subscriptions ----------------------------
(***************************************************************************)
(* The subscriptions, payments and balance of one user: the requests of    *)
(* routers/subscription.py and the decisions of routers/admin.py, each a   *)
(* transaction of PostgreSQL at READ COMMITTED.  A statement sees what is  *)
(* committed when it starts; a written or locked row makes others wait;    *)
(* the requests of the user lock his row first, those of an administrator  *)
(* do not.                                                                 *)
(*                                                                         *)
(* A plan costs Price, the redeem code is worth one unit and a             *)
(* subscription.  Transaction hashes and dates are left out; verify is a   *)
(* confirm.                                                                *)
(***************************************************************************)
EXTENDS Integers, FiniteSets

CONSTANTS
    Request,    \* concurrent sessions
    Nobody,     \* no session
    MaxRows,    \* bound: subscriptions
    MaxPays,    \* bound: payments
    Price,      \* plan.price_usdt
    Deposit     \* balance_usdt at first

ASSUME SubscriptionAssumption ==
    /\ MaxRows \in Nat \ {0} /\ MaxPays \in Nat \ {0}
    /\ Price \in Nat \ {0} /\ Deposit \in Nat
    /\ Nobody \notin Request

Row == 1..MaxRows
Pay == 1..MaxPays

VARIABLES
    sub,       \* committed status of each subscription
    lapsed,    \* subscriptions whose end_date has passed
    pay,       \* committed payments
    balance,
    code,      \* the redeem code: is_active
    userLock,  \* the session that holds the row of the user
    codeLock,  \* and of the code
    req,       \* what each session does
    spent,     \* paid from the balance so far
    redeemed,  \* redemptions so far
    crossed    \* an administrator activated during another activation

tableVars == <<sub, lapsed, pay, balance, code, spent, redeemed>>
subscriptionVars == <<tableVars, userLock, codeLock, req, crossed>>

RowStatus == {"none", "pending", "active", "cancelled"}
PayStatus == {"none", "pending", "submitted", "expired", "confirmed", "rejected"}
UserJob == {"subscribe", "redeem", "pay", "submit"}
AdminJob == {"grant", "confirm", "reject"}
\* Statements of an activation, from the load of the row to the commit.
Activating == {"load", "flush", "snapshot", "update", "commit"}

\* A request that has read no other subscription yet.
Begun(job, step, r, p, status, money) ==
    [job |-> job, at |-> step, row |-> r, pay |-> p, new |-> status,
     old |-> {}, money |-> money]

Idle == Begun("none", "idle", 0, 0, "none", 0)

SubscriptionTypeOK ==
    /\ sub \in [Row -> RowStatus]
    /\ lapsed \subseteq Row
    /\ pay \in [Pay -> [row : {0} \cup Row, status : PayStatus]]
    /\ balance \in 0..(Deposit + 1)
    /\ code \in BOOLEAN
    /\ userLock \in Request \cup {Nobody}
    /\ codeLock \in Request \cup {Nobody}
    /\ req \in [Request -> [job : {"none"} \cup UserJob \cup AdminJob,
                            at : {"idle", "user", "code", "decide", "insert",
                                  "lock", "submit", "reject"} \cup Activating,
                            row : {0} \cup Row, pay : {0} \cup Pay,
                            new : RowStatus, old : SUBSET Row,
                            money : 0..(Deposit + 1)]]
    /\ spent \in Nat
    /\ redeemed \in Nat
    /\ crossed \in BOOLEAN

SubscriptionInit ==
    /\ sub = [r \in Row |-> "none"]
    /\ lapsed = {}
    /\ pay = [p \in Pay |-> [row |-> 0, status |-> "none"]]
    /\ balance = Deposit
    /\ code = TRUE
    /\ userLock = Nobody
    /\ codeLock = Nobody
    /\ req = [s \in Request |-> Idle]
    /\ spent = 0
    /\ redeemed = 0
    /\ crossed = FALSE

Others(s) == Request \ {s}
\* Rows a session has written and not committed.
LockedRows(s) == IF req[s].at \in {"snapshot", "update"} THEN {req[s].row}
                 ELSE IF req[s].at = "commit" THEN {req[s].row} \cup req[s].old
                 ELSE {}
LockedPays(s) ==
    IF req[s].at \in {"snapshot", "update", "commit", "submit"}
    THEN {req[s].pay} ELSE {}
RowFree(s, r) == \A t \in Others(s) : r \notin LockedRows(t)
PayFree(s, p) == \A t \in Others(s) : p \notin LockedPays(t)

\* The id of a new row.
FreeRow(r) ==
    LET free == {q \in Row : sub[q] = "none" /\ \A t \in Request : req[t].row # q}
    IN r \in free /\ \A q \in free : r <= q

Go(s, step) == req' = [req EXCEPT ![s].at = step]

\* The end of a transaction, committed or not.
Leave(s) ==
    /\ req' = [req EXCEPT ![s] = Idle]
    /\ userLock' = IF userLock = s THEN Nobody ELSE userLock
    /\ codeLock' = IF codeLock = s THEN Nobody ELSE codeLock
-----------------------------------------------------------------------------
(***************************************************************************)
(* Requests arrive.  Checks before the first lock read committed rows.     *)
(***************************************************************************)
StartJob(s, job, step, r, p) ==
    /\ req[s] = Idle
    /\ req' = [req EXCEPT ![s] = Begun(job, step, r, p, "none", 0)]
    /\ UNCHANGED <<tableVars, userLock, codeLock, crossed>>

StartSubscribe(s) == StartJob(s, "subscribe", "user", 0, 0)
StartRedeem(s) == code /\ StartJob(s, "redeem", "code", 0, 0)

\* create_payment: not active, and no pending payment yet.
StartPay(s) ==
    \E r \in Row :
        /\ sub[r] \in {"pending", "cancelled"}
        /\ \A p \in Pay : ~(pay[p].row = r /\ pay[p].status = "pending")
        /\ StartJob(s, "pay", "insert", r, 0)

StartSubmit(s) ==
    \E p \in Pay : pay[p].status = "pending" /\ StartJob(s, "submit", "lock", 0, p)

\* confirm_payment, and verify_payment before it asks the chain.
StartConfirm(s) ==
    \E p \in Pay :
        /\ pay[p].status \in {"pending", "submitted", "expired"}
        /\ StartJob(s, "confirm", "load", pay[p].row, p)

StartReject(s) ==
    \E p \in Pay :
        /\ pay[p].status \in {"pending", "submitted", "expired"}
        /\ StartJob(s, "reject", "reject", 0, p)

\* grant_user_subscription inserts the row, active or pending.
StartGrant(s) ==
    /\ req[s] = Idle
    /\ \E r \in Row, status \in {"active", "pending"} :
        /\ FreeRow(r)
        /\ req' = [req EXCEPT ![s] =
               Begun("grant", IF status = "active" THEN "flush" ELSE "commit",
                     r, 0, status, 0)]
    /\ UNCHANGED <<tableVars, userLock, codeLock, crossed>>
-----------------------------------------------------------------------------
(***************************************************************************)
(* Locks.                                                                  *)
(***************************************************************************)
\* Mutant: with_for_update does not wait.
CodeAnyway(s) == TRUE

CodeFree(s) == codeLock = Nobody

\* redeem_code locks the code and reads it.
LockCode(s) ==
    /\ req[s].at = "code"
    /\ CodeFree(s)
    /\ IF code THEN codeLock' = s /\ Go(s, "user") /\ UNCHANGED userLock
       ELSE Leave(s)
    /\ UNCHANGED <<tableVars, crossed>>

\* Mutant: the row of the user is read without its lock.
UserAnyway(s) == TRUE

UserFree(s) == userLock = Nobody

\* lock_user_by_id: the balance is the committed one.
LockUser(s) ==
    /\ req[s].at = "user"
    /\ UserFree(s)
    /\ userLock' = s
    /\ req' = [req EXCEPT ![s].at = "decide", ![s].money = balance]
    /\ UNCHANGED <<tableVars, codeLock, crossed>>

\* create_subscription: one active subscription is enough; paid from the
\* balance if that covers the price, else left pending.
Subscribe(s) ==
    /\ req[s].at = "decide" /\ req[s].job = "subscribe"
    /\ IF \E r \in Row \ lapsed : sub[r] = "active"
       THEN Leave(s)
       ELSE /\ \E r \in Row :
                /\ FreeRow(r)
                /\ req' = [req EXCEPT ![s] =
                       IF @.money >= Price
                       THEN Begun("subscribe", "flush", r, 0, "active", @.money - Price)
                       ELSE Begun("subscribe", "commit", r, 0, "pending", @.money)]
            /\ UNCHANGED <<userLock, codeLock>>
    /\ UNCHANGED <<tableVars, crossed>>

\* redeem_code: the value of the code, and a subscription.
Redeem(s) ==
    /\ req[s].at = "decide" /\ req[s].job = "redeem"
    /\ \E r \in Row :
        /\ FreeRow(r)
        /\ req' = [req EXCEPT ![s] =
               Begun("redeem", "flush", r, 0, "active", @.money + 1)]
    /\ UNCHANGED <<tableVars, userLock, codeLock, crossed>>
-----------------------------------------------------------------------------
(***************************************************************************)
(* _activate_subscription_row and _activate_payment_subscription.          *)
(***************************************************************************)
\* The subscription of a payment.  A status that was active already is not
\* written again.
LoadRow(s) ==
    /\ req[s].at = "load"
    /\ req' = [req EXCEPT ![s].at = "flush",
                          ![s].new = IF sub[req[s].row] = "active" THEN "none"
                                     ELSE "active"]
    /\ UNCHANGED <<tableVars, userLock, codeLock, crossed>>

Flush(s) ==
    /\ req[s].at = "flush"
    /\ RowFree(s, req[s].row)
    /\ req[s].pay # 0 => PayFree(s, req[s].pay)
    /\ Go(s, "snapshot")
    /\ crossed' = (crossed \/ \E t \in Others(s) :
           req[t].at \in Activating /\ {req[s].job, req[t].job} \cap AdminJob # {})
    /\ UNCHANGED <<tableVars, userLock, codeLock>>

\* deactivate_user_subscriptions: the rows its statement sees ...
ActiveRows(s) == {r \in Row : sub[r] = "active"} \ {req[s].row}

Snapshot(s) ==
    /\ req[s].at = "snapshot"
    /\ req' = [req EXCEPT ![s].at = "update", ![s].old = ActiveRows(s)]
    /\ UNCHANGED <<tableVars, userLock, codeLock, crossed>>

\* ... and, of these, the rows still active once it has their locks.
Deactivate(s) ==
    /\ req[s].at = "update"
    /\ \A r \in req[s].old : RowFree(s, r)
    /\ req' = [req EXCEPT ![s].at = "commit",
                          ![s].old = {r \in @ : sub[r] = "active"}]
    /\ UNCHANGED <<tableVars, userLock, codeLock, crossed>>

StatusAfter(s, r) ==
    IF r = req[s].row /\ req[s].new # "none" THEN req[s].new
    ELSE IF r \in req[s].old THEN "cancelled"
    ELSE sub[r]

CommitJob(s) ==
    /\ req[s].at = "commit"
    /\ sub' = [r \in Row |-> StatusAfter(s, r)]
    /\ lapsed' = lapsed \ {req[s].row}
    /\ pay' = IF req[s].job = "confirm"
              THEN [pay EXCEPT ![req[s].pay].status = "confirmed"] ELSE pay
    /\ balance' = IF userLock = s THEN req[s].money ELSE balance
    /\ code' = (code /\ req[s].job # "redeem")
    /\ spent' = IF req[s].job = "subscribe" /\ req[s].new = "active"
                THEN spent + Price ELSE spent
    /\ redeemed' = IF req[s].job = "redeem" THEN redeemed + 1 ELSE redeemed
    /\ Leave(s)
    /\ UNCHANGED crossed
-----------------------------------------------------------------------------
(***************************************************************************)
(* Payments.                                                               *)
(***************************************************************************)
CreatePayment(s) ==
    /\ req[s].at = "insert"
    /\ \E p \in Pay :
        /\ pay[p].status = "none" /\ \A q \in 1..(p - 1) : pay[q].status # "none"
        /\ pay' = [pay EXCEPT ![p] = [row |-> req[s].row, status |-> "pending"]]
    /\ Leave(s)
    /\ UNCHANGED <<sub, lapsed, balance, code, spent, redeemed, crossed>>

\* Mutant: the status is the one read before the lock.
StillPendingEarly(p) == TRUE

StillPending(p) == pay[p].status = "pending"

\* submit_payment locks the payment and reads it.
LockPayment(s) ==
    /\ req[s].at = "lock"
    /\ PayFree(s, req[s].pay)
    /\ IF StillPending(req[s].pay)
       THEN Go(s, "submit") /\ UNCHANGED <<userLock, codeLock>>
       ELSE Leave(s)
    /\ UNCHANGED <<tableVars, crossed>>

\* It expires, or its hash is taken, or is used already.
SubmitPayment(s) ==
    /\ req[s].at = "submit"
    /\ \E status \in {"submitted", "expired", "pending"} :
        pay' = [pay EXCEPT ![req[s].pay].status = status]
    /\ Leave(s)
    /\ UNCHANGED <<sub, lapsed, balance, code, spent, redeemed, crossed>>

RejectPayment(s) ==
    /\ req[s].at = "reject"
    /\ PayFree(s, req[s].pay)
    /\ pay' = [pay EXCEPT ![req[s].pay].status = "rejected"]
    /\ Leave(s)
    /\ UNCHANGED <<sub, lapsed, balance, code, spent, redeemed, crossed>>
-----------------------------------------------------------------------------
\* get_db rolls back: an error, a lost connection, the victim of a deadlock.
AbortJob(s) ==
    /\ req[s] # Idle
    /\ Leave(s)
    /\ UNCHANGED <<tableVars, crossed>>

\* end_date passes.
Lapse ==
    /\ \E r \in Row \ lapsed : sub[r] = "active" /\ lapsed' = lapsed \cup {r}
    /\ UNCHANGED <<sub, pay, balance, code, spent, redeemed, userLock, codeLock,
                   req, crossed>>

Start(s) ==
    \/ StartSubscribe(s) \/ StartRedeem(s) \/ StartPay(s) \/ StartSubmit(s)
    \/ StartConfirm(s) \/ StartReject(s) \/ StartGrant(s)

SubscriptionNext ==
    \/ \E s \in Request :
        \/ Start(s)
        \/ LockCode(s) \/ LockUser(s) \/ Subscribe(s) \/ Redeem(s)
        \/ LoadRow(s) \/ Flush(s) \/ Snapshot(s) \/ Deactivate(s) \/ CommitJob(s)
        \/ CreatePayment(s) \/ LockPayment(s) \/ SubmitPayment(s)
        \/ RejectPayment(s) \/ AbortJob(s)
    \/ Lapse

SubscriptionSpec == SubscriptionInit /\ [][SubscriptionNext]_subscriptionVars
-----------------------------------------------------------------------------
\* A code is redeemed once, and the balance is what was there and redeemed,
\* less what was spent, whichever subscriptions and redemptions run at the
\* same time.
BalanceAdds == redeemed <= 1 /\ balance = Deposit + redeemed - spent

\* "Ensure a user has at most one active subscription row"
\* (deactivate_user_subscriptions).
OneActive == Cardinality({r \in Row : sub[r] = "active"}) <= 1

\* It does, as long as no administrator activates a subscription while another
\* activation is under way: the activations of the user wait for his row.
OneActiveUncrossed == crossed \/ OneActive

Judged(p) == pay[p].status \in {"confirmed", "rejected"}

\* The decision of an administrator is never undone by a request of the user,
\* who submits or whose payment expires at the same time.
DecisionStands ==
    [][\A p \in Pay : Judged(p) => Judged(p)']_subscriptionVars
=============================================================================
