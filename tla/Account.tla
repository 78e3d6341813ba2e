------------------------------- MODULE Account -------------------------------
(***************************************************************************)
(* One user's account: profile, e-mail and phone verification, and the     *)
(* wallet's balance, which is a column of the same row (accounts/views.py, *)
(* accounts/models.py).                                                    *)
(*                                                                         *)
(* These views open no transaction: a request reads the user's row once    *)
(* and then executes one statement after another, each committed by        *)
(* itself.  todo holds the statements a request has still to execute.      *)
(***************************************************************************)
EXTENDS Integers, FiniteSets, Sequences

CONSTANTS
    Workers,
    Tokens,       \* primary keys of links and codes
    Addresses,    \* e-mail addresses and phone numbers
    MaxAttempts,  \* MAX_ATTEMPTS
    MaxBalance,   \* bound: the wallet
    Ops,          \* the operations a worker's requests exercise
    None

Kinds == {"email", "phone"}

ASSUME AccountAssumption ==
    /\ MaxAttempts \in Nat \ {0} /\ MaxBalance \in Nat /\ None \notin Addresses /\ IsFiniteSet(Workers)
    /\ DOMAIN Ops = Workers

VARIABLES
    user,     \* the row: addresses, their flags and wallet_balance
    booked,   \* balance_after of the last WalletTransaction
    tokens,   \* EmailVerificationToken and PhoneVerificationCode rows
    attempts, \* the cache's count of wrong codes; 0 when the key is missing
    tried,    \* history: the wrong codes answered since the count last began anew
    request,  \* a worker's copy of the row and the statements it has still to execute
    proven    \* history: the addresses whose owner has shown a link or code sent there

vars == <<user, booked, tokens, attempts, tried, request, proven>>

NoToken == [kind |-> "none", address |-> None, used |-> FALSE, expired |-> FALSE]

NoRequest == [user |-> [address |-> [k \in Kinds |-> None], verified |-> [k \in Kinds |-> FALSE],
                        balance |-> 0],
              todo |-> <<>>]

Idle(w) == request[w] = NoRequest

Usable(t) == tokens[t].kind # "none" /\ ~tokens[t].used /\ ~tokens[t].expired

\* The copy of a request that only tests the row and writes nothing it has read.
NothingOfTheRow == NoRequest.user

\* A request has read the row; what it will write is computed from this copy.
Begins(w, copy, todo) ==
    /\ Idle(w)
    /\ request' = [request EXCEPT ![w] = [user |-> copy, todo |-> todo]]

Statement(w, what) == request[w].todo # <<>> /\ Head(request[w].todo)[1] = what

Argument(w) == Head(request[w].todo)[2]

Done(w) ==
    LET left == Tail(request[w].todo) IN
    request' = IF left = <<>> THEN [request EXCEPT ![w] = NoRequest]
               ELSE [request EXCEPT ![w].todo = left]

-----------------------------------------------------------------------------
(* The requests.                                                           *)

\* Fault: links that are still unused stay valid.
SendOnly(k) == <<<<"create", k>>>>

\* send_verification_email, send_verification_sms
Send(k) == <<<<"void", k>>, <<"create", k>>>>

\* RegisterView, ResendVerificationEmailView, "send_code"
RequestToken(w, k) ==
    /\ "send" \in Ops[w]
    /\ ~user.verified[k] /\ user.address[k] # None
    /\ Begins(w, user, Send(k))
    /\ UNCHANGED <<user, booked, tokens, attempts, tried, proven>>

\* What ProfileEditView does after the row is saved, for an address that changed.
AfterChange(k, address) ==
    <<<<"reset", k>>, <<"void", k>>>>
    \o IF k = "email" /\ address # None THEN Send(k) ELSE <<>>

\* ProfileEditView: the copy with the new addresses is what form.save() writes.
EditProfile(w, address) ==
    LET after(k) == IF address[k] = user.address[k] THEN <<>> ELSE AfterChange(k, address[k]) IN
    /\ "edit" \in Ops[w]
    /\ Begins(w, [user EXCEPT !.address = address],
              <<<<"save", "row">>>> \o after("email") \o after("phone"))
    /\ UNCHANGED <<user, booked, tokens, attempts, tried, proven>>

\* VerifyEmailView: the flag first, then the link is used up.
ShowLink(w, t) ==
    /\ "verify" \in Ops[w] /\ tokens[t].kind = "email" /\ Usable(t)
    /\ Begins(w, NothingOfTheRow, <<<<"confirm", "email">>, <<"spend", t>>>>)
    /\ proven' = proven \cup {tokens[t].address}
    /\ UNCHANGED <<user, booked, tokens, attempts, tried>>

\* Fault: no lockout.
MayTryAlways == attempts \in Nat

MayTry == attempts < MaxAttempts

\* RequestPhoneVerificationView, the right code: the counter, the code, the flag.
EnterCode(w, t) ==
    /\ "verify" \in Ops[w] /\ tokens[t].kind = "phone" /\ Usable(t)
    /\ ~user.verified["phone"] /\ MayTry
    /\ Begins(w, NothingOfTheRow, <<<<"forget", "attempts">>, <<"spend", t>>, <<"confirm", "phone">>>>)
    /\ proven' = proven \cup {tokens[t].address}
    /\ UNCHANGED <<user, booked, tokens, attempts, tried>>

\* ... and a wrong one.
EnterWrongCode(w) ==
    /\ "wrongCode" \in Ops[w] /\ ~user.verified["phone"] /\ MayTry
    /\ Begins(w, NothingOfTheRow, <<<<"read", "attempts">>>>)
    /\ UNCHANGED <<user, booked, tokens, attempts, tried, proven>>

\* Fault: the balance is not looked at.
CanChangeAnything(amount) == amount # 0 /\ user.balance + amount <= MaxBalance

CanChange(amount) == amount # 0 /\ user.balance + amount \in 0 .. MaxBalance

\* _apply_wallet_change, a transaction that locks the row (module Booking).
ChangeBalance(w, amount) ==
    /\ "wallet" \in Ops[w] /\ Idle(w) /\ CanChange(amount)
    /\ user' = [user EXCEPT !.balance = @ + amount]
    /\ booked' = user.balance + amount
    /\ UNCHANGED <<tokens, attempts, tried, request, proven>>

-----------------------------------------------------------------------------
(* The statements.                                                         *)

\* form.save() updates every column of the row.
SaveRow(w) ==
    /\ Statement(w, "save")
    /\ user' = request[w].user
    /\ Done(w)
    /\ UNCHANGED <<booked, tokens, attempts, tried, proven>>

SetFlag(w, what, value) ==
    /\ Statement(w, what)
    /\ user' = [user EXCEPT !.verified[Argument(w)] = value]
    /\ Done(w)
    /\ UNCHANGED <<booked, tokens, attempts, tried, proven>>

\* Fault: the links of an address that is no longer the user's are left alone.
VoidedNothing(k) == [t \in Tokens |-> IF tokens[t].kind = k THEN tokens[t] ELSE tokens[t]]

\* invalidate_unused
Voided(k) ==
    [t \in Tokens |-> IF tokens[t].kind = k THEN [tokens[t] EXCEPT !.used = TRUE] ELSE tokens[t]]

VoidUnused(w) ==
    /\ Statement(w, "void")
    /\ tokens' = Voided(Argument(w))
    /\ Done(w)
    /\ UNCHANGED <<user, booked, attempts, tried, proven>>

\* The link or code goes to the address of the request's copy.  A row that is of
\* no use any more is taken again: the bound on Tokens.
CreateToken(w) ==
    /\ Statement(w, "create")
    /\ \E t \in Tokens :
         /\ ~Usable(t)
         /\ tokens' = [tokens EXCEPT ![t] = [NoToken EXCEPT !.kind = Argument(w),
                                               !.address = request[w].user.address[Argument(w)]]]
    /\ Done(w)
    /\ UNCHANGED <<user, booked, attempts, tried, proven>>

SpendToken(w) ==
    /\ Statement(w, "spend")
    /\ tokens' = [tokens EXCEPT ![Argument(w)].used = TRUE]
    /\ Done(w)
    /\ UNCHANGED <<user, booked, attempts, tried, proven>>

\* _register_failed_attempt: cache.incr, which DatabaseCache has from BaseCache,
\* gets the count ...
ReadAttempts(w) ==
    /\ Statement(w, "read")
    /\ request' = [request EXCEPT ![w].todo[1] = <<"write", attempts>>]
    /\ UNCHANGED <<user, booked, tokens, attempts, tried, proven>>

\* ... and sets it to one more than it was.
WriteAttempts(w) ==
    /\ Statement(w, "write")
    /\ attempts' = Argument(w) + 1
    /\ tried' = tried + 1
    /\ Done(w)
    /\ UNCHANGED <<user, booked, tokens, proven>>

\* cache.delete
ForgetAttempts(w) ==
    /\ Statement(w, "forget")
    /\ attempts' = 0 /\ tried' = 0
    /\ Done(w)
    /\ UNCHANGED <<user, booked, tokens, proven>>

-----------------------------------------------------------------------------
(* Time, and the process that dies.                                        *)

\* 24 hours, or 10 minutes, after it was created.
TokenExpires(t) ==
    /\ Usable(t)
    /\ tokens' = [tokens EXCEPT ![t].expired = TRUE]
    /\ UNCHANGED <<user, booked, attempts, tried, request, proven>>

\* The key expires, or is culled: LOCKOUT_SECONDS after cache.add, or the cache's
\* default timeout after the last set of cache.incr.
LockoutEnds ==
    /\ attempts > 0 /\ attempts' = 0 /\ tried' = 0
    /\ UNCHANGED <<user, booked, tokens, request, proven>>

Crash(w) ==
    /\ "crash" \in Ops[w] /\ ~Idle(w)
    /\ request' = [request EXCEPT ![w] = NoRequest]
    /\ UNCHANGED <<user, booked, tokens, attempts, tried, proven>>

\* A new user, some of whose addresses are not filled in.
Init ==
    /\ user \in {[NoRequest.user EXCEPT !.address = address] :
                    address \in [Kinds -> Addresses \cup {None}]}
    /\ booked = 0
    /\ tokens = [t \in Tokens |-> NoToken]
    /\ attempts = 0 /\ tried = 0
    /\ request = [w \in Workers |-> NoRequest]
    /\ proven = {}

Begin(w) ==
    \/ \E k \in Kinds : RequestToken(w, k)
    \/ \E address \in [Kinds -> Addresses \cup {None}] : EditProfile(w, address)
    \/ \E t \in Tokens : ShowLink(w, t) \/ EnterCode(w, t)
    \/ EnterWrongCode(w)
    \/ \E amount \in {-1, 1} : ChangeBalance(w, amount)

Continue(w) ==
    \/ SaveRow(w) \/ SetFlag(w, "reset", FALSE) \/ SetFlag(w, "confirm", TRUE)
    \/ VoidUnused(w) \/ CreateToken(w) \/ SpendToken(w)
    \/ ReadAttempts(w) \/ WriteAttempts(w) \/ ForgetAttempts(w)

Next ==
    \/ \E w \in Workers : Begin(w) \/ Continue(w) \/ Crash(w)
    \/ \E t \in Tokens : TokenExpires(t)
    \/ LockoutEnds

Spec == Init /\ [][Next]_vars

=============================================================================
