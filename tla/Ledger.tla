----------------------------- MODULE Ledger -----------------------------
(***************************************************************************)
(* Transactions and the account ledger (block/block.go, block/merkle.go,   *)
(* ledger/ledger.go): what makes a transaction acceptable, what it does to *)
(* balances and nonces, and the ledger that a list of transactions builds. *)
(*                                                                         *)
(* A signature is the key that made it, named by the account it belongs    *)
(* to, with the text it signs; an address derived from a key is the        *)
(* account itself.                                                         *)
(*                                                                         *)
(* What is signed or hashed is JSON text.  The text of a name is the name, *)
(* but bytes that are not UTF-8 are written as the escape \ufffd, and read *)
(* back as the character U+FFFD, whose own text is not that escape:        *)
(* ReadBack says which name a reader finds.                                *)
(***************************************************************************)
EXTENDS Integers, Sequences, SequencesExt

CONSTANTS
    Accounts,   \* the names of accounts, the faucet among them
    Faucet,     \* FaucetAccount
    Blank,      \* a name or key that is empty, or only white space
    MaxInt,     \* the largest int64
    Unreadable, \* the names that are not UTF-8
    ReadBack    \* for each of them, the name with U+FFFD in its place

ASSUME FaucetAssumption == Faucet \in Accounts
ASSUME AccountsAssumption == IsFiniteSet(Accounts)
ASSUME BlankAssumption == Blank \notin Accounts
ASSUME MaxIntAssumption == MaxInt \in Nat \ {0}
ASSUME ReadBackAssumption ==
    /\ Unreadable \subseteq Accounts \ {Faucet}
    /\ ReadBack \in [Unreadable -> Accounts \ Unreadable]
\* No name has an escape for its text.
ASSUME EscapeAssumption == \A name \in Unreadable : <<ReadBack[name]>> \notin Accounts \cup {Blank}

(* int64 arithmetic. *)
Wrap(x) == ((x + MaxInt + 1) % (2 * (MaxInt + 1))) - (MaxInt + 1)

-----------------------------------------------------------------------------
(* JSON *)

(* An escape is told from the character it stands for. *)
NameText(name) == IF name \in Unreadable THEN <<ReadBack[name]>> ELSE name
NameRead(name) == IF name \in Unreadable THEN ReadBack[name] ELSE name

TransactionText(tx) ==
    [tx EXCEPT !.sender = NameText(@), !.recipient = NameText(@)]

TransactionRead(tx) ==
    [tx EXCEPT !.sender = NameRead(@), !.recipient = NameRead(@)]

-----------------------------------------------------------------------------
(* Signatures *)

(* Mutant: the recipient is not signed. *)
SigningTextAnyRecipient(tx) == <<NameText(tx.sender), tx.amount, tx.nonce>>

SigningText(tx) == <<NameText(tx.sender), NameText(tx.recipient), tx.amount, tx.nonce>>

(* No public key and no signature. *)
Unsigned == [key |-> Blank, text |-> <<>>]

(* Sign: the sender is the signer. *)
Signed(key, recipient, amount, nonce) ==
    LET tx == [sender |-> key, recipient |-> recipient, amount |-> amount, nonce |-> nonce,
               signature |-> Unsigned]
    IN  [tx EXCEPT !.signature = [key |-> key, text |-> SigningText(tx)]]

(* VerifySignature *)
SignatureOK(tx) ==
    IF tx.sender = Faucet THEN tx.signature = Unsigned
    ELSE /\ tx.signature # Unsigned
         /\ tx.signature.key = tx.sender
         /\ tx.signature.text = SigningText(tx)

(* Transaction.Validate *)
ValidTransaction(tx) ==
    /\ tx.amount > 0
    /\ tx.sender # Blank
    /\ tx.recipient # Blank
    /\ tx.sender # tx.recipient
    /\ IF tx.sender = Faucet THEN tx.nonce = 0 ELSE tx.nonce # 0
    /\ SignatureOK(tx)

-----------------------------------------------------------------------------
NewLedger == [balance |-> [a \in Accounts |-> 0], nonce |-> [a \in Accounts |-> 0]]

NextNonce(ledger, account) == ledger.nonce[account] + 1

(* Mutant: nobody looks at the balance. *)
CanApplyOverdrawn(ledger, tx) ==
    /\ ValidTransaction(tx)
    /\ tx.sender # Faucet => tx.nonce = NextNonce(ledger, tx.sender)

(* Ledger.ValidateTransaction *)
CanApply(ledger, tx) ==
    /\ ValidTransaction(tx)
    /\ tx.sender # Faucet =>
          /\ tx.nonce = NextNonce(ledger, tx.sender)
          /\ ledger.balance[tx.sender] >= tx.amount

Credit(balance, account, amount) == [balance EXCEPT ![account] = Wrap(@ + amount)]

(* Ledger.Apply of a transaction that CanApply *)
Apply(ledger, tx) ==
    IF tx.sender = Faucet
    THEN [ledger EXCEPT !.balance = Credit(@, tx.recipient, tx.amount)]
    ELSE [balance |-> Credit(Credit(ledger.balance, tx.sender, -tx.amount),
                             tx.recipient, tx.amount),
          nonce   |-> [ledger.nonce EXCEPT ![tx.sender] = tx.nonce]]

(***************************************************************************)
(* The ledger after a list of transactions in their order, or Rejected as  *)
(* soon as one of them cannot be applied.                                  *)
(***************************************************************************)
Rejected == [rejected |-> TRUE]

Step(ledger, tx) ==
    IF ledger # Rejected /\ CanApply(ledger, tx) THEN Apply(ledger, tx) ELSE Rejected

Replay(ledger, txs) ==
    LET after[i \in 0 .. Len(txs)] ==
          IF i = 0 THEN ledger ELSE Step(after[i - 1], txs[i])
    IN  after[Len(txs)]

(* Rebuild: the transactions of all blocks, block by block. *)
Transactions(blocks) == FlattenSeq([i \in DOMAIN blocks |-> blocks[i].transactions])

Rebuild(blocks) == Replay(NewLedger, Transactions(blocks))

-----------------------------------------------------------------------------
(* Amounts of money, for the properties: the code never adds them up. *)

Total(amounts) == MapThenSumSet(LAMBDA x : amounts[x], DOMAIN amounts)

(* What the faucet gives in a list of transactions. *)
Minted(txs) == Total([i \in DOMAIN txs |-> IF txs[i].sender = Faucet THEN txs[i].amount ELSE 0])
==========================================================================
