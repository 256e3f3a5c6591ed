------------------------- MODULE BankCashoutsProofs -------------------------
(****************************************************************************)
(* Proofs about BankCashouts, for any number of cash-outs and handlers,     *)
(* whatever they cost, and whether or not deliveries overlap and handlers   *)
(* fail.                                                                    *)
(****************************************************************************)
EXTENDS BankCashouts, NgnBalanceProofs

\* A cash-out is an item, and an idle handler is not taken for a busy one.
LEMMA Items == Cashout \subseteq Item /\ None \notin Cashout \cup Event
BY BalanceAssumption, CashoutAssumption DEF Item

LEMMA BusyHook ==
  ASSUME TypeOK, NEW h \in Handler, hooks[h].at \in {"read", "written", "fresh"}
  PROVE  hooks[h] \in Hook
BY DEF TypeOK, NoHook

\* Every event makes an entry of a known kind.
LEMMA EntryKind == ASSUME NEW e \in Event PROVE Entry(e) \in Kind
BY DEF Entry, Event, Kind

------------------------------------------------------------------------------
\* A write of a payout keeps the table well typed.
LEMMA PayoutType ==
  ASSUME TypeOK, NEW c \in Cashout
  PROVE  /\ \A place \in Place : Goes(c, place) => payouts' \in [Cashout -> Payout]
         /\ \A place \in Place, row \in {"none", "bank_processing", "completed", "failed"}, reversed \in BOOLEAN :
              Saves(c, place, row, reversed) => payouts' \in [Cashout -> Payout]
BY DEF TypeOK, Payout, Goes, Saves

\* Every step of a request keeps the types.
LEMMA RequestType ==
  ASSUME TypeOK, NEW c \in Cashout,
         \/ Check(c) \/ Hold(c) \/ SaveRow(c) \/ Send(c) \/ Reject(c) \/ Accept(c) \/ SaveAccepted(c)
         \/ Look(c) \/ Release(c) \/ SaveRejected(c) \/ Die(c) \/ Verdict(c)
  PROVE  TypeOK'
<1> USE DEF TypeOK, BalanceTypeOK
<1>1. CASE Check(c) \/ Reject(c) \/ Accept(c) \/ Look(c) \/ Die(c)
  <2>1. \E place \in Place : Goes(c, place)
    BY <1>1 DEF Check, Reject, Accept, Look, Die, Place
  <2>2. payouts' \in [Cashout -> Payout]
    BY <2>1, PayoutType
  <2> QED
    BY <1>1, <2>2 DEF Check, Reject, Accept, Look, Die
<1>2. CASE SaveRow(c) \/ SaveAccepted(c) \/ SaveRejected(c)
  <2>1. \E place \in Place, row \in {"none", "bank_processing", "completed", "failed"} : Saves(c, place, row, FALSE)
    BY <1>2 DEF SaveRow, SaveAccepted, SaveRejected, Place
  <2>2. payouts' \in [Cashout -> Payout]
    BY <2>1, PayoutType
  <2> QED
    BY <1>2, <2>2 DEF SaveRow, SaveAccepted, SaveRejected
<1>3. CASE Hold(c) \/ Release(c)
  <2>1. \E place \in Place : Goes(c, place)
    BY <1>3 DEF Hold, Release, Place
  <2>2. payouts' \in [Cashout -> Payout]
    BY <2>1, PayoutType
  <2>3. book' \in Books
    BY <1>3, Items, EntersType, PostsType DEF Hold, Release, Kind
  <2> QED
    BY <1>3, <2>2, <2>3 DEF Hold, Release
<1>4. CASE Send(c)
  <2>1. payouts' \in [Cashout -> Payout]
    BY <1>4, PayoutType DEF Send, Place
  <2> QED
    BY <1>4, <2>1 DEF Send
<1>5. CASE Verdict(c)
  BY <1>5 DEF Verdict
<1> QED
  BY <1>1, <1>2, <1>3, <1>4, <1>5

\* And so does every step of a handler.
LEMMA HookType ==
  ASSUME TypeOK, NEW h \in Handler,
         \/ \E c \in Cashout, e \in Event : HookReads(h, c, e)
         \/ HookWrites(h) \/ HookLooks(h) \/ HookPosts(h) \/ HookDies(h)
  PROVE  TypeOK'
<1> USE DEF TypeOK, BalanceTypeOK
<1>1. ASSUME NEW c \in Cashout, NEW e \in Event, HookReads(h, c, e) PROVE TypeOK'
  <2>1. [item |-> c, event |-> e, at |-> "read", saw |-> payouts[c].reversed] \in Hook
    BY DEF Hook, Payout
  <2> QED
    BY <1>1, <2>1 DEF HookReads
<1>2. CASE HookWrites(h)
  <2>1. hooks[h] \in Hook
    BY <1>2, BusyHook DEF HookWrites
  <2> DEFINE c == hooks[h].item
  <2>2. c \in Cashout /\ hooks[h].saw \in BOOLEAN /\ payouts[c].at \in Place
    BY <2>1 DEF Hook, Payout
  <2>3. \E row \in {"none", "bank_processing", "completed", "failed"}, reversed \in BOOLEAN :
          Saves(c, payouts[c].at, row, reversed)
    BY <1>2 DEF HookWrites
  <2>4. payouts' \in [Cashout -> Payout]
    BY <2>2, <2>3, PayoutType
  <2>5. hooks' \in [Handler -> Hook \cup {NoHook}]
    BY <1>2, <2>1 DEF HookWrites, Hook
  <2> QED
    BY <1>2, <2>4, <2>5 DEF HookWrites
<1>3. CASE HookLooks(h) \/ HookPosts(h)
  <2>1. hooks[h] \in Hook
    BY <1>3, BusyHook DEF HookLooks, HookPosts
  <2>2. hooks[h].item \in Cashout /\ hooks[h].event \in Event
    BY <2>1 DEF Hook
  <2>3. hooks' \in [Handler -> Hook \cup {NoHook}]
    BY <1>3, <2>1 DEF HookLooks, HookPosts, Hook
  <2>4. book' \in Books
    BY <1>3, <2>2, Items, EntryKind, EntersType DEF HookLooks, HookPosts
  <2>5. told' \subseteq Cashout \X Event
    BY <1>3, <2>2 DEF HookLooks, HookPosts
  <2> QED
    BY <1>3, <2>3, <2>4, <2>5 DEF HookLooks, HookPosts
<1>4. CASE HookDies(h)
  BY <1>4 DEF HookDies
<1> QED
  BY <1>1, <1>2, <1>3, <1>4

LEMMA TypeStep == ASSUME TypeOK, Next PROVE TypeOK'
BY RequestType, HookType DEF Next

\* A cash-out and what is said of it move the accounts of cash-outs alone, and no
\* row of a key.
LEMMA CashoutsOnly ==
  ASSUME TypeOK, Next
  PROVE  /\ UNCHANGED records /\ book.posted \subseteq book'.posted
         /\ \A i \in Item \ Cashout :
              /\ book'.taken[i] = book.taken[i] /\ book'.own[i] = book.own[i]
              /\ \A kind : <<i, kind>> \in book'.posted <=> <<i, kind>> \in book.posted
<1>1. UNCHANGED records
  BY DEF Next, Check, Hold, SaveRow, Send, Reject, Accept, SaveAccepted, Look, Release, SaveRejected, Die,
         Verdict, HookReads, HookWrites, HookLooks, HookPosts, HookDies
<1>2. UNCHANGED book \/ \E c \in Cashout, kind \in Kind : Enters(c, kind)
  <2>1. CASE \E c \in Cashout : Hold(c) \/ Release(c)
    BY <2>1 DEF Hold, Release, Posts, Kind
  <2>2. ASSUME NEW h \in Handler, HookPosts(h) PROVE \E c \in Cashout, kind \in Kind : Enters(c, kind)
    BY <2>2, BusyHook, EntryKind DEF HookPosts, Hook
  <2> QED
    BY <2>1, <2>2 DEF Next, Check, SaveRow, Send, Reject, Accept, SaveAccepted, Look, SaveRejected, Die,
                      Verdict, HookReads, HookWrites, HookLooks, HookDies
<1>3. ASSUME NEW c \in Cashout, NEW kind \in Kind, Enters(c, kind), NEW i \in Item \ Cashout
      PROVE  /\ book'.taken[i] = book.taken[i] /\ book'.own[i] = book.own[i]
             /\ \A other : <<i, other>> \in book'.posted <=> <<i, other>> \in book.posted
  BY <1>3, Items, EntryIsOfOne DEF TypeOK, BalanceTypeOK
<1>4. ASSUME NEW c \in Cashout, NEW kind \in Kind, Enters(c, kind) PROVE book.posted \subseteq book'.posted
  BY <1>4, Items, EntersType DEF TypeOK, BalanceTypeOK
<1> QED
  BY <1>1, <1>2, <1>3, <1>4

LEMMA TypeInit == Init => TypeOK
BY BookInit DEF Init, TypeOK, NewPayout, Payout, Place

\* The requests, the bank, the handlers and the journal keep their types.
THEOREM TypeCorrect == Spec => []TypeOK
<1>1. Init => TypeOK
  BY TypeInit
<1>2. TypeOK /\ [Next]_cvars => TypeOK'
  <2> SUFFICES ASSUME TypeOK, [Next]_cvars PROVE TypeOK'
    OBVIOUS
  <2>1. CASE UNCHANGED cvars
    BY <2>1 DEF TypeOK, BalanceTypeOK, cvars
  <2>2. CASE Next
    BY <2>2, TypeStep
  <2> QED
    BY <2>1, <2>2
<1> QED
  BY <1>1, <1>2, PTL DEF Spec

------------------------------------------------------------------------------
\* A cash-out whose request was not sent yet, or was refused, is unknown to the
\* bank; and a failure is only handled where the bank has failed.
Unsent(c) == payouts[c].at \in {"idle", "checked", "held", "saved"}
               => bank[c] = "none" /\ <<c, "hold_release">> \notin book.posted
Unheard(c) == payouts[c].at \in {"refused", "releasing", "released"} => bank[c] = "none"
Released(c) == <<c, "hold_release">> \in book.posted => bank[c] \in {"none", "failed"}
Handled(c) == \A h \in Handler : hooks[h].item = c /\ hooks[h].event = "failed" => bank[c] = "failed"

Grounds(c) == Unsent(c) /\ Unheard(c) /\ Released(c) /\ Handled(c)

\* A step of one request gives no other cash-out reason to be released.
LEMMA RequestGrounds ==
  ASSUME TypeOK, ~AnswersLost, NEW c \in Cashout, NEW d \in Cashout, Grounds(d),
         \/ Check(c) \/ Hold(c) \/ SaveRow(c) \/ Send(c) \/ Reject(c) \/ Accept(c) \/ SaveAccepted(c)
         \/ Look(c) \/ Release(c) \/ SaveRejected(c) \/ Die(c) \/ Verdict(c)
  PROVE  Grounds(d)'
<1> USE DEF Grounds, Unsent, Unheard, Released, Handled, TypeOK, BalanceTypeOK
<1>1. CASE Check(c) \/ Reject(c) \/ Accept(c) \/ Look(c) \/ Die(c)
  BY <1>1 DEF Check, Reject, Accept, Look, Die, Goes, At, Payout
<1>2. CASE SaveRow(c) \/ SaveAccepted(c) \/ SaveRejected(c)
  BY <1>2 DEF SaveRow, SaveAccepted, SaveRejected, Saves, At, Payout
<1>3. CASE Hold(c)
  <2>1. book'.posted = book.posted \cup {<<c, "hold">>}
    BY <1>3, Items, PostsType DEF Hold, Kind
  <2> QED
    BY <1>3, <2>1 DEF Hold, Goes, At, Payout
<1>4. CASE Release(c)
  <2>1. book'.posted = book.posted \cup {<<c, "hold_release">>}
    BY <1>4, Items, EntersType DEF Release, Kind
  <2> QED
    BY <1>4, <2>1 DEF Release, Goes, At, Payout
<1>5. CASE Send(c)
  BY <1>5 DEF Send, Goes, At, Payout
<1>6. CASE Verdict(c)
  BY <1>6 DEF Verdict
<1> QED
  BY <1>1, <1>2, <1>3, <1>4, <1>5, <1>6

\* Nor does a step of a handler.
LEMMA HookGrounds ==
  ASSUME TypeOK, NEW h \in Handler, NEW d \in Cashout, \A c \in Cashout : Grounds(c),
         \/ \E c \in Cashout, e \in Event : HookReads(h, c, e)
         \/ HookWrites(h) \/ HookLooks(h) \/ HookPosts(h) \/ HookDies(h)
  PROVE  Grounds(d)'
<1> USE DEF Grounds, Unsent, Unheard, Released, Handled, TypeOK, BalanceTypeOK
<1>1. ASSUME NEW c \in Cashout, NEW e \in Event, HookReads(h, c, e) PROVE Grounds(d)'
  <2>1. e = "failed" => bank[c] = "failed"
    BY <1>1 DEF HookReads, Reported
  <2> QED
    BY <1>1, <2>1 DEF HookReads
<1>2. CASE HookWrites(h)
  <2>1. hooks[h] \in Hook
    BY <1>2, BusyHook DEF HookWrites
  <2>2. payouts'[d].at = payouts[d].at
    BY <1>2, <2>1 DEF HookWrites, Saves, Hook, Payout
  <2> QED
    BY <1>2, <2>1, <2>2 DEF HookWrites, Hook
<1>3. CASE HookLooks(h)
  BY <1>3, BusyHook, Items DEF HookLooks, NoHook, Hook
<1>4. CASE HookPosts(h)
  <2> DEFINE c == hooks[h].item
             e == hooks[h].event
  <2>1. hooks[h] \in Hook /\ c \in Cashout /\ e \in Event
    BY <1>4, BusyHook DEF HookPosts, Hook
  <2>2. book'.posted = book.posted \cup {<<c, Entry(e)>>}
    BY <1>4, <2>1, Items, EntryKind, EntersType DEF HookPosts
  <2>3. Entry(e) = "hold_release" => bank[c] = "failed"
    BY <2>1 DEF Entry, Event
  <2>4. bank[c] = "failed" => ~(payouts[c].at \in {"idle", "checked", "held", "saved"})
    BY <2>1
  <2> QED
    BY <1>4, <2>1, <2>2, <2>3, <2>4, Items DEF HookPosts, NoHook
<1>5. CASE HookDies(h)
  BY <1>5, Items DEF HookDies, NoHook
<1> QED
  BY <1>1, <1>2, <1>3, <1>4, <1>5

\* Nothing is released at first, and no step releases without grounds.
LEMMA GroundsInit == Init => \A c \in Cashout : Grounds(c)
BY BookInit, Items DEF Init, Grounds, Unsent, Unheard, Released, Handled, NewPayout, NoHook

LEMMA GroundsStep ==
  ASSUME TypeOK, ~AnswersLost, \A c \in Cashout : Grounds(c), Next
  PROVE  \A c \in Cashout : Grounds(c)'
BY RequestGrounds, HookGrounds DEF Next

\* Where no answer is lost a hold is released on the bank's refusal only,
\* whatever overlaps, repeats, fails or dies.
THEOREM RefundCorrect ==
  ASSUME ~AnswersLost
  PROVE  Spec => []RefundedOnVerdict
<1> DEFINE Inv == \A c \in Cashout : Grounds(c)
<1>1. Init => Inv
  BY GroundsInit
<1>2. TypeOK /\ Inv /\ [Next]_cvars => Inv'
  <2> SUFFICES ASSUME TypeOK, Inv, [Next]_cvars, NEW d \in Cashout PROVE Grounds(d)'
    OBVIOUS
  <2>1. CASE UNCHANGED cvars
    BY <2>1 DEF Grounds, Unsent, Unheard, Released, Handled, cvars
  <2>2. CASE Next
    BY <2>2, GroundsStep
  <2> QED
    BY <2>1, <2>2
<1>3. Inv => RefundedOnVerdict
  BY DEF Grounds, Released, RefundedOnVerdict
<1> QED
  BY <1>1, <1>2, <1>3, TypeCorrect, PTL DEF Spec

------------------------------------------------------------------------------
\* What each entry of a cash-out rests on, and what its entries come to.
Has(c, kind) == <<c, kind>> \in book.posted

Rests(c) ==
  /\ Has(c, "debit_transfer") => bank[c] \in {"paid", "reversed"}
  /\ Has(c, "credit_available") => bank[c] = "reversed"
  /\ ~Has(c, "hold") => /\ payouts[c].at \in {"idle", "checked", "ended"}
                        /\ bank[c] = "none" /\ ~Has(c, "hold_release")
  /\ payouts[c].at = "releasing" => ~Has(c, "hold_release")

Account(c) ==
  /\ book.own[c] = IF Has(c, "hold") /\ ~Has(c, "hold_release") /\ ~Has(c, "debit_transfer")
                   THEN Price[c] ELSE 0
  /\ book.taken[c] = IF Has(c, "hold") /\ ~Has(c, "hold_release") /\ ~Has(c, "credit_available")
                     THEN Price[c] ELSE 0

\* A handler handles what the bank did, makes an entry only where there is none,
\* and no other handles the same at that time.
Hears(h) ==
  LET c == hooks[h].item
      e == hooks[h].event
  IN hooks[h] # NoHook =>
       /\ e = "success" => bank[c] \in {"paid", "reversed"}
       /\ e = "failed" => bank[c] = "failed"
       /\ e = "reversed" => bank[c] = "reversed"
       /\ hooks[h].at = "fresh" => ~Has(c, Entry(e))
       /\ \A g \in Handler \ {h} : hooks[g] = NoHook \/ hooks[g].item # c \/ hooks[g].event # e

\* The inductive invariant: each entry of a cash-out is made once and for a reason,
\* and so a hold is whole when it is drawn, and what a cash-out takes is what its
\* entries come to.
Sound == /\ \A c \in Cashout : Grounds(c) /\ Rests(c)
         /\ \A h \in Handler : Hears(h)

Settled == /\ Sound
           /\ \A c \in Cashout : Account(c)
           /\ HoldsTracked

\* An entry that is new and has the entries before it that it should.
Earned(c, kind) ==
  /\ ~Has(c, kind)
  /\ IF kind = "hold"
     THEN ~Has(c, "hold_release") /\ ~Has(c, "debit_transfer") /\ ~Has(c, "credit_available")
     ELSE /\ Has(c, "hold") /\ ~Has(c, "hold_release")
          /\ kind = "hold_release" => ~Has(c, "debit_transfer") /\ ~Has(c, "credit_available")

EarnsEntry == \/ UNCHANGED book
              \/ \E c \in Cashout, kind \in Kind : Enters(c, kind) /\ Earned(c, kind)

\* Such an entry moves one account as it should and no other.
LEMMA EntryAccounts ==
  ASSUME TypeOK, HoldsTracked, \A d \in Cashout : Account(d),
         NEW c \in Cashout, NEW kind \in Kind, Enters(c, kind), Earned(c, kind)
  PROVE  /\ HoldsTracked'
         /\ \A d \in Cashout : Account(d)'
<1> USE DEF Earned
<1>1. /\ c \in Item /\ book \in Books /\ Price[c] \in Nat
      /\ \A d \in Cashout : d \in Item /\ book.taken[d] \in Int /\ book.own[d] \in Nat
  BY Items, BalanceAssumption DEF TypeOK, BalanceTypeOK, Books
<1>2. book'.posted = book.posted \cup {<<c, kind>>}
  BY <1>1, EntersType
<1>3. Account(c)
  OBVIOUS
<1>4. CASE kind = "hold"
  <2>1. book'.taken = [book.taken EXCEPT ![c] = @ + Price[c]] /\ book'.own = [book.own EXCEPT ![c] = @ + Price[c]]
        /\ HoldsTracked'
    BY <1>1, <1>4, HoldEntry
  <2>2. book'.taken[c] = Price[c] /\ book'.own[c] = Price[c]
    BY <1>1, <1>3, <1>4, <2>1 DEF Account, Books
  <2>3. Account(c)'
    BY <1>2, <1>4, <2>2 DEF Account, Has
  <2>4. ASSUME NEW d \in Cashout, d # c PROVE Account(d)'
    <3>1. book'.taken[d] = book.taken[d] /\ book'.own[d] = book.own[d]
      BY <1>1, <2>1, <2>4 DEF Books
    <3> QED
      BY <1>2, <2>4, <3>1 DEF Account, Has
  <2> QED
    BY <1>2, <2>1, <2>3, <2>4
<1>5. CASE kind = "hold_release"
  <2>1. book.own[c] = Price[c] /\ book.taken[c] = Price[c]
    BY <1>3, <1>5 DEF Account
  <2>2. /\ book'.taken = [book.taken EXCEPT ![c] = @ - Price[c]]
        /\ book'.own = [book.own EXCEPT ![c] = 0]
        /\ HoldsTracked'
    BY <1>1, <1>5, <2>1, ReleaseEntry
  <2>3. book'.taken[c] = 0 /\ book'.own[c] = 0
    BY <1>1, <2>1, <2>2 DEF Books
  <2> QED
    BY <1>1, <1>2, <1>5, <2>2, <2>3 DEF Account, Has, Books
<1>6. CASE kind = "debit_transfer"
  <2>1. book.own[c] = Price[c]
    BY <1>3, <1>6 DEF Account
  <2>2. book'.taken = book.taken /\ book'.own = [book.own EXCEPT ![c] = 0] /\ HoldsTracked'
    BY <1>1, <1>6, <2>1, DebitEntry
  <2> QED
    BY <1>1, <1>2, <1>6, <2>2 DEF Account, Has, Books
<1>7. CASE kind = "credit_available"
  <2>1. book.taken[c] = Price[c]
    BY <1>3, <1>7 DEF Account
  <2>2. book'.taken = [book.taken EXCEPT ![c] = @ - Price[c]] /\ book'.own = book.own /\ HoldsTracked'
    BY <1>1, <1>7, CreditEntry
  <2>3. book'.taken[c] = 0
    BY <1>1, <2>1, <2>2 DEF Books
  <2> QED
    BY <1>1, <1>2, <1>7, <2>2, <2>3 DEF Account, Has, Books
<1> QED
  BY <1>4, <1>5, <1>6, <1>7 DEF Kind

LEMMA EarnsAccounts ==
  ASSUME TypeOK, HoldsTracked, \A d \in Cashout : Account(d), EarnsEntry
  PROVE  HoldsTracked' /\ \A d \in Cashout : Account(d)'
<1>1. CASE UNCHANGED book
  BY <1>1 DEF HoldsTracked, Account, Has
<1> QED
  BY <1>1, EntryAccounts DEF EarnsEntry

\* A request's entries are earned: its hold is new, and what it releases the bank
\* never heard of.
LEMMA RequestSound ==
  ASSUME TypeOK, Sound, ~AnswersLost, NEW c \in Cashout,
         \/ Check(c) \/ Hold(c) \/ SaveRow(c) \/ Send(c) \/ Reject(c) \/ Accept(c) \/ SaveAccepted(c)
         \/ Look(c) \/ Release(c) \/ SaveRejected(c) \/ Die(c) \/ Verdict(c)
  PROVE  Sound' /\ EarnsEntry
<1>0. \A d \in Cashout : Grounds(d)'
  BY RequestGrounds DEF Sound
<1> DEFINE Kept == /\ \A d \in Cashout : Rests(d)'
                   /\ \A h \in Handler : Hears(h)'
                   /\ EarnsEntry
<1> SUFFICES Kept
  BY <1>0 DEF Sound
<1>1. \A d \in Cashout : payouts[d] \in Payout
  BY DEF TypeOK
<1>2. \A d \in Cashout : d # c => payouts'[d] = payouts[d]
  BY DEF Check, Hold, SaveRow, Send, Reject, Accept, SaveAccepted, Look, Release, SaveRejected, Die,
         Verdict, Goes, Saves, TypeOK
<1>3. ASSUME UNCHANGED <<book, bank, hooks>>, Rests(c)' PROVE Kept
  <2>1. \A d \in Cashout : Rests(d)'
    BY <1>2, <1>3 DEF Sound, Rests, Has
  <2>2. \A h \in Handler : Hears(h)'
    BY <1>3 DEF Sound, Hears, Has
  <2> QED
    BY <1>3, <2>1, <2>2 DEF EarnsEntry
<1>4. CASE Check(c) \/ Reject(c) \/ Accept(c) \/ Look(c) \/ Die(c)
  <2>1. Rests(c)'
    BY <1>1, <1>4 DEF Sound, Rests, Has, Check, Reject, Accept, Look, Die, Goes, At, TypeOK, Payout, Place
  <2> QED
    BY <1>3, <1>4, <2>1 DEF Check, Reject, Accept, Look, Die
<1>5. CASE SaveRow(c) \/ SaveAccepted(c) \/ SaveRejected(c)
  <2>1. /\ payouts[c].at \notin {"idle", "checked", "ended"} /\ payouts'[c].at \in {"saved", "ended"}
        /\ UNCHANGED <<book, bank>>
    BY <1>1, <1>5 DEF SaveRow, SaveAccepted, SaveRejected, Saves, At, TypeOK
  <2>2. Rests(c)'
    BY <2>1 DEF Sound, Rests, Has
  <2> QED
    BY <1>3, <1>5, <2>2 DEF SaveRow, SaveAccepted, SaveRejected
<1>6. CASE Hold(c)
  <2>1. bank'[c] = bank[c] /\ hooks' = hooks /\ bank' = bank /\ payouts'[c].at = "held" /\ payouts[c].at = "checked"
    BY <1>1, <1>6 DEF Hold, Goes, At, TypeOK
  <2>2. CASE Has(c, "hold")
    <3>1. book' = book
      BY <1>6, <2>2 DEF Hold, Posts, Has
    <3>2. Rests(c)'
      BY <2>1, <2>2, <3>1 DEF Sound, Rests, Has
    <3> QED
      BY <1>3, <2>1, <3>1, <3>2
  <2>3. CASE ~Has(c, "hold")
    <3>1. Rests(c) /\ bank[c] = "none" /\ ~Has(c, "hold_release")
      BY <2>3 DEF Sound, Rests
    <3>2. ~Has(c, "debit_transfer") /\ ~Has(c, "credit_available")
      BY <3>1 DEF Rests
    <3>3. Enters(c, "hold")
      BY <1>6, <2>3 DEF Hold, Posts, Has
    <3>4. book'.posted = book.posted \cup {<<c, "hold">>} /\ EarnsEntry
      BY <2>3, <3>1, <3>2, <3>3, Items, EntersType DEF TypeOK, BalanceTypeOK, Kind, EarnsEntry, Earned
    <3>5. \A d \in Cashout : Rests(d)'
      BY <1>2, <2>1, <3>4 DEF Sound, Rests, Has
    <3>6. \A h \in Handler : hooks[h] # NoHook => Entry(hooks[h].event) # "hold"
      BY DEF TypeOK, Hook, Entry, Event
    <3>7. \A h \in Handler : Hears(h)'
      BY <2>1, <3>4, <3>6 DEF Sound, Hears, Has
    <3> QED
      BY <3>4, <3>5, <3>7
  <2> QED
    BY <2>2, <2>3
<1>7. CASE Release(c)
  <2>1. hooks' = hooks /\ bank' = bank /\ payouts'[c].at = "released" /\ payouts[c].at = "releasing"
    BY <1>1, <1>7 DEF Release, Goes, At, TypeOK
  <2>2. Rests(c) /\ ~Has(c, "hold_release") /\ bank[c] = "none"
    BY <2>1 DEF Sound, Rests, Grounds, Unheard
  <2>3. Has(c, "hold") /\ ~Has(c, "debit_transfer") /\ ~Has(c, "credit_available")
    BY <2>1, <2>2 DEF Rests
  <2>4. book'.posted = book.posted \cup {<<c, "hold_release">>} /\ EarnsEntry
    BY <1>7, <2>2, <2>3, Items, EntersType DEF TypeOK, BalanceTypeOK, Kind, Release, EarnsEntry, Earned
  <2>5. \A d \in Cashout : Rests(d)'
    BY <1>2, <2>1, <2>3, <2>4 DEF Sound, Rests, Has
  <2>6. \A h \in Handler : hooks[h].item = c /\ hooks[h].event \in Event => hooks[h].at # "fresh"
    BY <2>2, Items DEF Sound, Hears, NoHook, Event
  <2>7. \A h \in Handler : hooks[h] # NoHook => hooks[h].event \in Event
    BY DEF TypeOK, Hook
  <2>8. \A h \in Handler : Hears(h)'
    BY <2>1, <2>4, <2>6, <2>7 DEF Sound, Hears, Has
  <2> QED
    BY <2>4, <2>5, <2>8
<1>8. CASE Send(c)
  <2>1. /\ book' = book /\ hooks' = hooks
        /\ bank' = [bank EXCEPT ![c] = "pending"] /\ bank[c] = "none"
        /\ payouts[c].at = "saved" /\ payouts'[c].at = "sent"
    <3>1. payouts[c].at = "saved" /\ payouts' = [payouts EXCEPT ![c].at = "sent"]
      BY <1>8 DEF Send, Goes, At
    <3>2. Unsent(c)
      BY DEF Sound, Grounds
    <3> QED
      BY <1>1, <1>8, <3>1, <3>2 DEF Send, TypeOK, Unsent
  <2>2. \A d \in Cashout : Rests(d)'
    BY <1>2, <2>1 DEF Sound, Rests, Has, TypeOK
  <2>3. \A h \in Handler : hooks[h] # NoHook => hooks[h].item # c /\ hooks[h].item \in Cashout
    BY <2>1 DEF Sound, Hears, TypeOK, Hook, Event
  <2>4. \A h \in Handler : Hears(h)'
    BY <2>1, <2>3 DEF Sound, Hears, Has, TypeOK
  <2> QED
    BY <2>1, <2>2, <2>4 DEF EarnsEntry
<1>9. CASE Verdict(c)
  <2>1. /\ book' = book /\ hooks' = hooks /\ payouts' = payouts
        /\ bank[c] \in {"pending", "paid"}
        /\ bank[c] = "paid" => bank'[c] = "reversed"
        /\ bank'[c] \in {"paid", "failed", "reversed"}
        /\ \A d \in Cashout : d # c => bank'[d] = bank[d]
    BY <1>9 DEF Verdict, TypeOK
  <2>2. \A d \in Cashout : Rests(d)'
    BY <2>1 DEF Sound, Rests, Has
  <2>3. \A h \in Handler : hooks[h] # NoHook => hooks[h].item \in Cashout /\ hooks[h].event \in Event
    BY DEF TypeOK, Hook
  <2>4. \A h \in Handler : Hears(h)'
    BY <2>1, <2>3 DEF Sound, Hears, Has, Event
  <2> QED
    BY <2>1, <2>2, <2>4 DEF EarnsEntry
<1> QED
  BY <1>4, <1>5, <1>6, <1>7, <1>8, <1>9

\* So is a handler's: it is new, and the bank gave the reason for it.
LEMMA HookSound ==
  ASSUME TypeOK, Sound, ~Overlaps, NEW h \in Handler,
         \/ \E c \in Cashout, e \in Event : HookReads(h, c, e)
         \/ HookWrites(h) \/ HookLooks(h) \/ HookPosts(h) \/ HookDies(h)
  PROVE  Sound' /\ EarnsEntry
<1>0. \A d \in Cashout : Grounds(d)'
  BY HookGrounds DEF Sound
<1> DEFINE Kept == /\ \A d \in Cashout : Rests(d)'
                   /\ \A g \in Handler : Hears(g)'
                   /\ EarnsEntry
<1> SUFFICES Kept
  BY <1>0 DEF Sound
<1>1. \A g \in Handler : /\ hooks[g] # NoHook => hooks[g] \in Hook
                         /\ g # h => hooks'[g] = hooks[g]
  BY DEF TypeOK, HookReads, HookWrites, HookLooks, HookPosts, HookDies
<1>2. UNCHANGED bank /\ \A d \in Cashout : payouts'[d].at = payouts[d].at
  <2>1. CASE HookWrites(h)
    <3>1. hooks[h].item \in Cashout
      BY <2>1, BusyHook DEF HookWrites, Hook
    <3> QED
      BY <2>1, <3>1 DEF HookWrites, Saves, TypeOK, Payout
  <2> QED
    BY <2>1 DEF HookReads, HookLooks, HookPosts, HookDies
<1>3. ASSUME UNCHANGED book, \A g \in Handler : Hears(g)' PROVE Kept
  <2>1. \A d \in Cashout : Rests(d)'
    BY <1>2, <1>3 DEF Sound, Rests, Has
  <2> QED
    BY <1>3, <2>1 DEF EarnsEntry
<1>4. ASSUME UNCHANGED book, hooks'[h] = NoHook PROVE Kept
  <2>1. \A g \in Handler : Hears(g)'
    BY <1>1, <1>2, <1>4 DEF Sound, Hears, Has
  <2> QED
    BY <1>3, <1>4, <2>1
<1>5. ASSUME NEW c \in Cashout, NEW e \in Event, HookReads(h, c, e) PROVE Kept
  <2>1. CASE hooks' = hooks
    <3>1. \A g \in Handler : Hears(g)'
      BY <1>2, <1>5, <2>1 DEF Sound, Hears, Has, HookReads
    <3> QED
      BY <1>3, <1>5, <3>1 DEF HookReads
  <2>2. CASE hooks'[h].item = c /\ hooks'[h].event = e /\ hooks'[h].at = "read" /\ hooks[h] = NoHook
    <3>1. /\ e = "success" => bank[c] \in {"paid", "reversed"}
          /\ e = "failed" => bank[c] = "failed"
          /\ e = "reversed" => bank[c] = "reversed"
      BY <1>5 DEF HookReads, Reported
    <3>2. \A g \in Handler : hooks[g].item # c \/ hooks[g].event # e
      BY <1>5 DEF HookReads, Alone
    <3>3. Hears(h)'
      BY <1>1, <1>2, <2>2, <3>1, <3>2 DEF Hears
    <3>4. \A g \in Handler \ {h} : Hears(g)'
      BY <1>1, <1>2, <1>5, <2>2, <3>2 DEF Sound, Hears, Has, HookReads
    <3> QED
      BY <1>3, <1>5, <3>3, <3>4 DEF HookReads
  <2> QED
    BY <1>5, <2>1, <2>2 DEF HookReads, TypeOK
<1>6. ASSUME UNCHANGED book, hooks[h] # NoHook,
             hooks'[h].item = hooks[h].item, hooks'[h].event = hooks[h].event,
             hooks'[h].at = "fresh" => ~Has(hooks[h].item, Entry(hooks[h].event))
      PROVE  Kept
  <2>1. Hears(h)'
    <3>1. /\ Hears(h) /\ book' = book /\ bank' = bank
          /\ \A f \in Handler \ {h} : hooks'[f] = hooks[f]
      BY <1>1, <1>2, <1>6 DEF Sound
    <3>2. hooks'[h].at = "fresh" => <<hooks'[h].item, Entry(hooks'[h].event)>> \notin book'.posted
      BY <1>6 DEF Has
    <3>3. \A f \in Handler \ {h} : hooks'[f] = NoHook \/ hooks'[f].item # hooks'[h].item
                                     \/ hooks'[f].event # hooks'[h].event
      BY <1>6, <3>1 DEF Hears
    <3> QED
      BY <1>6, <3>1, <3>2, <3>3 DEF Hears, Has
  <2>2. ASSUME NEW g \in Handler, g # h PROVE Hears(g)'
    <3>1. hooks'[g] = hooks[g] /\ Hears(g) /\ book' = book /\ bank' = bank
      BY <1>1, <1>2, <1>6, <2>2 DEF Sound
    <3>2. ASSUME hooks[g] # NoHook, NEW f \in Handler, f # g
          PROVE  hooks'[f] = NoHook \/ hooks'[f].item # hooks[g].item \/ hooks'[f].event # hooks[g].event
      BY <1>1, <1>6, <3>1, <3>2 DEF Hears
    <3> QED
      BY <3>1, <3>2 DEF Hears, Has
  <2> QED
    BY <1>3, <1>6, <2>1, <2>2
<1>7. CASE HookWrites(h)
  <2>1. hooks[h] # NoHook /\ hooks'[h] = [hooks[h] EXCEPT !.at = "written"] /\ hooks[h] \in Hook
    BY <1>7, BusyHook DEF HookWrites, NoHook, TypeOK
  <2> QED
    BY <1>6, <1>7, <2>1 DEF HookWrites, Hook
<1>8. CASE HookLooks(h)
  <2>1. hooks[h] # NoHook /\ hooks[h] \in Hook
    BY <1>8, BusyHook DEF HookLooks, NoHook
  <2>2. CASE hooks' = [hooks EXCEPT ![h] = NoHook]
    BY <1>4, <1>8, <2>2 DEF HookLooks, TypeOK
  <2>3. CASE /\ hooks' = [hooks EXCEPT ![h].at = "fresh"]
             /\ ~Has(hooks[h].item, Entry(hooks[h].event))
    <3>1. hooks'[h] = [hooks[h] EXCEPT !.at = "fresh"]
      BY <2>3 DEF TypeOK
    <3> QED
      BY <1>6, <1>8, <2>1, <2>3, <3>1 DEF HookLooks, Hook
  <2> QED
    BY <1>8, <2>2, <2>3 DEF HookLooks, Has
<1>9. CASE HookPosts(h)
  <2> DEFINE c == hooks[h].item
             e == hooks[h].event
  <2>1. hooks[h] # NoHook /\ c \in Cashout /\ e \in Event /\ Entry(e) \in Kind /\ hooks[h].at = "fresh"
    BY <1>9, BusyHook, EntryKind DEF HookPosts, NoHook, Hook
  <2>2. Hears(h) /\ Rests(c) /\ Released(c) /\ ~Has(c, Entry(e))
    BY <2>1 DEF Sound, Hears, Grounds
  <2>3. /\ e = "success" => bank[c] \in {"paid", "reversed"} /\ Entry(e) = "debit_transfer"
        /\ e = "failed" => bank[c] = "failed" /\ Entry(e) = "hold_release"
        /\ e = "reversed" => bank[c] = "reversed" /\ Entry(e) = "credit_available"
    BY <2>1, <2>2 DEF Hears, Entry
  <2> HIDE DEF c, e
  <2>4. Has(c, "hold") /\ ~Has(c, "hold_release")
    BY <2>1, <2>2, <2>3 DEF Rests, Released, Has, Event
  <2>5. Entry(e) = "hold_release" => ~Has(c, "debit_transfer") /\ ~Has(c, "credit_available")
    BY <2>1, <2>2, <2>3 DEF Rests, Event
  <2>6. Enters(c, Entry(e)) /\ hooks'[h] = NoHook
    BY <1>9 DEF HookPosts, c, e, TypeOK
  <2>7. Entry(e) # "hold"
    BY <2>1, <2>3 DEF Event
  <2>8. book'.posted = book.posted \cup {<<c, Entry(e)>>} /\ EarnsEntry
    BY <2>1, <2>2, <2>4, <2>5, <2>6, <2>7, Items, EntersType DEF TypeOK, BalanceTypeOK, EarnsEntry, Earned
  <2>9. \A d \in Cashout : Rests(d)'
    <3>1. Entry(e) = "hold_release" => payouts[c].at # "releasing"
      BY <2>1, <2>3 DEF Sound, Grounds, Unheard, Event
    <3> QED
      BY <1>2, <2>1, <2>3, <2>4, <2>8, <3>1 DEF Sound, Rests, Has, Event
  <2>10. ASSUME NEW g \in Handler, g # h, hooks[g] # NoHook PROVE hooks[g].item # c \/ Entry(hooks[g].event) # Entry(e)
    <3>1. hooks[g].item # c \/ hooks[g].event # e
      BY <2>1, <2>2, <2>10 DEF Hears, c, e
    <3>2. hooks[g].event \in Event
      BY <1>1, <2>10 DEF Hook
    <3> QED
      BY <2>1, <3>1, <3>2 DEF Entry, Event
  <2>11. \A g \in Handler : Hears(g)'
    BY <1>1, <1>2, <2>6, <2>8, <2>10 DEF Sound, Hears, Has
  <2> QED
    BY <2>8, <2>9, <2>11
<1>10. CASE HookDies(h)
  BY <1>4, <1>10 DEF HookDies, TypeOK
<1> QED
  BY <1>5, <1>7, <1>8, <1>9, <1>10

\* However the holds are drawn upon, a cash-out never takes less than nothing, and
\* the price of its hold until that is given back.
Covered(c) ==
  /\ book.taken[c] >= 0
  /\ Has(c, "hold") /\ ~Has(c, "hold_release") /\ ~Has(c, "credit_available") => book.taken[c] >= Price[c]

LEMMA EarnsCovered ==
  ASSUME TypeOK, \A d \in Cashout : Covered(d), EarnsEntry
  PROVE  \A d \in Cashout : Covered(d)'
<1>1. CASE UNCHANGED book
  BY <1>1 DEF Covered, Has
<1>2. ASSUME NEW c \in Cashout, NEW kind \in Kind, Enters(c, kind), Earned(c, kind), NEW d \in Cashout
      PROVE  Covered(d)'
  <2>1. /\ c \in Item /\ d \in Item /\ book \in Books /\ Price[d] \in Nat
        /\ book.taken[d] \in Int /\ Covered(d)
    BY Items, BalanceAssumption DEF TypeOK, BalanceTypeOK, Books
  <2>2. CASE d # c
    <3>1. /\ book'.taken[d] = book.taken[d]
          /\ \A other : <<d, other>> \in book'.posted <=> <<d, other>> \in book.posted
      BY <1>2, <2>1, <2>2, EntryIsOfOne
    <3> QED
      BY <2>1, <3>1 DEF Covered, Has
  <2>3. CASE d = c
    <3>1. book'.posted = book.posted \cup {<<c, kind>>} /\ book' \in Books
      BY <1>2, <2>1, EntersType
    <3>2. book'.taken[c] \in Int
      BY <2>1, <3>1 DEF Books
    <3>3. /\ kind = "hold" => book'.taken[c] = book.taken[c] + Price[c]
          /\ kind \in {"hold_release", "credit_available"} => book'.taken[c] = book.taken[c] - Price[c]
          /\ kind = "debit_transfer" => book'.taken[c] >= book.taken[c]
      BY <1>2, <2>1, EntryTakes
    <3>4. kind = "debit_transfer" =>
            /\ Has(c, "hold")' <=> Has(c, "hold")
            /\ Has(c, "hold_release")' <=> Has(c, "hold_release")
            /\ Has(c, "credit_available")' <=> Has(c, "credit_available")
      BY <3>1 DEF Has
    <3>5. kind \in {"hold_release", "credit_available"} => Has(c, kind)'
      BY <3>1 DEF Has
    <3>6. kind = "credit_available" => book.taken[c] >= Price[c]
      BY <1>2, <2>1, <2>3 DEF Covered, Earned
    <3>7. kind = "hold_release" => book.taken[c] >= Price[c]
      BY <1>2, <2>1, <2>3 DEF Covered, Earned
    <3> QED
      BY <2>1, <2>3, <3>2, <3>3, <3>4, <3>5, <3>6, <3>7 DEF Covered, Kind
  <2> QED
    BY <2>2, <2>3
<1> QED
  BY <1>1, <1>2 DEF EarnsEntry

\* The accounts are in order at first, and every step keeps them so.
LEMMA SoundStep ==
  ASSUME TypeOK, Sound, ~AnswersLost, ~Overlaps, Next
  PROVE  Sound' /\ EarnsEntry
BY RequestSound, HookSound DEF Next

LEMMA SettledStep ==
  ASSUME TypeOK, Settled, ~AnswersLost, ~Overlaps, Next
  PROVE  Settled'
BY SoundStep, EarnsAccounts DEF Settled

LEMMA SettledInit == Init => Settled
<1> SUFFICES ASSUME Init PROVE Settled
  OBVIOUS
<1>1. HoldsTracked
  BY BalanceAssumption, SumZero DEF Init, BalanceInit, NewBook, HoldsTracked
<1>2. \A c \in Cashout : Rests(c) /\ Account(c)
  BY Items DEF Init, BalanceInit, NewBook, NewPayout, Rests, Account, Has
<1> QED
  BY <1>1, <1>2, GroundsInit DEF Settled, Sound, Hears, Init

\* Where no answer is lost and no two calls make the same entry at once, a cash-out
\* takes its price or nothing, whatever is written back, repeated, reordered or
\* cut short.
THEOREM TakenCorrect ==
  ASSUME ~AnswersLost, ~Overlaps
  PROVE  Spec => []TakenOnce
<1>1. Init => Settled
  BY SettledInit
<1>2. TypeOK /\ Settled /\ [Next]_cvars => Settled'
  <2> SUFFICES ASSUME TypeOK, Settled, [Next]_cvars PROVE Settled'
    OBVIOUS
  <2>1. CASE UNCHANGED cvars
    BY <2>1 DEF cvars, Settled, Sound, Grounds, Unsent, Unheard, Released, Handled, Rests, Account, Has, Hears,
                HoldsTracked
  <2>2. CASE Next
    BY <2>2, SettledStep
  <2> QED
    BY <2>1, <2>2
<1>3. Settled => TakenOnce
  BY DEF Settled, Account, TakenOnce
<1> QED
  BY <1>1, <1>2, <1>3, TypeCorrect, PTL DEF Spec
=============================================================================
