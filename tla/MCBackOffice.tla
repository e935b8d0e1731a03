----------------------------- MODULE MCBackOffice -----------------------------
(***************************************************************************)
(* Four components that share no state, checked by one run: a behaviour is  *)
(* one of AddressBook, CartReminders, Catalogue (of a product, or of the    *)
(* list of categories) or RequestLimits, chosen by the initial state.       *)
(***************************************************************************)
EXTENDS Integers, TLC

CONSTANTS Addresses, Pages, NoAddress, Items, Instances, MaxChanges,
          Clients, MaxEdits, MaxStock, Account, TTL

ASSUME Assumptions ==
  /\ NoAddress \notin Addresses /\ Account \notin Clients
  /\ MaxChanges \in Nat /\ MaxEdits \in Nat /\ MaxStock \in Nat /\ TTL \in Nat \ {0}

VARIABLES part,
  saved, default, shipped, req, mixed,
  rows, active, stocked, job, events, changes, early,
  version, entry, client, product, variant, ordered, inCart, excused, unsaved,
  counter, asking, recent, refusals

Book == INSTANCE AddressBook WITH ordered <- shipped
Reminders == INSTANCE CartReminders
Shelf == INSTANCE Catalogue
Limits == INSTANCE RequestLimits

book == <<saved, default, shipped, req, mixed>>
reminders == <<rows, active, stocked, job, events, changes, early>>
shelf == <<version, entry, client, product, variant, ordered, inCart, excused, unsaved>>
limits == <<counter, asking, recent, refusals>>
vars == <<part, book, reminders, shelf, limits>>

Init ==
  /\ part \in {"addresses", "reminders", "product", "categories", "limits"}
  /\ Book!Init /\ Reminders!Init /\ Shelf!Init /\ Limits!Init
  /\ part # "product" => variant.id = 0

Next ==
  \/ /\ part = "addresses" /\ Book!Next
     /\ UNCHANGED <<part, reminders, shelf, limits>>
  \/ /\ part = "reminders" /\ Reminders!Next
     /\ UNCHANGED <<part, book, shelf, limits>>
  \/ /\ part \in {"product", "categories"} /\ Shelf!Next
     /\ UNCHANGED <<part, book, reminders, limits>>
  \/ /\ part = "limits" /\ Limits!Next
     /\ UNCHANGED <<part, book, reminders, shelf>>

Spec == Init /\ [][Next]_vars

\* One set of two values stands for the pages, instances and clients.
Symmetry == Permutations(Clients)

\* Which save was answered falsely matters to AnsweredIsSaved alone.
Visible == <<part, book, reminders, version, entry, client, product, variant, ordered, inCart, excused, limits>>

\* What is explored: address requests up to the first overlap with an insertion
\* or a removal; the product's entry or that of the categories; sales of the
\* product when it has no variants, of the variant otherwise; edits of categories
\* beside the product's entry while it has no variants and nothing is sold.
Explored ==
  /\ ~mixed
  /\ part = "product" =>
       /\ \A c \in Clients : client[c].pc \in {"idle", "invalidate"} \/ client[c].key = "product"
       /\ variant.id = 0 \/ (product.placed = 0 /\ product.supply = 1)
       /\ version["categories"] = 0 \/ (variant.id = 0 /\ product.placed = 0 /\ product.supply = 1)
  /\ part = "categories" =>
       /\ \A c \in Clients : client[c].pc # "idle" => client[c].key = "categories"
       /\ inCart = 0 /\ product.placed = 0

-----------------------------------------------------------------------------

\* AddressBook: overlapping requests leave at most one default address.
DefaultsStayUnique == Book!DefaultsStayUnique

\* CartReminders: no more reminders than changes of the cart.
RemindedOncePerChange == Reminders!RemindedOncePerChange

\* Catalogue: an entry that lacks an edit was written late, or has its DEL coming.
EditsAreShown == Shelf!EditsAreShown

\* Catalogue: ordered variants keep their row and their stock's balance.
SoldVariantsStay == Shelf!SoldVariantsStay

\* RequestLimits: two windows' worth of requests in any one window.
RollingBound == Limits!RollingBound

\* RequestLimits: who waits as announced is refused once more at most.
PatientIsServed == Limits!PatientIsServed

\* What the documentation promises and the code does not keep (README; the
\* first two without ~mixed above).
OneDefault == Book!OneDefault
SomeDefault == Book!SomeDefault
OnlyIdleReminded == Reminders!OnlyIdleReminded
NextReadIsNew == Shelf!NextReadIsNew
CategoryIsShown == Shelf!CategoryIsShown
NeverOversold == Shelf!NeverOversold
AnsweredIsSaved == Shelf!AnsweredIsSaved
CartIsBuyable == Shelf!CartIsBuyable
WaitedOutIsServed == Limits!WaitedOutIsServed
=============================================================================
