------------------------------ MODULE Catalogue ------------------------------
(***************************************************************************)
(* One product with its variants, its reviews, its category and the list of *)
(* categories: the rows, the Redis entries made of them                     *)
(* (ProductsService.findOne and CategoriesService.findAll read through the  *)
(* cache), the admin pages that edit them, and the sales of Checkout, which *)
(* change the stock beside them. At most one variant exists at a time;      *)
(* saving it makes a new one.                                               *)
(***************************************************************************)
EXTENDS Integers, FiniteSets

CONSTANTS
  Clients,   \* pages of the shop or of the admins
  MaxEdits,  \* bound: edits of each kind of rows
  MaxStock   \* bound: units in stock

Keys == {"product", "categories"}

VARIABLES
  version,   \* version[k]: edits committed to the rows of the product (with its variants
             \* and reviews), and to those of the categories
  entry,     \* entry[k]: what Redis holds, or NoCopy
  client,    \* client[c]: a request in progress, and the copy its form was filled with
  product,   \* the row of products: soft deleted, stock, edits of its category so far;
             \* placed and supply are history
  variant,   \* the row of product_variants: its id, 0 for none, and the same
  ordered,   \* ids of variants that order_items refers to
  inCart,    \* id of the variant a cart refers to, 0 for none
  excused,   \* history: excused[k]: the stale entry was written late, or its DEL failed
  unsaved    \* history: an edit that was rolled back was answered with success

vars == <<version, entry, client, product, variant, ordered, inCart, excused, unsaved>>
rows == <<product, variant, ordered, inCart>>

\* What a request has read: versions of the row, of the variants and of the
\* category joined to the row, and stocks.
NoCopy == [row |-> -1, variants |-> -1, category |-> 0, stock |-> 0, id |-> 0, variantStock |-> 0]
NoClient == [pc |-> "idle", key |-> "product", goal |-> "look", seen |-> NoCopy, form |-> NoCopy]

Init ==
  /\ version = [k \in Keys |-> 0] /\ entry = [k \in Keys |-> NoCopy]
  /\ client = [c \in Clients |-> NoClient]
  /\ product = [deleted |-> FALSE, category |-> 0, stock |-> 1, placed |-> 0, supply |-> 1]
  /\ \E id \in {0, 1} : variant = [id |-> id, stock |-> 1, placed |-> 0, supply |-> 1]
  /\ ordered = {} /\ inCart = 0
  /\ excused = [k \in Keys |-> "none"] /\ unsaved = FALSE

-----------------------------------------------------------------------------
(* Reading through the cache *)

\* A request whose answer is `copy': a page keeps it, an update or a deletion
\* of the controller goes on.
Answered(c, copy) ==
  IF client[c].goal # "look" THEN [client[c] EXCEPT !.pc = "write", !.seen = NoCopy]
  ELSE IF client[c].key = "categories" THEN NoClient
  ELSE [NoClient EXCEPT !.form = [copy EXCEPT !.row = 0, !.variants = 0, !.category = 0]]

\* The page shows an error, and keeps what was typed.
Failed(c) == [NoClient EXCEPT !.form = client[c].form]

\* A page is opened, or an update or a deletion looks whether the product exists.
Ask(c, k, goal) ==
  /\ client[c].pc = "idle"
  /\ goal = "save" => client[c].form.row >= 0
  /\ client' = [client EXCEPT ![c].pc = "get", ![c].key = k, ![c].goal = goal,
                          ![c].form = IF goal = "save" THEN @ ELSE NoCopy]
  /\ UNCHANGED <<version, entry, rows, excused, unsaved>>

\* A hit; or a miss, or Redis fails, which is only logged.
Get(c) ==
  LET k == client[c].key IN
  /\ client[c].pc = "get"
  /\ \/ /\ entry[k] # NoCopy
        /\ client' = [client EXCEPT ![c] = Answered(c, entry[k])]
     \/ client' = [client EXCEPT ![c].pc = "row"]
  /\ UNCHANGED <<version, entry, rows, excused, unsaved>>

\* The row, with the category's name and the rating; a deleted product has none.
ReadRow(c) ==
  LET k == client[c].key IN
  /\ client[c].pc = "row"
  /\ client' = [client EXCEPT ![c] =
       IF k = "categories"
       THEN [@ EXCEPT !.pc = "set", !.seen = [NoCopy EXCEPT !.row = version[k], !.variants = version[k]]]
       ELSE IF product.deleted THEN Failed(c)
       ELSE [@ EXCEPT !.pc = "variants",
                      !.seen = [NoCopy EXCEPT !.row = version[k], !.category = product.category,
                                            !.stock = product.stock]]]
  /\ UNCHANGED <<version, entry, rows, excused, unsaved>>

\* The variants are read by a statement of their own.
ReadVariants(c) ==
  /\ client[c].pc = "variants"
  /\ client' = [client EXCEPT ![c].pc = "set", ![c].seen =
       [@ EXCEPT !.variants = version["product"], !.id = variant.id, !.variantStock = variant.stock]]
  /\ UNCHANGED <<version, entry, rows, excused, unsaved>>

\* The copy shows every edit of the product itself, or of the categories' list.
IsCurrent(k, copy) == copy.row = version[k] /\ copy.variants = version[k]

\* The answer is cached; that this fails is only logged.
Set(c) ==
  LET k == client[c].key IN
  /\ client[c].pc = "set"
  /\ \/ /\ entry' = [entry EXCEPT ![k] = client[c].seen]
        /\ excused' = [excused EXCEPT ![k] = IF IsCurrent(k, client[c].seen) THEN "none" ELSE "late"]
     \/ UNCHANGED <<entry, excused>>
  /\ client' = [client EXCEPT ![c] = Answered(c, client[c].seen)]
  /\ UNCHANGED <<version, rows, unsaved>>

\* The time to live of the entry is over.
Expire(k) ==
  /\ entry[k] # NoCopy
  /\ entry' = [entry EXCEPT ![k] = NoCopy] /\ excused' = [excused EXCEPT ![k] = "none"]
  /\ UNCHANGED <<version, client, rows, unsaved>>

-----------------------------------------------------------------------------
(* Edits *)

Committed(c) ==
  LET k == client[c].key IN
  /\ version[k] < MaxEdits
  /\ version' = [version EXCEPT ![k] = @ + 1]
  /\ client' = [client EXCEPT ![c].pc = "invalidate", ![c].form = NoCopy]

\* The form sends the stock it was filled with, or a delivery more.
SavedStock(c, more) == client[c].form.stock + more

\* update without variants: the form had none, or lost its last one (which the
\* server is then not told).
Save(c, more) ==
  /\ client[c].pc = "write" /\ client[c].goal = "save"
  /\ SavedStock(c, more) <= MaxStock
  /\ product' = [product EXCEPT !.stock = SavedStock(c, more), !.supply = @ + more]
  /\ Committed(c)
  /\ UNCHANGED <<entry, variant, ordered, inCart, excused, unsaved>>

\* The form sends a new variant, or the one it was filled with, or a delivery more.
VariantStock(c, more) ==
  (IF client[c].form.id = 0 THEN 0 ELSE client[c].form.variantStock) + more

\* update with variants deletes what there is, unless an order item refers to
\* it (foreign key), and inserts new rows.
Deletable_Any == TRUE
Deletable == variant.id \notin ordered
SaveVariants(c, more) ==
  LET stock == VariantStock(c, more) IN
  /\ client[c].pc = "write" /\ client[c].goal = "save" /\ Deletable
  /\ stock <= MaxStock
  /\ product' = [product EXCEPT !.stock = SavedStock(c, 0)]
  /\ variant' = [id |-> version["product"] + 2, stock |-> stock, placed |-> 0, supply |-> stock]
  /\ Committed(c)
  /\ UNCHANGED <<entry, ordered, inCart, excused, unsaved>>

\* The foreign key, or any other error of the transaction.
SaveFails(c) ==
  /\ client[c].pc = "write"
  /\ client' = [client EXCEPT ![c] = Failed(c)]
  /\ UNCHANGED <<version, entry, rows, excused, unsaved>>

\* An error of the insertion (a price or a SKU too long) is caught inside the
\* transaction, which PostgreSQL then rolls back at its COMMIT.
SaveSwallowed(c) ==
  /\ client[c].pc = "write" /\ client[c].goal = "save"
  /\ client' = [client EXCEPT ![c].pc = "invalidate", ![c].form = NoCopy]
  /\ unsaved' = TRUE
  /\ UNCHANGED <<version, entry, rows, excused>>

\* delete marks the row; a second deletion finds none.
Delete(c) ==
  /\ client[c].pc = "write" /\ client[c].goal = "delete" /\ ~product.deleted
  /\ product' = [product EXCEPT !.deleted = TRUE]
  /\ Committed(c)
  /\ UNCHANGED <<entry, variant, ordered, inCart, excused, unsaved>>

\* CategoriesService.create, update and remove: only the list's entry gets a
\* DEL, though the product's shows the name of its own category.
EditCategories(c) ==
  /\ client[c].pc = "idle" /\ version["categories"] < MaxEdits
  /\ version' = [version EXCEPT !["categories"] = @ + 1]
  /\ \E own \in {0, 1} : product' = [product EXCEPT !.category = @ + own]
  /\ client' = [client EXCEPT ![c] = [NoClient EXCEPT !.pc = "invalidate", !.key = "categories"]]
  /\ UNCHANGED <<entry, variant, ordered, inCart, excused, unsaved>>

\* A review is approved, rejected, edited or deleted: the rating changes.
ReviewsChange(c) ==
  /\ client[c].pc = "idle" /\ version["product"] < MaxEdits
  /\ version' = [version EXCEPT !["product"] = @ + 1]
  /\ client' = [client EXCEPT ![c] = [NoClient EXCEPT !.pc = "invalidate"]]
  /\ UNCHANGED <<entry, rows, excused, unsaved>>

\* DEL of the entry; that this fails is only logged.
Invalidate_Not(c) ==
  /\ client[c].pc = "invalidate"
  /\ client' = [client EXCEPT ![c] = NoClient]
  /\ UNCHANGED <<version, entry, rows, excused, unsaved>>
Invalidate(c) ==
  LET k == client[c].key IN
  /\ client[c].pc = "invalidate"
  /\ \/ entry' = [entry EXCEPT ![k] = NoCopy] /\ excused' = [excused EXCEPT ![k] = "none"]
     \/ /\ UNCHANGED entry
        /\ excused' = [excused EXCEPT ![k] =
             IF entry[k] = NoCopy \/ IsCurrent(k, entry[k]) THEN @ ELSE "failed"]
  /\ client' = [client EXCEPT ![c] = NoClient]
  /\ UNCHANGED <<version, rows, unsaved>>

-----------------------------------------------------------------------------
(* Carts and sales: none of them touches the cache *)

AddToCart ==
  /\ variant.id # 0 /\ ~product.deleted /\ inCart = 0
  /\ inCart' = variant.id
  /\ UNCHANGED <<version, entry, client, product, variant, ordered, excused, unsaved>>

Sold(sku) == [sku EXCEPT !.stock = @ - 1, !.placed = @ + 1]
Restocked(sku) == [sku EXCEPT !.stock = @ + 1, !.placed = @ - 1]

\* A checkout of one unit of the product, or of the variant in the cart.
Buy ==
  /\ ~product.deleted /\ product.stock > 0 /\ product' = Sold(product)
  /\ UNCHANGED <<version, entry, client, variant, ordered, inCart, excused, unsaved>>
BuyVariant ==
  /\ ~product.deleted /\ inCart # 0 /\ inCart = variant.id /\ variant.stock > 0
  /\ variant' = Sold(variant) /\ ordered' = ordered \cup {variant.id} /\ inCart' = 0
  /\ UNCHANGED <<version, entry, client, product, excused, unsaved>>

\* The order is cancelled, and its units return.
CancelSale ==
  /\ \/ product.placed > 0 /\ product.stock < MaxStock /\ product' = Restocked(product) /\ UNCHANGED variant
     \/ variant.placed > 0 /\ variant' = Restocked(variant) /\ UNCHANGED product
  /\ UNCHANGED <<version, entry, client, ordered, inCart, excused, unsaved>>

Next ==
  \/ \E c \in Clients :
       \/ Ask(c, "categories", "look")
       \/ \E goal \in {"look", "save", "delete"} : Ask(c, "product", goal)
       \/ Get(c) \/ ReadRow(c) \/ ReadVariants(c) \/ Set(c)
       \/ \E more \in {0, 1} : Save(c, more) \/ SaveVariants(c, more)
       \/ SaveFails(c) \/ SaveSwallowed(c) \/ Delete(c) \/ Invalidate(c)
       \/ EditCategories(c) \/ ReviewsChange(c)
  \/ \E k \in Keys : Expire(k)
  \/ AddToCart \/ Buy \/ BuyVariant \/ CancelSale

Spec == Init /\ [][Next]_vars
-----------------------------------------------------------------------------
(* Properties *)

\* A DEL of the entry is on its way.
Coming(k) == \E c \in Clients : client[c].pc = "invalidate" /\ client[c].key = k

\* An edit of the product, its variants or its reviews, or of the list of
\* categories, shows ("Invalidate the specific product cache"): an entry that
\* lacks one has a DEL on its way, or was written after it by a request that had
\* read before it, or its DEL failed. Nothing is said of the name of the
\* product's category, or of its stock, which sales change beside the cache.
EditsAreShown ==
  \A k \in Keys :
    entry[k] # NoCopy /\ ~IsCurrent(k, entry[k]) => excused[k] # "none" \/ Coming(k)

\* The late writes are not excused by the tests: "Next read after update settles
\* MUST return the new authoritative price".
NextReadIsNew ==
  entry["product"] # NoCopy /\ ~IsCurrent("product", entry["product"]) =>
    excused["product"] = "failed" \/ Coming("product")

\* A renamed category shows on the pages of its products, as on the list.
CategoryIsShown ==
  entry["product"] # NoCopy /\ entry["product"].category # product.category =>
    excused["product"] # "none" \/ Coming("product")

\* Whatever is edited from whatever copy, a variant that has been ordered stays,
\* and its stock is what was supplied less what is sold.
SoldVariantsStay ==
  /\ ordered \subseteq {variant.id}
  /\ ordered # {} => variant.stock + variant.placed = variant.supply

\* The same is not true of the product's own stock: "Zero chance of overselling
\* even under heavy concurrency".
NeverOversold == product.stock + product.placed <= product.supply

\* "Product updated successfully".
AnsweredIsSaved == ~unsaved

\* What is in a cart can be bought.
CartIsBuyable == inCart # 0 => inCart = variant.id
=============================================================================
