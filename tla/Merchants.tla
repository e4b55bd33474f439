------------------------------ MODULE Merchants ------------------------------
(***************************************************************************)
(* Merchants, what they sell, and the pictures of it, composed with the    *)
(* reviews that write a merchant's rating.                                 *)
(*                                                                         *)
(* Opening a shop makes its owner a merchant, deleting it makes him a      *)
(* requester again.  Rows of users and shops are read and written back     *)
(* whole.  A picture is uploaded first; its key comes back in a form as    *)
(* the signed address a page showed, and the picture a row no longer shows *)
(* is removed from the store.  Each form is filled with pictures of its    *)
(* own: two rows never share one.                                          *)
(*                                                                         *)
(* A handler is a process that steps from one call of the database or the  *)
(* store to the next.  Scenes bounds a behaviour: which rows there are at  *)
(* the start, which parts are touched, how many operations there may be.   *)
(***************************************************************************)
EXTENDS Reviews

CONSTANTS
    Parts, Kind, Parent,   \* a menu, a category, a group, an option, a shared addition
    Images, Clerks, Scenes, NoCache

Kinds == {"menu", "category", "variantGroup", "variantOption", "toppingGroup",
          "toppingOption", "addonMaster", "addonOption"}
Groups == {"variantGroup", "toppingGroup"}
Options == {"variantOption", "toppingOption", "addonOption"}
Roles == {"requester", "merchant"}
Classes == {"shop", "edit", "part", "upload", "review", "fill", "fault"}

\* Menus, categories and shared additions are a shop's own, a menu has groups, and groups and
\* shared additions have options.
ShopOfPart(x) ==
    IF Parent[x] \in Shops THEN Parent[x]
    ELSE IF Parent[Parent[x]] \in Shops THEN Parent[Parent[x]] ELSE Parent[Parent[Parent[x]]]

ASSUME MerchantsAssumption ==
    /\ Kind \in [Parts -> Kinds] /\ Parent \in [Parts -> Parts \cup Shops]
    /\ \A x \in Parts : ShopOfPart(x) \in Shops
    /\ Nothing \notin Images \cup Parts /\ Shops \cap Parts = {}

\* At the start nobody has two shops, no two parts show one picture, what a part is in is
\* there, and only runners and shops were rated.
ASSUME ScenesAssumption ==
    \A c \in Scenes :
        /\ Classes \cup {"parts"} \subseteq DOMAIN c /\ c.parts \subseteq Parts
        /\ \A class \in Classes : c[class] \in Nat
        /\ c.owner \in [Shops -> Users \cup {Nothing}]
        /\ \A s, t \in Shops : c.owner[s] = c.owner[t] => s = t \/ c.owner[s] = Nothing
        /\ c.shows \in [Parts -> Images \cup {Nothing}] /\ c.stock \subseteq Parts
        /\ \A x, y \in c.stock : c.shows[x] = c.shows[y] => x = y \/ c.shows[x] = Nothing
        /\ \A x \in c.stock : IF Parent[x] \in Parts THEN Parent[x] \in c.stock
                                                      ELSE c.owner[Parent[x]] # Nothing
        /\ c.past \subseteq Review /\ IsFiniteSet(c.past)
        /\ \A r, s \in c.past : r.by = "requester" /\ (Same(r, s) => r = s)

VARIABLES
    role,      \* column role of table users
    shop,      \* table merchants, but for the rating
    part,      \* tables menus, menu_categories, menu_variant_groups, ... addon_options
    store,     \* the object store
    nearby,    \* the cached list of merchants that are near
    proc,      \* handlers under way
    muddled,   \* ghost: rows written by one who had seen them otherwise
    tangled,   \* ghost: users whose role was written so, or who had two shops, or whose shop
               \* was deleted twice or not to the end
    old,       \* ghost: the cached list was taken before a change, or the change was not told
    scene      \* bound: what may still happen

shopVars == <<role, shop, tangled>>
partVars == <<part, store, muddled>>
cacheVars == <<nearby, old>>
vars == <<reviewVars, shopVars, partVars, cacheVars, proc, scene>>

Takes(class) == scene[class] > 0 /\ scene' = [scene EXCEPT ![class] = @ - 1]

-----------------------------------------------------------------------------
(* Tables                                                                   *)

Life == {"none", "live", "gone", "erased"}   \* gone: marked as deleted
Shop == [life : Life, owner : Users \cup {Nothing}, open : BOOLEAN, auto : {FALSE},
         image : Images \cup {Nothing}]
Part == [life : Life, image : Images \cup {Nothing}]
NoShop == [life |-> "none", owner |-> Nothing, open |-> FALSE, auto |-> FALSE, image |-> Nothing]
NoPart == [life |-> "none", image |-> Nothing]

Live(x) == IF x \in Shops THEN shop[x].life = "live" ELSE part[x].life = "live"
ShopsOf(u) == {s \in Shops : Live(s) /\ shop[s].owner = u}
Inside(x) == {y \in Parts : Parent[y] = x}
\* A foreign key is satisfied by a row that is only marked as deleted.
Exists(x) == (IF x \in Shops THEN shop[x].life ELSE part[x].life) \in {"live", "gone"}
Shown(x) ==
    /\ Live(x) /\ Live(ShopOfPart(x))
    /\ Parent[x] \in Parts => Live(Parent[x])
    /\ Parent[x] \in Parts /\ Parent[Parent[x]] \in Parts => Live(Parent[Parent[x]])

\* A page shows a picture under an address that is signed for an hour; what a form brings
\* back is the address.
SignedURL(i) == IF i = Nothing THEN Nothing ELSE [url |-> i]
SanitizeStorageKey(u) == IF u = Nothing \/ u \in Images THEN u ELSE u.url

View == [s \in Shops |-> IF Live(s) THEN {shop[s].open} ELSE {}]

-----------------------------------------------------------------------------
(* Handlers                                                                 *)

Work(op, step, x) ==
    [op |-> op, at |-> step, on |-> x, user |-> Nothing, row |-> Nothing, base |-> Nothing,
     form |-> Nothing, open |-> FALSE, list |-> Nothing, images |-> {}]
Is(p, ops, step) == proc[p] # Nothing /\ proc[p].op \in ops /\ proc[p].at = step
Begin(p, w) == proc[p] = Nothing /\ proc' = [proc EXCEPT ![p] = w]
Goes(p, step) == proc' = [proc EXCEPT ![p].at = step]
Ends(p) == proc' = [proc EXCEPT ![p] = Nothing]
Rests == UNCHANGED <<reviewVars, shopVars, partVars, cacheVars>>
ShopRests == UNCHANGED <<reviewVars, shopVars>>
Remove(images) == store' = [i \in Images |-> IF i \in images THEN "removed" ELSE store[i]]

\* The database or the store fails, or the server stops: what was done stays done.
Breaks(p) ==
    /\ proc[p] # Nothing /\ Ends(p) /\ Takes("fault")
    /\ tangled' = IF proc[p].op \in {"create", "delete"} THEN tangled \cup {proc[p].user}
                                                         ELSE tangled
    /\ old' = (old \/ (nearby # NoCache /\ nearby # View))
    /\ UNCHANGED <<reviewVars, role, shop, partVars, nearby>>

-----------------------------------------------------------------------------
(* Shops                                                                    *)

AdminCreate(p, s, u) ==
    /\ shop[s].life = "none" /\ Takes("shop")
    /\ Begin(p, [Work("create", "user", s) EXCEPT !.user = u]) /\ Rests
CreateProfile(p, s, u) == role[u] = "merchant" /\ ShopsOf(u) = {} /\ AdminCreate(p, s, u)

\* Any other handler that writes the row of a user back.
UpdateUser(p, u) ==
    /\ Takes("edit") /\ Begin(p, [Work("user", "user", u) EXCEPT !.user = u]) /\ Rests
FindUser(p) ==
    /\ Is(p, {"create", "delete", "user"}, "user")
    /\ LET u == proc[p].user IN
        proc' = [proc EXCEPT ![p].row = [role |-> role[u], score |-> score[u]], ![p].at = "role"]
    /\ Rests /\ UNCHANGED scene
\* The row as it was read, with another role.
WriteUser(u, row, r) ==
    /\ ~LocksUser(u)
    /\ role' = [role EXCEPT ![u] = r] /\ score' = [score EXCEPT ![u] = row.score]
    /\ tangled' = IF \/ role[u] # row.role
                     \/ r = "requester" /\ \E q \in Clerks :
                            Is(q, {"create"}, "insert") /\ proc[q].user = u
                  THEN tangled \cup {u} ELSE tangled
    /\ crossed' = IF score[u] # row.score THEN crossed \cup {u} ELSE crossed
    /\ UNCHANGED <<review, rating, tx, shop, partVars, cacheVars, scene>>
\* Mutant: the role is left as it is.
LeavesRole(p) ==
    Is(p, {"create"}, "role") /\ WriteUser(proc[p].user, proc[p].row, proc[p].row.role)
                 /\ Goes(p, "insert")
Promote(p) == Is(p, {"create"}, "role") /\ WriteUser(proc[p].user, proc[p].row, "merchant")
              /\ Goes(p, "insert")
Demote(p) == Is(p, {"delete"}, "role") /\ WriteUser(proc[p].user, proc[p].row, "requester")
             /\ Goes(p, "delete")
WriteBack(p) == Is(p, {"user"}, "role") /\ WriteUser(proc[p].user, proc[p].row, proc[p].row.role)
                /\ Ends(p)
\* A shop is deleted whether its owner could be written or not.
DemoteFails(p) ==
    /\ Is(p, {"delete"}, "user") \/ Is(p, {"delete"}, "role")
    /\ Goes(p, "delete") /\ Takes("fault")
    /\ tangled' = tangled \cup {proc[p].user}
    /\ UNCHANGED <<reviewVars, role, shop, partVars, cacheVars>>

\* A user may be given a second shop; when one of them is deleted he is a requester.
CreateMerchant(p) ==
    /\ Is(p, {"create"}, "insert") /\ Goes(p, "flush")
    /\ LET w == proc[p] IN
        IF shop[w.on].life # "none" THEN UNCHANGED <<shop, tangled>>
        ELSE /\ shop' = [shop EXCEPT ![w.on] = [life |-> "live", owner |-> w.user, open |-> TRUE,
                                                auto |-> FALSE, image |-> Nothing]]
             /\ tangled' = IF ShopsOf(w.user) # {} THEN tangled \cup {w.user} ELSE tangled
    /\ UNCHANGED <<reviewVars, role, partVars, cacheVars, scene>>

\* The owner's forms and the admin's: the row is read again, and written back whole.
ReadShop(p, op, s, form, open) ==
    IF Live(s)
    THEN proc' = [proc EXCEPT ![p] = [Work(op, "write", s) EXCEPT
                     !.row = [shop |-> shop[s], rating |-> rating[s]],
                     !.form = form, !.open = open]]
    ELSE Ends(p)
SaveShop(p, op, new, step) ==
    /\ Is(p, {op}, "write") /\ ~LocksShop(proc[p].on) /\ Goes(p, step)
    /\ LET s == proc[p].on IN
        IF Live(s)
        THEN /\ shop' = [shop EXCEPT ![s] = new]
             /\ rating' = [rating EXCEPT ![s] = proc[p].row.rating]
             /\ crossed' = IF rating[s] # proc[p].row.rating THEN crossed \cup {s} ELSE crossed
        ELSE UNCHANGED <<shop, rating, crossed>>
    /\ UNCHANGED <<review, score, tx, role, tangled, partVars, cacheVars, scene>>
Kept(p) == proc[p].row.shop

AdminUpdate(p, s) ==
    /\ proc[p] = Nothing /\ Live(s) /\ ReadShop(p, "admin", s, Nothing, FALSE)
    /\ Takes("edit") /\ Rests
UpdateMerchant(p) == SaveShop(p, "admin", Kept(p), "flush")

\* A new picture of a shop does not remove the one before.
UpdateProfile(p, s) ==
    \/ Live(s) /\ Takes("edit") /\ Rests
       /\ Begin(p, [Work("profile", "form", s) EXCEPT !.form = SignedURL(shop[s].image)])
    \/ /\ Is(p, {"profile"}, "form") /\ proc[p].on = s
       /\ ReadShop(p, "profile", s, proc[p].form, FALSE) /\ Rests /\ UNCHANGED scene
UpdateMerchantFull(p) ==
    SaveShop(p, "profile", [Kept(p) EXCEPT !.image = SanitizeStorageKey(proc[p].form)], "flush")

\* Three times read and written: the limit of orders, whether it is open, and whether it
\* confirms by itself, which is always no.
UpdateStatus(p, s, open) ==
    /\ proc[p] = Nothing /\ Live(s) /\ ReadShop(p, "limit", s, Nothing, open)
    /\ Takes("edit") /\ Rests
UpdateLimit(p) == SaveShop(p, "limit", Kept(p), "open")
Again(p, op, next) ==
    /\ Is(p, {op}, next) /\ ReadShop(p, next, proc[p].on, Nothing, proc[p].open)
    /\ Rests /\ UNCHANGED scene
ToggleOpenStatus(p) ==
    \/ Again(p, "limit", "open")
    \/ SaveShop(p, "open", [Kept(p) EXCEPT !.open = proc[p].open], "auto")
\* Mutant: as it was asked.
AutoAsAsked(row) == [row EXCEPT !.auto = TRUE]
AutoNever(row) == [row EXCEPT !.auto = FALSE]
ToggleAutoConfirm(p) ==
    \/ Again(p, "open", "auto")
    \/ SaveShop(p, "auto", AutoNever(Kept(p)), "flush")

\* Pictures of what is not marked as deleted, and of options whether their menu is or not.
ListAllImagesByMerchantID(s) ==
    {shop[s].image} \cup {part[x].image : x \in {y \in Parts : Live(y) /\ ShopOfPart(y) = s}}
AdminDelete(p, s) ==
    /\ Live(s) /\ Takes("shop") /\ Rests
    /\ Begin(p, [Work("delete", "user", s) EXCEPT
                    !.user = shop[s].owner, !.images = ListAllImagesByMerchantID(s)])
DeleteMerchant(p) ==
    /\ Is(p, {"delete"}, "delete") /\ Goes(p, "sweep")
    /\ shop' = [shop EXCEPT ![proc[p].on].life = "gone"]
    /\ tangled' = IF Live(proc[p].on) THEN tangled ELSE tangled \cup {proc[p].user}
    /\ UNCHANGED <<reviewVars, role, partVars, cacheVars, scene>>

-----------------------------------------------------------------------------
(* The list of merchants that are near, kept for a minute                   *)

\* Mutant: only creating and deleting a shop is told.
TellsSome(p) == IF proc[p].op \in {"create", "delete"} THEN NoCache ELSE nearby
InvalidateCache(p) == NoCache
Flush(p) ==
    /\ proc[p] # Nothing /\ proc[p].at = "flush" /\ Ends(p)
    /\ nearby' = InvalidateCache(p) /\ old' = FALSE
    /\ ShopRests /\ UNCHANGED <<partVars, scene>>
ListNearby(p) ==
    \/ /\ nearby = NoCache /\ Takes("fill") /\ Rests
       /\ Begin(p, [Work("list", "fill", Nothing) EXCEPT !.list = View])
    \/ /\ Is(p, {"list"}, "fill") /\ Ends(p)
       /\ nearby' = proc[p].list /\ old' = (proc[p].list # View)
       /\ ShopRests /\ UNCHANGED <<partVars, scene>>
MinutePasses ==
    /\ nearby # NoCache /\ nearby' = NoCache /\ old' = FALSE
    /\ ShopRests /\ UNCHANGED <<partVars, proc, scene>>

-----------------------------------------------------------------------------
(* Menus and their parts                                                    *)

UploadMenuImage(p) ==
    /\ proc[p] # Nothing /\ proc[p].at = "form" /\ Takes("upload")
    /\ proc[p].on \in Parts => Kind[proc[p].on] \notin Groups
    /\ \E i \in Images :
        /\ store[i] = "unused" /\ store' = [store EXCEPT ![i] = "stored"]
        /\ proc' = [proc EXCEPT ![p].form = i]
    /\ ShopRests /\ UNCHANGED <<part, muddled, cacheVars>>

\* A form for a part that is to be, and one that shows the part there is.
Drafts(p, k, x) ==
    /\ Kind[x] = k /\ part[x].life = "none" /\ Exists(Parent[x])
    /\ x \notin {proc[q].on : q \in {c \in Clerks : proc[c] # Nothing}}
    /\ Begin(p, Work(k, "form", x)) /\ Takes("part") /\ Rests
\* A menu with a category is updated once more, with the same form.
ThenFull(p) == proc' = [proc EXCEPT ![p].base = SanitizeStorageKey(proc[p].form)]
Inserts(p, k) ==
    /\ Is(p, {k}, "form") /\ part[proc[p].on].life = "none"
    /\ part' = IF Exists(Parent[proc[p].on])
               THEN [part EXCEPT ![proc[p].on] =
                        [life |-> "live", image |-> SanitizeStorageKey(proc[p].form)]]
               ELSE part
    /\ Ends(p) \/ (k = "menu" /\ Exists(Parent[proc[p].on]) /\ ThenFull(p))
    /\ ShopRests /\ UNCHANGED <<store, muddled, cacheVars, scene>>
Edits(p, k, x) ==
    \/ /\ Kind[x] = k /\ Live(x) /\ Takes("part") /\ Rests
       /\ Begin(p, [Work(k, "form", x) EXCEPT !.base = part[x].image,
                        !.form = SignedURL(part[x].image)])
    \/ /\ Is(p, {k}, "form") /\ proc[p].on = x /\ part[x].life # "none"
       /\ IF Live(x)
          THEN \E f \in {proc[p].form, Nothing} :
                 proc' = [proc EXCEPT ![p].at = "write", ![p].row = part[x], ![p].form = f]
          ELSE Ends(p)
       /\ Rests /\ UNCHANGED scene
\* A row that is gone by now is not written, and nobody is told.
\* An option whose row cannot be read is written as if it had no picture.
Unread(p, k) ==
    /\ k \in Options /\ Is(p, {k}, "form") /\ part[proc[p].on].life # "none" /\ Takes("fault")
    /\ proc' = [proc EXCEPT ![p].at = "write", ![p].row = [life |-> "live", image |-> Nothing]]
    /\ Rests
Replaced(row, form) ==
    IF form = Nothing THEN row ELSE [row EXCEPT !.image = SanitizeStorageKey(form)]
\* Mutant: also when the form brings the same picture back.
AnyOldImage(row, new) == {row.image}
OldImage(row, new) == IF row.image # new.image THEN {row.image} ELSE {}
Saves(p, k) ==
    /\ Is(p, {k}, "write")
    /\ LET x == proc[p].on
           new == Replaced(proc[p].row, proc[p].form)
       IN /\ part' = IF Live(x) THEN [part EXCEPT ![x] = new] ELSE part
          /\ muddled' = IF part[x].image # proc[p].base THEN muddled \cup {x} ELSE muddled
          /\ proc' = [proc EXCEPT ![p].at = "sweep",
                                  ![p].images = OldImage(proc[p].row, new) \ {Nothing}]
    /\ ShopRests /\ UNCHANGED <<store, cacheVars, scene>>

\* What is removed from the store with a part: its own picture and those of its options;
\* the picture of an option that is deleted alone stays in the store.
Below(x) == Inside(x) \cup UNION {Inside(y) : y \in Inside(x)}
ImagesOf(k, x) ==
    CASE k \in Options -> {}
      [] k = "category" -> {part[x].image}
      [] OTHER -> {part[y].image : y \in {x} \cup Below(x)}
Discards(p, k, x) ==
    /\ Kind[x] = k /\ Live(x) /\ Takes("part") /\ Rests
    /\ Begin(p, [Work(k, "erase", x) EXCEPT !.images = ImagesOf(k, x) \ {Nothing}])
\* A menu is marked as deleted; anything else goes, with what is inside it.
Erases(p, k) ==
    /\ Is(p, {k}, "erase") /\ Goes(p, "sweep")
    /\ part' = IF k = "menu" THEN [part EXCEPT ![proc[p].on].life = "gone"]
               ELSE [x \in Parts |-> IF x \in {proc[p].on} \cup Below(proc[p].on) /\ Exists(x)
                                     THEN [NoPart EXCEPT !.life = "erased"] ELSE part[x]]
    /\ ShopRests /\ UNCHANGED <<store, muddled, cacheVars, scene>>
Sweep(p) ==
    /\ proc[p] # Nothing /\ proc[p].at = "sweep" /\ Remove(proc[p].images \ {Nothing})
    /\ IF proc[p].op = "delete" THEN Goes(p, "flush") ELSE Ends(p)
    /\ ShopRests /\ UNCHANGED <<part, muddled, cacheVars, scene>>

ToggleMenuAvailability(p, x) ==
    /\ Kind[x] = "menu" /\ Live(x) /\ Takes("edit") /\ Rests
    /\ Begin(p, [Work("menu", "write", x) EXCEPT !.base = part[x].image, !.row = part[x]])

\* The handlers.
CreateMenu(p, x) == Drafts(p, "menu", x)
UpdateMenu(p, x) == Edits(p, "menu", x)
DeleteMenu(p, x) == Discards(p, "menu", x)
CreateCategory(p, x) == Drafts(p, "category", x)
UpdateCategory(p, x) == Edits(p, "category", x)
DeleteCategory(p, x) == Discards(p, "category", x)
CreateVariantGroup(p, x) == Drafts(p, "variantGroup", x)
UpdateVariantGroup(p, x) == Edits(p, "variantGroup", x)
DeleteVariantGroup(p, x) == Discards(p, "variantGroup", x)
CreateVariantOption(p, x) == Drafts(p, "variantOption", x)
UpdateVariantOption(p, x) == Edits(p, "variantOption", x) \/ Unread(p, "variantOption")
DeleteVariantOption(p, x) == Discards(p, "variantOption", x)
CreateToppingGroup(p, x) == Drafts(p, "toppingGroup", x)
UpdateToppingGroup(p, x) == Edits(p, "toppingGroup", x)
DeleteToppingGroup(p, x) == Discards(p, "toppingGroup", x)
CreateToppingOption(p, x) == Drafts(p, "toppingOption", x)
UpdateToppingOption(p, x) == Edits(p, "toppingOption", x) \/ Unread(p, "toppingOption")
DeleteToppingOption(p, x) == Discards(p, "toppingOption", x)
CreateAddonMaster(p, x) == Drafts(p, "addonMaster", x)
UpdateAddonMaster(p, x) == Edits(p, "addonMaster", x)
DeleteAddonMaster(p, x) == Discards(p, "addonMaster", x)
CreateAddonOption(p, x) == Drafts(p, "addonOption", x)
UpdateAddonOption(p, x) == Edits(p, "addonOption", x) \/ Unread(p, "addonOption")
DeleteAddonOption(p, x) == Discards(p, "addonOption", x)

\* What the service does for them.
InsertMenu(p) == Inserts(p, "menu")
SaveMenu(p) == Saves(p, "menu")
EraseMenu(p) == Erases(p, "menu")
InsertCategory(p) == Inserts(p, "category")
SaveCategory(p) == Saves(p, "category")
EraseCategory(p) == Erases(p, "category")
InsertVariantGroup(p) == Inserts(p, "variantGroup")
SaveVariantGroup(p) == Saves(p, "variantGroup")
EraseVariantGroup(p) == Erases(p, "variantGroup")
InsertVariantOption(p) == Inserts(p, "variantOption")
SaveVariantOption(p) == Saves(p, "variantOption")
EraseVariantOption(p) == Erases(p, "variantOption")
InsertToppingGroup(p) == Inserts(p, "toppingGroup")
SaveToppingGroup(p) == Saves(p, "toppingGroup")
EraseToppingGroup(p) == Erases(p, "toppingGroup")
InsertToppingOption(p) == Inserts(p, "toppingOption")
SaveToppingOption(p) == Saves(p, "toppingOption")
EraseToppingOption(p) == Erases(p, "toppingOption")
InsertAddonMaster(p) == Inserts(p, "addonMaster")
SaveAddonMaster(p) == Saves(p, "addonMaster")
EraseAddonMaster(p) == Erases(p, "addonMaster")
InsertAddonOption(p) == Inserts(p, "addonOption")
SaveAddonOption(p) == Saves(p, "addonOption")
EraseAddonOption(p) == Erases(p, "addonOption")

Forms(p, x) ==
    \/ CreateMenu(p, x) \/ UpdateMenu(p, x) \/ DeleteMenu(p, x)
    \/ CreateCategory(p, x) \/ UpdateCategory(p, x) \/ DeleteCategory(p, x)
    \/ CreateVariantGroup(p, x) \/ UpdateVariantGroup(p, x) \/ DeleteVariantGroup(p, x)
    \/ CreateVariantOption(p, x) \/ UpdateVariantOption(p, x) \/ DeleteVariantOption(p, x)
    \/ CreateToppingGroup(p, x) \/ UpdateToppingGroup(p, x) \/ DeleteToppingGroup(p, x)
    \/ CreateToppingOption(p, x) \/ UpdateToppingOption(p, x) \/ DeleteToppingOption(p, x)
    \/ CreateAddonMaster(p, x) \/ UpdateAddonMaster(p, x) \/ DeleteAddonMaster(p, x)
    \/ CreateAddonOption(p, x) \/ UpdateAddonOption(p, x) \/ DeleteAddonOption(p, x)
    \/ ToggleMenuAvailability(p, x)
Rows(p) == proc[p] # Nothing /\ proc[p].on \in Parts /\
    (\/ InsertMenu(p) \/ SaveMenu(p) \/ EraseMenu(p)
     \/ InsertCategory(p) \/ SaveCategory(p) \/ EraseCategory(p)
     \/ InsertVariantGroup(p) \/ SaveVariantGroup(p) \/ EraseVariantGroup(p)
     \/ InsertVariantOption(p) \/ SaveVariantOption(p) \/ EraseVariantOption(p)
     \/ InsertToppingGroup(p) \/ SaveToppingGroup(p) \/ EraseToppingGroup(p)
     \/ InsertToppingOption(p) \/ SaveToppingOption(p) \/ EraseToppingOption(p)
     \/ InsertAddonMaster(p) \/ SaveAddonMaster(p) \/ EraseAddonMaster(p)
     \/ InsertAddonOption(p) \/ SaveAddonOption(p) \/ EraseAddonOption(p))

-----------------------------------------------------------------------------

Init ==
    /\ scene \in Scenes /\ ReviewsInit(scene.past)
    /\ role = [u \in Users |-> IF \E s \in Shops : scene.owner[s] = u THEN "merchant"
                                ELSE "requester"]
    /\ shop = [s \in Shops |-> IF scene.owner[s] = Nothing THEN NoShop
                   ELSE [life |-> "live", owner |-> scene.owner[s], open |-> TRUE,
                         auto |-> FALSE, image |-> Nothing]]
    /\ part = [x \in Parts |-> IF x \notin scene.stock THEN NoPart
                   ELSE [life |-> "live", image |-> scene.shows[x]]]
    /\ store = [i \in Images |-> IF \E x \in scene.stock : scene.shows[x] = i THEN "stored"
                                 ELSE "unused"]
    /\ nearby = NoCache /\ proc = [p \in Clerks |-> Nothing]
    /\ muddled = {} /\ tangled = {} /\ old = FALSE

Reviewing(p) ==
    /\ \/ (SubmitReview(p) \/ SubmitRunnerReview(p)) /\ Takes("review")
       \/ Rollback(p) /\ Takes("fault")
       \/ TxStep(p) /\ UNCHANGED scene
    /\ UNCHANGED <<shopVars, partVars, cacheVars, proc>>
OfUsers(p) ==
    \/ \E u \in Users :
        UpdateUser(p, u) \/ \E s \in Shops : AdminCreate(p, s, u) \/ CreateProfile(p, s, u)
    \/ FindUser(p) \/ Promote(p) \/ Demote(p) \/ WriteBack(p) \/ DemoteFails(p)
OfShops(p) ==
    \/ \E s \in Shops :
        \/ AdminUpdate(p, s) \/ UpdateProfile(p, s) \/ AdminDelete(p, s)
        \/ \E open \in BOOLEAN : UpdateStatus(p, s, open)
    \/ CreateMerchant(p) \/ UpdateMerchant(p) \/ UpdateMerchantFull(p) \/ UpdateLimit(p)
    \/ ToggleOpenStatus(p) \/ ToggleAutoConfirm(p) \/ DeleteMerchant(p)
OfParts(p) == (\E x \in scene.parts : Forms(p, x)) \/ Rows(p) \/ UploadMenuImage(p) \/ Sweep(p)
Next ==
    \/ \E p \in Reviewers : Reviewing(p)
    \/ \E p \in Clerks :
        OfUsers(p) \/ OfShops(p) \/ OfParts(p) \/ Flush(p) \/ ListNearby(p) \/ Breaks(p)
    \/ MinutePasses

Spec == Init /\ [][Next]_vars

-----------------------------------------------------------------------------
(* Properties                                                               *)

\* Every column has a value of its type; no merchant confirms orders by itself, whatever is
\* asked for; each shop and each part keeps one kind of picture key, never an address.
TypeOK ==
    /\ ReviewsTypeOK
    /\ role \in [Users -> Roles] /\ shop \in [Shops -> Shop] /\ part \in [Parts -> Part]
    /\ store \in [Images -> {"unused", "stored", "removed"}]
    /\ nearby \in {NoCache} \cup [Shops -> SUBSET BOOLEAN]
    /\ muddled \subseteq Parts /\ tangled \subseteq Users /\ old \in BOOLEAN
    /\ \A class \in Classes : scene[class] \in Nat

\* What a menu shows can be fetched: the picture of a part that is shown is in the store,
\* whatever was uploaded, replaced and deleted meanwhile, in this part or with its group, its
\* menu or another shop; but in a row that was written over another's newer picture.
ImagesKept ==
    \A x \in Parts \ muddled :
        Shown(x) /\ part[x].image # Nothing => store[part[x].image] = "stored"

\* The owner of a shop may enter the merchant's pages: he has the role, unless his shop is
\* just being deleted, a write of his user row met another, he has had two shops, or one of
\* his was deleted by two at a time, the later of whom takes the role of the next shop.
RoleFollowsShop ==
    \A s \in Shops :
        LET u == shop[s].owner IN
        Live(s) /\ u \notin tangled =>
            \/ role[u] = "merchant"
            \/ \E p \in Clerks : Is(p, {"delete"}, "delete") /\ proc[p].user = u

\* The cached list of shops that are near is the table, or a change is about to be told; but
\* a list read before a change and stored after it was told, or a change whose handler broke
\* off, is shown until the minute ends.
NearbyAgrees ==
    \/ nearby \in {NoCache, View} \/ old
    \/ \E p \in Clerks : proc[p] # Nothing /\ proc[p].op \in
           {"create", "delete", "admin", "profile", "limit", "open", "auto"}
=============================================================================
