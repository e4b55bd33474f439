----------------------------- MODULE MerchantsInv -----------------------------
(***************************************************************************)
(* The inductive invariants behind the properties of Merchants and         *)
(* Reviews: what a transaction or a handler under way may count on.        *)
(***************************************************************************)
EXTENDS Merchants

-----------------------------------------------------------------------------
(* Reviews.                                                                *)

Transaction ==
    [review : Review, at : {"insert", "average", "score", "shop", "rating", "commit"},
     score : Number, rating : Number, late : SUBSET (Users \cup Shops)]
TxTyped == tx \in [Reviewers -> Transaction \cup {Nothing}] /\ IsFiniteSet(review)

\* A review that has been inserted has no other of the same side of the same order.
Inserted(p) == Past(p, {"average", "score", "shop", "rating", "commit"})
InsertedOnce ==
    \A p \in Reviewers : Inserted(p) =>
        /\ \A r \in review : ~Same(r, tx[p].review)
        /\ \A q \in Reviewers \ {p} : Inserted(q) => ~Same(tx[p].review, tx[q].review)

AverageFor(r, S) == IF r.by = "requester" THEN GetAverageRatingByReviewee(S, Subject(r))
                                          ELSE GetAverageRatingByRequester(S, Subject(r))
\* A number that was taken is still the average, unless a review was committed meanwhile.
NumbersHold ==
    \A p \in Reviewers :
        LET r == tx[p].review IN
        /\ Past(p, {"score", "shop", "rating", "commit"}) /\ Subject(r) \notin tx[p].late
             => tx[p].score = AverageFor(r, Sees(p))
        /\ Past(p, {"shop", "rating"}) => RatesShop(r)
        /\ Past(p, {"rating", "commit"}) /\ RatesShop(r) /\ ShopOf[r.order] \notin tx[p].late
             => tx[p].rating = GetAverageRatingByMerchant(Sees(p), ShopOf[r.order])

ReviewsInv == NumbersHold /\ ScoresAgree

-----------------------------------------------------------------------------
(* Handlers.                                                               *)

UserOps == {"create", "delete", "user"}
ShopOps == {"admin", "profile", "limit", "open", "auto"}
Address == [url : Images]
Picture == Images \cup {Nothing}
Form == Picture \cup Address
UserCopy == [role : Roles, score : Number]
ShopCopy == [shop : Shop, rating : Number]
Cached == [Shops -> SUBSET BOOLEAN]
Steps == {"user", "role", "insert", "delete", "form", "write", "open", "auto", "erase", "sweep",
          "fill", "flush"}
Handler ==
    [op : UserOps \cup ShopOps \cup Kinds \cup {"list"}, at : Steps,
     on : Users \cup Shops \cup Parts \cup {Nothing}, user : Users \cup {Nothing},
     row : UserCopy \cup ShopCopy \cup Part \cup {Nothing}, base : Picture, form : Form,
     open : BOOLEAN, list : Cached \cup {Nothing}, images : SUBSET Picture]

ASSUME SentinelAssumption ==
    /\ Nothing \notin Handler /\ Nothing \notin Transaction /\ Nothing \notin Nat \X Nat
    /\ Address \cap Picture = {} /\ NoCache \notin Cached

\* What a handler works on, by what it does and where it is.
WorksOn(w) ==
    /\ w.op \in UserOps =>
         /\ w.user \in Users /\ w.at \in {"user", "role", "insert", "delete", "sweep", "flush"}
         /\ w.at = "role" => w.row \in UserCopy
         /\ w.at = "insert" => w.op = "create"
         /\ w.at \in {"delete", "sweep"} => w.op = "delete"
         /\ w.at = "flush" => w.op # "user"
    /\ w.op \in {"create", "delete"} => w.on \in Shops
    /\ w.op \in ShopOps =>
         /\ w.on \in Shops /\ w.at \in {"form", "write", "open", "auto", "flush"}
         /\ w.at = "form" => w.op = "profile"
         /\ w.at = "write" => w.row \in ShopCopy /\ w.row.shop.life = "live"
    /\ w.op \in Kinds =>
         /\ w.on \in Parts /\ Kind[w.on] = w.op
         /\ w.at \in {"form", "write", "erase", "sweep"}
         /\ w.at = "write" => w.row \in Part /\ w.row.life = "live"
    /\ w.op = "list" => w.at = "fill" /\ w.list \in Cached
HandlersOK ==
    /\ proc \in [Clerks -> Handler \cup {Nothing}]
    /\ \A p \in Clerks : proc[p] # Nothing => WorksOn(proc[p])
SceneOK ==
    /\ Classes \cup {"parts"} \subseteq DOMAIN scene /\ scene.parts \subseteq Parts
    /\ \A class \in Classes : scene[class] \in Nat


-----------------------------------------------------------------------------
(* Owners.                                                                 *)

\* A shop that was opened has an owner for good, whom its handlers know.
OwnerKept(w) ==
    /\ w.op \in ShopOps /\ w.at = "write"
         => shop[w.on].life # "none" /\ w.row.shop.owner = shop[w.on].owner
    /\ w.op = "delete" => shop[w.on].life # "none" /\ w.user = shop[w.on].owner
Owned ==
    /\ \A s \in Shops : shop[s].life # "none" => shop[s].owner \in Users
    /\ \A p \in Clerks : proc[p] # Nothing => OwnerKept(proc[p])

\* What every step may count on.
Basics == TypeOK /\ TxTyped /\ InsertedOnce /\ HandlersOK /\ SceneOK /\ Owned

\* A user whose rows nobody muddled has one shop, and is a merchant before it is opened.
OneShopEach ==
    \A s, t \in Shops : Live(s) /\ Live(t) /\ shop[s].owner = shop[t].owner
                            => s = t \/ shop[s].owner \in tangled
Promoted ==
    \A p \in Clerks : Is(p, {"create"}, "insert")
                            => proc[p].user \in tangled \/ role[proc[p].user] = "merchant"

OwnersInv == OneShopEach /\ Promoted /\ RoleFollowsShop

-----------------------------------------------------------------------------
(* The cached list, shop by shop.                                          *)

\* A shop is listed as it is, or one who will flush the list has changed it; one who
\* deleted it, if it is not there.
Tells(w, s) ==
    /\ w.op \in ShopOps \cup {"create", "delete"} /\ w.on = s
    /\ Live(s) \/ (w.op = "delete" /\ w.at \in {"sweep", "flush"})
Told(s) == \E p \in Clerks : proc[p] # Nothing /\ Tells(proc[p], s)
ListInv == nearby = NoCache \/ old \/ \A s \in Shops : nearby[s] = View[s] \/ Told(s)

-----------------------------------------------------------------------------
(* Pictures.                                                               *)

Places == Parts \cup Shops
LifeOf(z) == IF z \in Shops THEN shop[z].life ELSE part[z].life

Fills(w) == w.op \in Kinds /\ w.at \in {"form", "write"}
FillsShop(w) == w.op = "profile" /\ w.at \in {"form", "write"}
Writes(w) == w.op \in Kinds /\ w.at = "write"
WritesShop(w) == w.op \in ShopOps /\ w.at = "write"
Sweeps(w) == w.op \in Kinds \cup {"delete"}
Key(w) == SanitizeStorageKey(w.form)

\* A picture belongs to what it was uploaded for; a handler removes those of what it works
\* on, and of what is inside that.
Belongs(home, i, z) == i # Nothing => home[i] = z
Reach(w, z) ==
    \/ z = w.on
    \/ z \in Parts /\ w.op = "delete" /\ ShopOfPart(z) = w.on
    \/ z \in Parts /\ w.op \in Kinds \ (Options \cup {"category"}) /\ z \in Below(w.on)
WorkBelongs(home, w) ==
    /\ Fills(w) \/ FillsShop(w) => Belongs(home, Key(w), w.on)
    /\ Fills(w) => Belongs(home, w.base, w.on)
    /\ Writes(w) => Belongs(home, w.row.image, w.on)
    /\ WritesShop(w) => Belongs(home, w.row.shop.image, w.on)
    /\ Sweeps(w) =>
         \A i \in w.images \ {Nothing} : home[i] \in Places /\ Reach(w, home[i])
RowsBelong(home) ==
    /\ \A i \in Images : store[i] = "unused" => home[i] = Nothing
    /\ \A x \in Parts : Belongs(home, part[x].image, x)
    /\ \A s \in Shops : Belongs(home, shop[s].image, s)
AllBelong(home) ==
    /\ RowsBelong(home)
    /\ \A p \in Clerks : proc[p] # Nothing => WorkBelongs(home, proc[p])
Homes == \E home \in [Images -> Places \cup {Nothing}] : AllBelong(home)

\* What a form for a part brings: nothing, the address of the picture the page showed, or a
\* picture uploaded for it, which nobody else knows yet.
FormOK(w) ==
    /\ w.form \in Address => w.form = SignedURL(w.base)
    /\ w.at = "form" /\ w.base # Nothing => w.form # Nothing
FormsOK == \A p \in Clerks : proc[p] # Nothing /\ Fills(proc[p]) => FormOK(proc[p])

Fresh(w) == Fills(w) /\ w.form \in Images /\ w.form # w.base
Knows(w, i) ==
    \/ Fills(w) /\ w.base = i
    \/ Writes(w) /\ w.row.image = i
    \/ Sweeps(w) /\ i \in w.images
Brings(w, i) == Fills(w) /\ Key(w) = i
Unknown(p, i) ==
    /\ store[i] = "stored" /\ \A x \in Parts : part[x].image # i
    /\ \A q \in Clerks : proc[q] # Nothing => ~Knows(proc[q], i) /\ (Brings(proc[q], i) => q = p)
FreshOK == \A p \in Clerks : proc[p] # Nothing /\ Fresh(proc[p]) => Unknown(p, proc[p].form)

\* A part that is not there yet has no picture, and one form at most.  What a part is in
\* was there before it.
OnPart(w, x) == w.op \in Kinds /\ w.on = x
NewParts ==
    /\ \A x \in Parts : part[x].life = "none" =>
          /\ part[x].image = Nothing
          /\ \A p \in Clerks : proc[p] # Nothing /\ OnPart(proc[p], x) =>
                /\ proc[p].at = "form" /\ proc[p].base = Nothing
                /\ \A q \in Clerks : proc[q] # Nothing /\ OnPart(proc[q], x) => q = p
    /\ \A x \in Parts : part[x].life # "none" => LifeOf(Parent[x]) # "none"

\* Who is about to write a part over the picture his page showed, read it so.
ReadSo(w) == w.row.image = w.base \/ (w.row.image = Nothing /\ w.form # Nothing)
WritersAgree ==
    \A p \in Clerks : LET w == proc[p] IN
        w # Nothing /\ Writes(w) /\ Live(w.on) /\ w.on \notin muddled /\ w.base = part[w.on].image
            => ReadSo(w)

\* What is being removed from the store is not shown.
SweepsSafe ==
    \A p \in Clerks, x \in Parts \ muddled :
        proc[p] # Nothing /\ proc[p].at = "sweep" /\ Shown(x) /\ part[x].image # Nothing
            => part[x].image \notin proc[p].images

PicturesInv ==
    Homes /\ FormsOK /\ FreshOK /\ NewParts /\ WritersAgree /\ SweepsSafe /\ ImagesKept

MerchantsInvariant == Basics /\ ReviewsInv /\ OwnersInv /\ ListInv /\ PicturesInv
=============================================================================
