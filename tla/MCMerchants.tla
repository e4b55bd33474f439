------------------------------ MODULE MCMerchants ------------------------------
(* Small instances of Merchants. *)
EXTENDS MerchantsInv, TLC

CONSTANTS
    u1, u2, s1, s2, o1, o2, o3, o4,
    menu, category, group, option, group2, option2, master, addon, i1, i2

MCRequester == [o \in {o1, o2, o3, o4} |-> u1]
MCRunner == [o \in {o1, o2, o3, o4} |-> u2]
MCShopOf == [o \in {o1, o2, o3, o4} |-> IF o = o3 THEN Nothing ELSE s1]
MCKind ==
    (menu :> "menu") @@ (category :> "category") @@ (group :> "variantGroup")
    @@ (option :> "variantOption") @@ (group2 :> "toppingGroup") @@ (option2 :> "toppingOption")
    @@ (master :> "addonMaster") @@ (addon :> "addonOption")
MCParent ==
    (menu :> s1) @@ (category :> s1) @@ (group :> menu) @@ (option :> group)
    @@ (group2 :> menu) @@ (option2 :> group2) @@ (master :> s1) @@ (addon :> master)

Counts(shops, edits, touched, uploads, reviews, fills, faults) ==
    [shop |-> shops, edit |-> edits, part |-> touched, upload |-> uploads, review |-> reviews,
     fill |-> fills, fault |-> faults]
\* Counts, the shops at the start, the parts touched, those there at the start, a picture.
Scene(counts, owners, parts, stock, pictured) ==
    counts @@ [owner |-> owners, parts |-> parts, stock |-> stock,
               past |-> {}, shows |-> [x \in Parts |-> IF x = pictured THEN i1 ELSE Nothing]]
NoShops == (s1 :> Nothing) @@ (s2 :> Nothing)
OneShop == (s1 :> u1) @@ (s2 :> Nothing)

\* Two orders were reviewed before: the runner has the best rating.
Five(o) == [order |-> o, by |-> "requester", stars |-> 5, shopStars |-> Nothing]
Reviewed(sc) == [sc EXCEPT !.past = {Five(o3), Five(o4)}]

\* Reviews; a review and another write of the rated row; users who open and close shops; the
\* forms of a shop and the cached list; each kind of part, changed, made and deleted.
MCScenes == {
    Reviewed(Scene(Counts(0, 0, 0, 0, 2, 0, 1), OneShop, {}, {}, Nothing)),
    Reviewed(Scene(Counts(0, 1, 0, 0, 1, 0, 0), OneShop, {}, {}, Nothing)),
    Scene(Counts(3, 0, 0, 0, 0, 0, 1), NoShops, {}, {}, Nothing),
    Scene(Counts(2, 1, 0, 0, 0, 0, 0), OneShop, {}, {}, Nothing),
    Scene(Counts(3, 0, 0, 0, 0, 0, 0), OneShop, {}, {}, Nothing),
    Scene(Counts(1, 1, 1, 1, 0, 0, 0), OneShop, {menu}, {menu}, menu),
    Scene(Counts(1, 1, 0, 0, 0, 2, 0), OneShop, {}, {}, Nothing),
    Scene(Counts(0, 2, 0, 0, 0, 2, 1), OneShop, {}, {}, Nothing),
    Scene(Counts(0, 1, 2, 1, 0, 0, 1), OneShop, {menu}, {menu}, menu),
    Scene(Counts(0, 0, 2, 1, 0, 0, 1), OneShop, {menu}, {}, Nothing),
    Scene(Counts(1, 0, 2, 1, 0, 0, 0), OneShop, {category}, {category}, category),
    Scene(Counts(0, 0, 3, 1, 0, 0, 0), OneShop, {category}, {}, Nothing),
    Scene(Counts(0, 0, 3, 1, 0, 0, 1), OneShop, {menu, group, option},
        {menu, group, option}, option),
    Scene(Counts(0, 0, 3, 1, 0, 0, 0), OneShop, {group, option}, {menu}, Nothing),
    Scene(Counts(0, 0, 2, 1, 0, 0, 1), OneShop, {group2, option2},
        {menu, group2, option2}, option2),
    Scene(Counts(0, 0, 3, 1, 0, 0, 0), OneShop, {group2, option2}, {menu}, Nothing),
    Scene(Counts(1, 0, 1, 1, 0, 0, 1), OneShop, {master, addon}, {master, addon}, addon),
    Scene(Counts(0, 0, 3, 1, 0, 0, 0), OneShop, {master, addon}, {}, Nothing)}
=============================================================================
