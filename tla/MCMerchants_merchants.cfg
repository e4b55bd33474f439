CONSTANTS
    u1 = u1 u2 = u2 s1 = s1 s2 = s2 o1 = o1 o2 = o2 o3 = o3 o4 = o4
    menu = menu category = category group = group option = option
    group2 = group2 option2 = option2 master = master addon = addon
    i1 = i1 i2 = i2
    Users = {u1, u2}
    Shops = {s1, s2}
    Orders = {o1, o2, o3, o4}
    Requester <- MCRequester
    Runner <- MCRunner
    ShopOf <- MCShopOf
    Ratings = {2, 5}
    Reviewers = {r1, r2}
    Parts = {menu, category, group, option, group2, option2, master, addon}
    Kind <- MCKind
    Parent <- MCParent
    Images = {i1, i2}
    Clerks = {p1, p2}
    Scenes <- MCScenes
    Nothing = Nothing
    NoCache = NoCache
SPECIFICATION Spec
CHECK_DEADLOCK FALSE
INVARIANTS TypeOK ImagesKept RoleFollowsShop  
