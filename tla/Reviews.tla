------------------------------- MODULE Reviews -------------------------------
(***************************************************************************)
(* Reviews of a completed order: the requester rates the runner, and the   *)
(* merchant if he likes; the runner rates the requester.  The transaction  *)
(* that inserts a review also writes the average of all ratings into the   *)
(* row of the one who was rated.                                           *)
(*                                                                         *)
(* The isolation level is READ COMMITTED: an average counts what is        *)
(* committed and the transaction's own review.  A row that a transaction   *)
(* has updated is locked until it ends.  Orders are completed ones.        *)
(***************************************************************************)
EXTENDS Integers, FiniteSets, Functions

CONSTANTS
    Users, Shops, Orders,
    Requester, Runner, ShopOf,   \* of an order; Nothing where no merchant takes part
    Ratings, Reviewers, Nothing

ASSUME ReviewsAssumption ==
    /\ Requester \in [Orders -> Users] /\ Runner \in [Orders -> Users]
    /\ ShopOf \in [Orders -> Shops \cup {Nothing}]
    /\ Users \cap Shops = {} /\ Ratings \subseteq 1 .. 5
    /\ Nothing \notin Users \cup Shops \cup Ratings

VARIABLES
    review,   \* table reviews
    score,    \* column trust_score of table users, with what it was taken from
    rating,   \* column rating of table merchants
    tx,       \* transactions under way
    crossed   \* ghost: users and shops whose number was written by one who had missed a review

reviewVars == <<review, score, rating, tx, crossed>>

-----------------------------------------------------------------------------
(* Averages: the sum and the number of ratings                              *)

Review == [order : Orders, by : {"requester", "runner"}, stars : Ratings,
           shopStars : Ratings \cup {Nothing}]

OfRunner(S, u) == {r \in S : r.by = "requester" /\ Runner[r.order] = u}
OfRequester(S, u) == {r \in S : r.by = "runner" /\ Requester[r.order] = u}
OfShop(S, s) == {r \in S : ShopOf[r.order] = s /\ r.shopStars # Nothing}

Stars(S) == SumFunction([r \in S |-> r.stars])
Mean(S) == IF S = {} THEN Nothing ELSE <<Stars(S), Cardinality(S)>>

\* One bad rating among at least three is passed over, if the others are good.
GetAverageRatingByReviewee(S, u) ==
    LET all == OfRunner(S, u)
        lowest == CHOOSE r \in all : \A s \in all : r.stars <= s.stars
        rest == all \ {lowest}
        outlier == lowest.stars <= 2 /\ Stars(rest) >= 4 * Cardinality(rest)
    IN Mean(IF Cardinality(all) >= 3 /\ outlier THEN rest ELSE all)
GetAverageRatingByRequester(S, u) == Mean(OfRequester(S, u))
GetAverageRatingByMerchant(S, s) ==
    LET all == OfShop(S, s)
    IN IF all = {} THEN Nothing
       ELSE <<SumFunction([r \in all |-> r.shopStars]), Cardinality(all)>>

-----------------------------------------------------------------------------
(* The transaction                                                          *)

Subject(r) == IF r.by = "requester" THEN Runner[r.order] ELSE Requester[r.order]
RatesShop(r) == ShopOf[r.order] # Nothing /\ r.shopStars # Nothing
Same(r, s) == r.order = s.order /\ r.by = s.by

At(p, step) == tx[p] # Nothing /\ tx[p].at = step
Past(p, steps) == tx[p] # Nothing /\ tx[p].at \in steps
LocksUser(u) ==
    \E p \in Reviewers :
        Past(p, {"shop", "rating", "commit"}) /\ Subject(tx[p].review) = u
LocksShop(s) ==
    \E p \in Reviewers :
        At(p, "commit") /\ RatesShop(tx[p].review) /\ ShopOf[tx[p].review.order] = s

Moves(p, step) == tx' = [tx EXCEPT ![p].at = step]
Keeps == UNCHANGED <<review, score, rating, crossed>>
Starts(p, r) ==
    /\ tx[p] = Nothing /\ \A s \in review : ~Same(r, s)
    /\ tx' = [tx EXCEPT ![p] = [review |-> r, at |-> "insert", score |-> Nothing,
                                rating |-> Nothing, late |-> {}]]
    /\ Keeps

\* What has been reviewed is looked up before the transaction.
SubmitReview(p) ==
    \E o \in Orders, n \in Ratings, m \in Ratings \cup {Nothing} :
        /\ ShopOf[o] = Nothing => m = Nothing
        /\ Starts(p, [order |-> o, by |-> "requester", stars |-> n, shopStars |-> m])
SubmitRunnerReview(p) ==
    \E o \in Orders, n \in Ratings :
        Starts(p, [order |-> o, by |-> "runner", stars |-> n, shopStars |-> Nothing])

\* A review of the same order by the same user is a duplicate key; if it is not committed
\* yet, the insert waits for it.
Create(p) ==
    /\ At(p, "insert")
    /\ \A q \in Reviewers \ {p} :
        Past(q, {"average", "score", "shop", "rating", "commit"})
            => ~Same(tx[p].review, tx[q].review)
    /\ IF \E r \in review : Same(r, tx[p].review)
       THEN tx' = [tx EXCEPT ![p] = Nothing]
       ELSE Moves(p, "average")
    /\ Keeps

\* Mutant: the average is taken as if outside the transaction.
SeesCommitted(p) == review
Sees(p) == review \cup {tx[p].review}

Average(p) ==
    /\ At(p, "average")
    /\ LET r == tx[p].review
           a == IF r.by = "requester" THEN GetAverageRatingByReviewee(Sees(p), Subject(r))
                                      ELSE GetAverageRatingByRequester(Sees(p), Subject(r))
       IN tx' = [tx EXCEPT ![p].at = "score", ![p].score = a]
    /\ Keeps
UpdateUserTrustScore(p) ==
    /\ At(p, "score") /\ ~LocksUser(Subject(tx[p].review))
    /\ Moves(p, IF RatesShop(tx[p].review) THEN "shop" ELSE "commit") /\ Keeps
AverageOfShop(p) ==
    /\ At(p, "shop")
    /\ tx' = [tx EXCEPT ![p].at = "rating", ![p].rating =
                 GetAverageRatingByMerchant(Sees(p), ShopOf[tx[p].review.order])]
    /\ Keeps
UpdateMerchantRating(p) ==
    /\ At(p, "rating") /\ ~LocksShop(ShopOf[tx[p].review.order]) /\ Moves(p, "commit") /\ Keeps

\* The numbers are seen by others from now on; a transaction that has taken its average
\* already has missed this review.
Misses(q, r) ==
    (IF Past(q, {"score", "shop", "rating", "commit"}) /\ Subject(tx[q].review) = Subject(r)
            /\ tx[q].review.by = r.by
     THEN {Subject(r)} ELSE {})
    \cup (IF Past(q, {"rating", "commit"}) /\ RatesShop(tx[q].review) /\ RatesShop(r)
                /\ ShopOf[tx[q].review.order] = ShopOf[r.order]
          THEN {ShopOf[r.order]} ELSE {})
Rated(r) == {Subject(r)} \cup IF RatesShop(r) THEN {ShopOf[r.order]} ELSE {}
Commit(p) ==
    /\ At(p, "commit")
    /\ LET r == tx[p].review IN
        /\ review' = review \cup {r}
        /\ score' = [score EXCEPT ![Subject(r)] = tx[p].score]
        /\ rating' = IF RatesShop(r) THEN [rating EXCEPT ![ShopOf[r.order]] = tx[p].rating]
                                     ELSE rating
        /\ crossed' = (crossed \ Rated(r)) \cup tx[p].late
        /\ tx' = [q \in Reviewers |->
                     IF q = p \/ tx[q] = Nothing THEN IF q = p THEN Nothing ELSE tx[q]
                     ELSE [tx[q] EXCEPT !.late = @ \cup Misses(q, r)]]
Rollback(p) == tx[p] # Nothing /\ tx' = [tx EXCEPT ![p] = Nothing] /\ Keeps

ReviewsInit(past) ==
    /\ review = past /\ score = [u \in Users |-> GetAverageRatingByReviewee(past, u)]
    /\ rating = [s \in Shops |-> GetAverageRatingByMerchant(past, s)]
    /\ tx = [p \in Reviewers |-> Nothing] /\ crossed = {}
TxStep(p) ==
    \/ Create(p) \/ Average(p) \/ UpdateUserTrustScore(p) \/ AverageOfShop(p)
    \/ UpdateMerchantRating(p) \/ Commit(p)

-----------------------------------------------------------------------------

Number == {Nothing} \cup (Nat \X Nat)
\* An order has at most one review of each side.
ReviewsTypeOK ==
    /\ review \subseteq Review /\ \A r, s \in review : Same(r, s) => r = s
    /\ score \in [Users -> Number] /\ rating \in [Shops -> Number]
    /\ crossed \subseteq Users \cup Shops
    /\ \A p \in Reviewers : tx[p] # Nothing =>
        /\ tx[p].review \in Review /\ tx[p].score \in Number /\ tx[p].rating \in Number
        /\ tx[p].at \in {"insert", "average", "score", "shop", "rating", "commit"}
        /\ tx[p].late \subseteq Users \cup Shops

\* The number in a row is the average of all ratings there are, of him as a runner or of
\* him as a requester, whoever was rated last; but where the last to write it had taken the
\* average before another review was committed, or wrote back a row he had read before.
\* The next review that meets no other mends it.
ScoresAgree ==
    /\ \A u \in Users \ crossed :
        score[u] \in IF OfRunner(review, u) \cup OfRequester(review, u) = {} THEN {Nothing}
                     ELSE {GetAverageRatingByReviewee(review, u),
                           GetAverageRatingByRequester(review, u)} \ {Nothing}
    /\ \A s \in Shops \ crossed : rating[s] = GetAverageRatingByMerchant(review, s)
=============================================================================
