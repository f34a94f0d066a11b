---------------------------- MODULE MCMongoStore -----------------------------
(* MongoStore for TLC: claims, releases and subscriptions race with workers   *)
(* that record deliveries.                                                    *)
EXTENDS MongoStore, TLC

Perms == Permutations(Requests) \cup Permutations(Workers)
=============================================================================
