------------------------ MODULE MCMapWithConcurrency ------------------------
(* Three workers over lists of up to six items: lists shorter than, as long *)
(* as and twice as long as the pool.                                        *)
EXTENDS MapWithConcurrency
=============================================================================
