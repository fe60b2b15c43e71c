----------------------------- MODULE MCJobQueue -----------------------------
(* Small instances of JobQueue for TLC.                                    *)
EXTENDS JobQueue

(* Job objects, threads and keys are interchangeable.                      *)
Symmetry == Permutations(Job) \cup Permutations(Worker) \cup Permutations(Key)

(* A queue that takes the last job first, as those of thumb loaders do;    *)
(* those of TextureCache and EventStream take the first one.               *)
LifoInit == QInit /\ m_lifo
LifoSpec == LifoInit /\ [][QNext]_qvars
=============================================================================
