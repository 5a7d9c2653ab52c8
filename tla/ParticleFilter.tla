--------------------------- MODULE ParticleFilter ---------------------------
(***************************************************************************)
(* What GridSlamProcessor promises of its particles: each one has the      *)
(* whole trajectory of the particle it descends from, and neither another  *)
(* particle nor another processor takes part of it away.                   *)
(***************************************************************************)
EXTENDS Naturals, Sequences

CONSTANTS NumParticles, Hits

VARIABLES trajectories,  \* of the particles of the processor in use; <<>> without one
          copies         \* of those of the other processor, if there is one

Particles == 1..NumParticles

Init == /\ trajectories = [i \in Particles |-> <<>>]
        /\ copies = <<>>

\* Every new particle goes on from some particle, in the order of the old ones;
\* those of one particle have hit the same.
Scan == /\ trajectories # <<>>
        /\ DOMAIN trajectories' = Particles
        /\ \E from \in [Particles -> Particles] :
             /\ \A i, j \in Particles : i < j => from[i] <= from[j]
             /\ \A i \in Particles : \E hits \in Hits :
                  trajectories'[i] = Append(trajectories[from[i]], hits)
             /\ \A i, j \in Particles :
                  from[i] = from[j] => trajectories'[i] = trajectories'[j]
        /\ UNCHANGED copies

Clone == /\ copies = <<>>
         /\ copies' = trajectories
         /\ UNCHANGED trajectories

\* One of the two processors is deleted: the clone takes over, or is given up.
Delete == /\ trajectories' = copies
          /\ copies' = <<>>

Next == Scan \/ Clone \/ Delete

Spec == Init /\ [][Next]_<<trajectories, copies>>
=============================================================================
