---------------------------- MODULE MCCoherence ----------------------------
(***************************************************************************)
(* The policies and bounds that Coherence is checked with.                 *)
(***************************************************************************)
EXTENDS Coherence

\* Write-through with room for one of two blocks, as SMP devices have it by default; one
\* block written back on demand, by devices that copy at once, which two devices and a host
\* thread use, or that queue their copies, with one more host thread in place of a device.
MCSetups ==
    {[through |-> TRUE, async |-> FALSE, room |-> 1, tags |-> Tags, tasks |-> 3,
      threads |-> {"c1", "c2"}],
     [through |-> FALSE, async |-> FALSE, room |-> 1, tags |-> {"x"}, tasks |-> 3,
      threads |-> {"c1", "c2", "h1"}],
     [through |-> FALSE, async |-> TRUE, room |-> 1, tags |-> {"x"}, tasks |-> 3,
      threads |-> {"c1", "c2", "h1"}],
     [through |-> FALSE, async |-> TRUE, room |-> 1, tags |-> {"x"}, tasks |-> 3,
      threads |-> {"c1", "h1", "h2"}]}

\* A device of its own that writes back on demand, with room for one of two blocks.
TightWriteBack ==
    {[through |-> FALSE, async |-> FALSE, room |-> 1, tags |-> Tags, tasks |-> 3,
      threads |-> {"c1"}]}
=============================================================================
