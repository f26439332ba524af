--------------------------- MODULE SimulateClient ---------------------------
(***************************************************************************)
(* libpool/testing/SimulateClient: a client without a pool.  connect and   *)
(* disconnect run in the io thread; workLoop runs in a thread of its own,  *)
(* posts one job and then samples the hash rate while there is a session.  *)
(* The destructor, called by rotateConnect, joins that thread (~Worker).   *)
(***************************************************************************)
VARIABLE sim

NewSimulate == [phase |-> "trying", session |-> FALSE, loop |-> "idle", job |-> FALSE]

\* mutant: m_session outlives the connection
sim_disconnect_KeepsSession ==
    /\ sim.phase = "up"
    /\ sim' = [sim EXCEPT !.phase = "down"]

\* connect: a session, onConnected, startWorking
sim_connect ==
    /\ sim.phase = "trying"
    /\ sim' = [sim EXCEPT !.phase = "up", !.session = TRUE, !.loop = "starts"]

sim_disconnect ==
    /\ sim.phase = "up"
    /\ sim' = [sim EXCEPT !.phase = "down", !.session = FALSE]

\* m_onWorkReceived is called by the thread of the client.
sim_work ==
    /\ sim.loop = "starts"
    /\ sim' = [sim EXCEPT !.loop = "samples", !.job = TRUE]

\* The loop tests m_session, and sleeps.
sim_sample ==
    /\ sim.loop = "samples" /\ ~sim.session
    /\ sim' = [sim EXCEPT !.loop = "ended"]

\* rotateConnect: the destructor waits for the thread.
sim_rotate ==
    /\ sim.phase = "down" /\ sim.loop = "ended"
    /\ sim' \in {NewSimulate, [NewSimulate EXCEPT !.phase = "gone"]}

SimulateInit == sim = NewSimulate

SimulateNext == sim_connect \/ sim_disconnect \/ sim_work \/ sim_sample \/ sim_rotate

SimulateFairness == WF_sim(sim_connect \/ sim_work \/ sim_sample \/ sim_rotate)

=============================================================================
