-------------------------------- MODULE MCIpc --------------------------------
(* An endpoint whose queues are smaller than the number of threads (so     *)
(* that QueueFull happens) and payloads on both sides of MAX_WORDS.        *)
EXTENDS Ipc

MCPayloads == {<< >>, <<7>>, <<7, 8>>, <<7, 8, 9>>}
=============================================================================
