------------------------ MODULE MCRabit2ChunkAttention ------------------------
(* Instance of Rabit2ChunkAttention for TLC: two KV heads with four query    *)
(* heads each (two programs per KV head) and a shape whose ratio does not    *)
(* divide, so that every implementation falls back to the reference loop.    *)
EXTENDS Rabit2ChunkAttention

MCHeadShapes == {<<8, 2>>, <<6, 2>>}
=============================================================================
