---------------------------- MODULE MCPipeExchange ----------------------------
EXTENDS PipeExchange
\* The first phase of the program, and one with a batch, in proportion to a page.
Phases == <<[request_batch |-> 1, request_size |-> 2, response_size |-> 2],
            [request_batch |-> 2, request_size |-> 2, response_size |-> 2]>>
NoBytes == {}
=============================================================================
