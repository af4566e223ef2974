----------------------------- MODULE MCInstance -----------------------------
(* Instance for a few configurations, some of them to be rejected. *)
EXTENDS Instance

Base == [source_id |-> 1, tx_pool_size |-> 512, rx_buffer_size |-> 64,
         ack_timeout_ms |-> 100, max_retry_count |-> 1, window_size |-> 1,
         max_frame_size |-> 64, reserved_features |-> FALSE,
         auth_required |-> FALSE, tag_len |-> 0, thread_safe |-> FALSE,
         routes_valid |-> TRUE, route_table_len |-> 0,
         enable_fragmentation |-> FALSE, allocator |-> "tracking",
         codecs |-> <<>>]

Full == [Base EXCEPT !.thread_safe = TRUE, !.route_table_len = 2,
                     !.enable_fragmentation = TRUE, !.window_size = 32,
                     !.codecs = <<1, 2, 1, 3, 4, 5>>]

Tried == {Base, Full,
          [Base EXCEPT !.allocator = "none", !.route_table_len = 1],
          [Base EXCEPT !.window_size = 200],
          [Base EXCEPT !.tx_pool_size = 511],
          [Base EXCEPT !.rx_buffer_size = 20],
          [Base EXCEPT !.max_frame_size = 65],
          [Base EXCEPT !.source_id = BROADCAST_ID],
          [Base EXCEPT !.auth_required = TRUE],
          [Base EXCEPT !.reserved_features = TRUE]}

\* Distinct sizes, so that no two fields can stand for one another.
Sizes == [f \in Field |->
            CASE f = "instance" -> 1000 [] f = "packets" -> 40 [] f = "buckets" -> 128
              [] f = "routes" -> 300 [] f = "entry_1" -> 24 [] f = "entry_2" -> 25
              [] f = "route_last_read_ms" -> 4 [] f = "fragment_mgr" -> 72
              [] OTHER -> 1]
=============================================================================
