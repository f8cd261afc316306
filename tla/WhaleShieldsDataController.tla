---------------------- MODULE WhaleShieldsDataController ----------------------
(***************************************************************************)
(* The record a tab keeps of the URL parameters that were taken from its   *)
(* requests (whale_shields_data_controller.cc), as operators on the        *)
(* controller's two fields.  Modules with such a tab hold one controller   *)
(* in a variable of theirs.                                                *)
(***************************************************************************)
NewController ==
    [ resource_list_blocked_url_params_ |-> {},
      keep_blocked_url_params_record_   |-> FALSE ]

Controller(Key) ==
    [ resource_list_blocked_url_params_ : SUBSET Key,
      keep_blocked_url_params_record_   : BOOLEAN ]

HandleURLParamsBlocked(controller, params) ==
    [ resource_list_blocked_url_params_ |->
          controller.resource_list_blocked_url_params_ \cup params,
      keep_blocked_url_params_record_   |-> TRUE ]

ClearAllResourcesList_Keeps(controller) ==
    [ controller EXCEPT !.resource_list_blocked_url_params_ =
          IF controller.keep_blocked_url_params_record_ THEN @ ELSE {} ]

\* The record survives the first clearing after a report, which is that of
\* the navigation the report was about.
ClearAllResourcesList(controller) ==
    [ resource_list_blocked_url_params_ |->
          IF controller.keep_blocked_url_params_record_
          THEN controller.resource_list_blocked_url_params_
          ELSE {},
      keep_blocked_url_params_record_   |-> FALSE ]
=============================================================================
