----------------------------- MODULE SchemaHistory -----------------------------
(***************************************************************************)
(* The migrations under src/migrations, in the order of their file names.  *)
(* `up` and `down` are sequences of blocks; a block is a transaction: the  *)
(* statements of a sequelize.transaction, or one statement on its own.     *)
(***************************************************************************)
EXTENDS SchemaChange

\* Each statement on its own connection: nothing takes the earlier ones back.
Each(statements) == [k \in DOMAIN statements |-> <<statements[k]>>]
Transaction(statements) == <<statements>>

BaselineAccounts == <<
  CreateTable("users", {}, {}),
  AddIndex("users", "users_username_unique_active", {}),
  AddIndex("users", "users_email_unique_active", {}),
  CreateTable("user_sessions", {"users"}, {}),
  AddIndex("user_sessions", "user_sessions_refresh_token_hash_unique", {}),
  AddIndex("user_sessions", "user_sessions_user_id", {}),
  AddIndex("user_sessions", "user_sessions_expires_at", {}),
  AddIndex("user_sessions", "user_sessions_user_active", {}),
  CreateTable("revoked_tokens", {"users"}, {}),
  AddIndex("revoked_tokens", "revoked_tokens_token_hash_unique", {}),
  AddIndex("revoked_tokens", "revoked_tokens_user_id", {}),
  AddIndex("revoked_tokens", "revoked_tokens_expires_at", {}) >>

BaselineFeed == <<
  CreateTable("follows", {"users"}, {}),
  AddIndex("follows", "follows_follower_followee_unique", {}),
  AddIndex("follows", "follows_followee_id", {}),
  AddIndex("follows", "follows_follower_id_created_at", {}),
  AddCheck("follows", "follows_no_self_follow", {}),
  CreateTable("videos", {"users"}, {}),
  AddIndex("videos", "videos_author_id", {}),
  AddIndex("videos", "videos_feed_keyset", {}),
  CreateTable("engagements", {"users", "videos"}, {"type"}),
  AddIndex("engagements", "engagements_user_video_type_unique", {"type"}),
  AddIndex("engagements", "engagements_video_id_type", {"type"}),
  AddIndex("engagements", "engagements_user_id_type", {"type"}) >>

BaselineDown == <<
  DropTable("engagements"), DropTable("videos"), DropTable("follows"),
  DropTable("revoked_tokens"), DropTable("user_sessions"), DropTable("users"),
  DropType("engagements", "type") >>

Baseline == [up |-> Transaction(BaselineAccounts \o BaselineFeed), down |-> Transaction(BaselineDown)]

SocialUp == <<
  CreateTable("friend_requests", {"users"}, {"status"}),
  AddIndex("friend_requests", "friend_requests_pair_unique", {}),
  AddIndex("friend_requests", "friend_requests_addressee_id_status", {"status"}),
  AddCheck("friend_requests", "friend_requests_no_self", {}),
  CreateTable("blocks", {"users"}, {}),
  AddIndex("blocks", "blocks_pair_unique", {}),
  AddIndex("blocks", "blocks_blocked_id", {}),
  AddCheck("blocks", "blocks_no_self", {}) >>

CommentsUp == <<
  CreateTable("comments", {"videos", "users", "comments"}, {}),
  AddIndex("comments", "comments_video_thread", {}),
  AddIndex("comments", "comments_parent_id", {}),
  CreateTable("comment_likes", {"comments", "users"}, {}),
  AddIndex("comment_likes", "comment_likes_unique", {}),
  CreateTable("reports", {"users"}, {"target_type"}),
  AddIndex("reports", "reports_target_type_target_id", {"target_type"}),
  AddIndex("reports", "reports_reporter_id", {}) >>

SocialDown == <<
  DropTable("reports"), DropTable("comment_likes"), DropTable("comments"),
  DropTable("blocks"), DropTable("friend_requests"),
  DropType("friend_requests", "status"), DropType("reports", "target_type") >>

SocialCommentsReports ==
  [up |-> Transaction(SocialUp \o CommentsUp), down |-> Transaction(SocialDown)]

CatalogUp == <<
  CreateTable("sellers", {}, {}),
  CreateTable("products", {"sellers"}, {}),
  AddIndex("products", "products_seller_id", {}),
  CreateTable("product_variants", {"products"}, {}),
  AddIndex("product_variants", "product_variants_product_id", {}),
  CreateTable("product_images", {"products"}, {}),
  AddIndex("product_images", "product_images_product_id", {}),
  CreateTable("video_products", {"videos", "products"}, {}),
  AddIndex("video_products", "video_products_unique", {}) >>

OrdersUp == <<
  CreateTable("orders", {"users"}, {"status"}),
  AddIndex("orders", "orders_user_id_created_at", {}),
  CreateTable("order_items", {"orders", "products"}, {}),
  AddIndex("order_items", "order_items_order_id", {}) >>

\* Mutant: the products go before the items that refer to them.
CommerceDown_ProductsFirst == <<
  DropTable("products"), DropTable("order_items"), DropTable("orders"),
  DropTable("video_products"), DropTable("product_images"), DropTable("product_variants"),
  DropTable("sellers"), DropType("orders", "status") >>

CommerceDown == <<
  DropTable("order_items"), DropTable("orders"), DropTable("video_products"),
  DropTable("product_images"), DropTable("product_variants"), DropTable("products"),
  DropTable("sellers"), DropType("orders", "status") >>

Commerce == [up |-> Transaction(CatalogUp \o OrdersUp), down |-> Transaction(CommerceDown)]

Messaging == [
  up |-> Transaction(<<
    CreateTable("conversations", {"users"}, {}),
    CreateTable("conversation_members", {"conversations", "users"}, {"role"}),
    AddIndex("conversation_members", "conversation_members_unique", {}),
    AddIndex("conversation_members", "conversation_members_user_id", {}),
    CreateTable("messages", {"conversations", "users"}, {"status"}),
    AddIndex("messages", "messages_conversation_id_created_at", {}) >>),
  down |-> Transaction(<<
    DropTable("messages"), DropTable("conversation_members"), DropTable("conversations"),
    DropType("conversation_members", "role"), DropType("messages", "status") >>)]

EventsCalls == [
  up |-> Transaction(<<
    CreateTable("events", {"users"}, {}),
    AddIndex("events", "events_starts_at", {}),
    AddIndex("events", "events_host_id", {}),
    CreateTable("event_attendees", {"events", "users"}, {}),
    AddIndex("event_attendees", "event_attendees_unique", {}),
    AddIndex("event_attendees", "event_attendees_user_id", {}),
    CreateTable("call_records", {"users"}, {"direction", "outcome"}),
    SetNotNull("call_records", "peer_id", "participants"),
    SetNotNull("call_records", "peer_username", "participants"),
    AddIndex("call_records", "call_records_owner_id_started_at", {}) >>),
  down |-> Transaction(<<
    DropTable("call_records"), DropTable("event_attendees"), DropTable("events"),
    DropType("call_records", "direction"), DropType("call_records", "outcome") >>)]

Payments == [
  up |-> Transaction(<<
    AddEnumColumn("orders", "payment_status"),
    AddColumn("orders", "payment_intent_id"),
    AddColumn("orders", "refunded_at"),
    AddIndex("orders", "orders_payment_intent_id", {"payment_intent_id"}),
    AddColumn("event_attendees", "payment_intent_id") >>),
  down |-> Transaction(<<
    RemoveColumn("event_attendees", "payment_intent_id"),
    RemoveIndex("orders", "orders_payment_intent_id"),
    RemoveColumn("orders", "refunded_at"),
    RemoveColumn("orders", "payment_intent_id"),
    RemoveColumn("orders", "payment_status"),
    DropType("orders", "payment_status") >>)]

DeviceTokens == [
  up |-> Each(<<
    CreateTable("device_tokens", {"users"}, {"platform"}),
    AddIndex("device_tokens", "device_tokens_user_id", {}) >>),
  down |-> Each(<< DropTable("device_tokens"), DropType("device_tokens", "platform") >>)]

PasswordResetCodes == [
  up |-> Each(<<
    CreateTable("password_reset_codes", {"users"}, {}),
    AddIndex("password_reset_codes", "password_reset_codes_user_id", {}) >>),
  down |-> Each(<< DropTable("password_reset_codes") >>)]

AddVideoFilterId == [
  up |-> Each(<< AddColumn("videos", "filter_id") >>),
  down |-> Each(<< RemoveColumn("videos", "filter_id") >>)]

\* Undoing it drops the group calls: a 1:1 record cannot hold them.
GroupCallRecords == [
  up |-> Transaction(<<
    AddColumn("call_records", "is_group"),
    AddColumn("call_records", "participants"),
    RelaxNotNull("call_records", "peer_id"),
    RelaxNotNull("call_records", "peer_username"),
    AddCheck("call_records", "call_records_peer_xor_group", {"is_group", "participants"}) >>),
  down |-> Transaction(<<
    RemoveIndex("call_records", "call_records_peer_xor_group"),
    DeleteRows("participants", "call_records"),
    RemoveColumn("call_records", "participants"),
    RemoveColumn("call_records", "is_group"),
    SetNotNull("call_records", "peer_id", "participants"),
    SetNotNull("call_records", "peer_username", "participants") >>)]

Notifications == [
  up |-> Transaction(<<
    CreateTable("notifications", {"users"}, {"type", "target_type"}),
    AddIndex("notifications", "notifications_recipient_keyset", {}),
    AddIndex("notifications", "notifications_unread", {}),
    AddCheck("notifications", "notifications_no_self", {}) >>),
  down |-> Transaction(<<
    DropTable("notifications"),
    DropType("notifications", "type"), DropType("notifications", "target_type") >>)]

UserIsAdmin == [
  up |-> Each(<< AddColumn("users", "is_admin") >>),
  down |-> Each(<< RemoveColumn("users", "is_admin") >>)]

ReportWorkflow == [
  up |-> Transaction(<<
    AddEnumColumn("reports", "status"),
    AddRefColumn("reports", "reviewed_by", "users"),
    AddColumn("reports", "reviewed_at"),
    AddColumn("reports", "resolution_note"),
    AddIndex("reports", "reports_pending", {"status"}) >>),
  down |-> Transaction(<<
    RemoveIndex("reports", "reports_pending"),
    RemoveColumn("reports", "resolution_note"),
    RemoveColumn("reports", "reviewed_at"),
    RemoveColumn("reports", "reviewed_by"),
    RemoveColumn("reports", "status"),
    DropType("reports", "status") >>)]

PasswordResetAttempts == [
  up |-> Each(<< AddColumn("password_reset_codes", "attempts") >>),
  down |-> Each(<< RemoveColumn("password_reset_codes", "attempts") >>)]

OrdersCartHash == [
  up |-> Each(<<
    AddColumn("orders", "cart_hash"),
    AddIndex("orders", "orders_user_cart_hash", {"cart_hash"}) >>),
  down |-> Each(<< RemoveIndex("orders", "orders_user_cart_hash"), RemoveColumn("orders", "cart_hash") >>)]

UserSearchTrgm == [
  up |-> Each(<<
    EnsureExtension("pg_trgm"),
    EnsureIndex("users", "users_username_trgm"),
    EnsureIndex("users", "users_display_name_trgm") >>),
  down |-> Each(<<
    RemoveIndex("users", "users_username_trgm"), RemoveIndex("users", "users_display_name_trgm") >>)]

SearchIndexes == [
  up |-> Each(<<
    EnsureExtension("pg_trgm"),
    EnsureIndex("products", "products_title_trgm"),
    EnsureIndex("products", "products_description_trgm"),
    EnsureIndex("videos", "videos_caption_trgm") >>),
  down |-> Each(<<
    RemoveIndex("products", "products_title_trgm"),
    RemoveIndex("products", "products_description_trgm"),
    RemoveIndex("videos", "videos_caption_trgm") >>)]

SellerUserLink == [
  up |-> Each(<<
    AddRefColumn("sellers", "user_id", "users"),
    AddIndex("sellers", "sellers_user_id", {"user_id"}) >>),
  down |-> Each(<< RemoveIndex("sellers", "sellers_user_id"), RemoveColumn("sellers", "user_id") >>)]

\* PostgreSQL cannot take an enum value back: down does nothing.
NotificationLikeType == [up |-> Each(<< AddValue("notifications", "type", "like") >>), down |-> <<>>]

OrderFulfillment == [
  up |-> Transaction(<<
    AddColumn("orders", "shipping_address"),
    AddEnumColumn("orders", "fulfillment_status"),
    AddColumn("orders", "tracking_number"),
    AddColumn("orders", "carrier"),
    AddColumn("orders", "shipped_at"),
    AddColumn("orders", "delivered_at") >>),
  down |-> Transaction(<<
    RemoveColumn("orders", "delivered_at"),
    RemoveColumn("orders", "shipped_at"),
    RemoveColumn("orders", "carrier"),
    RemoveColumn("orders", "tracking_number"),
    RemoveColumn("orders", "fulfillment_status"),
    RemoveColumn("orders", "shipping_address") >>)
    \o Each(<< DropType("orders", "fulfillment_status") >>)]

Mutes == [
  up |-> Transaction(<<
    CreateTable("mutes", {"users"}, {}),
    AddIndex("mutes", "mutes_pair_unique", {}),
    AddIndex("mutes", "mutes_muter", {}),
    AddCheck("mutes", "mutes_no_self", {}) >>),
  down |-> Each(<< DropTable("mutes") >>)]

Appeals == [
  up |-> Transaction(<<
    CreateTable("appeals", {"users"}, {"target_type", "status"}),
    AddIndex("appeals", "appeals_user", {}),
    AddIndex("appeals", "appeals_target", {"target_type"}),
    AddIndex("appeals", "appeals_pending", {"status"}) >>),
  down |-> Transaction(<<
    DropTable("appeals"), DropType("appeals", "target_type"), DropType("appeals", "status") >>)]

PostsUp == <<
  CreateTable("posts", {"users"}, {}),
  AddIndex("posts", "posts_author", {}),
  AddIndex("posts", "posts_keyset", {}),
  [CreateTable("post_images", {"posts"}, {}) EXCEPT !.adds = @ \cup {<<"post_images", "post_image_id">>}],
  AddIndex("post_images", "post_images_post_position", {}),
  CreateTable("post_engagements", {"users", "posts"}, {"type"}),
  AddIndex("post_engagements", "post_engagements_user_post_type_unique", {"type"}),
  AddIndex("post_engagements", "post_engagements_post_type", {"type"}),
  AddIndex("post_engagements", "post_engagements_user_type", {"type"}) >>

PostCommentsUp == <<
  CreateTable("post_comments", {"posts", "users", "post_comments"}, {}),
  AddIndex("post_comments", "post_comments_post_parent_created", {}),
  AddIndex("post_comments", "post_comments_parent", {}),
  CreateTable("post_comment_likes", {"post_comments", "users"}, {}),
  AddIndex("post_comment_likes", "post_comment_likes_comment_user_unique", {}) >>

Posts == [
  up |-> Transaction(PostsUp \o PostCommentsUp),
  down |-> Each(<<
    DropTable("post_comment_likes"), DropTable("post_comments"), DropTable("post_engagements"),
    DropTable("post_images"), DropTable("posts") >>)]

PostModerationEnums == [
  up |-> Each(<<
    AddValue("reports", "target_type", "post"),
    AddValue("reports", "target_type", "post_comment"),
    AddValue("appeals", "target_type", "post"),
    AddValue("notifications", "target_type", "post") >>),
  down |-> <<>>]

\* renameTable takes the table's index along under its old name.
Images(t) == {<<t>>, <<t, "", "->", "posts">>, <<t, "post_images_post_position">>, <<t, "post_image_id">>}

PostMedia == [
  up |-> Transaction(<<
    Rename(Images("post_images"), Images("post_media")),
    Rename({<<"post_media", "post_image_id">>}, {<<"post_media", "post_media_id">>}),
    AddEnumColumn("post_media", "media_type"),
    AddColumn("post_media", "thumbnail_url"),
    AddColumn("post_media", "duration_ms") >>),
  down |-> Transaction(<<
    RemoveColumn("post_media", "duration_ms"),
    RemoveColumn("post_media", "thumbnail_url"),
    RemoveColumn("post_media", "media_type"),
    Rename({<<"post_media", "post_media_id">>}, {<<"post_media", "post_image_id">>}),
    Rename(Images("post_media"), Images("post_images")) >>)
    \o Each(<< DropType("post_media", "media_type") >>)]

PostMediaPkRename == [
  up |-> Each(<<
    RenameIfPresent({<<"post_media", "post_image_id">>}, {<<"post_media", "post_media_id">>}) >>),
  down |-> <<>>]

\* Guarded on the old key still being there, one payload at a time.
SnakeCaseUp == <<
  Rewrite("shipping_address", {<<"orders", "shipping_address">>}),
  Rewrite("participants", {<<"call_records", "participants">>}),
  Rewrite("product_id", {<<"messages">>}),
  Rewrite("video_id", {<<"messages">>}) >>

SnakeCaseDown == <<
  Restore("shipping_address", {<<"orders", "shipping_address">>}),
  Restore("participants", {<<"call_records", "participants">>}),
  Restore("product_id", {<<"messages">>}),
  Restore("video_id", {<<"messages">>}) >>

JsonbSnakeCase == [up |-> Each(SnakeCaseUp), down |-> Each(SnakeCaseDown)]

MediaJobsTable == [
  up |-> Each(<<
    CreateTable("media_jobs", {}, {"kind", "status"}),
    AddIndex("media_jobs", "media_jobs_status_run_after", {"status"}),
    AddIndex("media_jobs", "media_jobs_live_subject", {"kind"}) >>),
  down |-> Each(<<
    RemoveIndex("media_jobs", "media_jobs_live_subject"),
    RemoveIndex("media_jobs", "media_jobs_status_run_after"),
    DropTable("media_jobs"),
    DropType("media_jobs", "kind"), DropType("media_jobs", "status") >>)]

MediaJobsPostMediaKind == [
  up |-> Each(<< AddValue("media_jobs", "kind", "post_media_transcode") >>),
  down |-> <<>>]

RecordTranscodeSource == [
  up |-> Each(<< AddColumn("videos", "source_url"), AddColumn("post_media", "source_url") >>),
  down |-> Each(<< RemoveColumn("videos", "source_url"), RemoveColumn("post_media", "source_url") >>)]

\* Mutant: the posts are not backfilled.
DeletedByUp_VideosOnly == <<
  AddEnumColumn("videos", "deleted_by"),
  Rewrite("videos", {<<"videos", "deleted_by">>}),
  AddEnumColumn("posts", "deleted_by") >>

\* Whoever was taken down before the column existed was taken down by moderation.
DeletedByUp == <<
  AddEnumColumn("videos", "deleted_by"),
  Rewrite("videos", {<<"videos", "deleted_by">>}),
  AddEnumColumn("posts", "deleted_by"),
  Rewrite("posts", {<<"posts", "deleted_by">>}) >>

\* Mutant: the enum types stay behind.
DeletedByDown_TypesStay == <<
  [RemoveColumn("videos", "deleted_by") EXCEPT !.restores = {"videos"}],
  [RemoveColumn("posts", "deleted_by") EXCEPT !.restores = {"posts"}] >>

DeletedByDown == <<
  [RemoveColumn("videos", "deleted_by") EXCEPT !.restores = {"videos"}], DropType("videos", "deleted_by"),
  [RemoveColumn("posts", "deleted_by") EXCEPT !.restores = {"posts"}], DropType("posts", "deleted_by") >>

ContentDeletedBy == [up |-> Each(DeletedByUp), down |-> Each(DeletedByDown)]

Migration == <<
  Baseline, SocialCommentsReports, Commerce, Messaging, EventsCalls, Payments, DeviceTokens,
  PasswordResetCodes, AddVideoFilterId, GroupCallRecords, Notifications, UserIsAdmin,
  ReportWorkflow, PasswordResetAttempts, OrdersCartHash, UserSearchTrgm, SearchIndexes,
  SellerUserLink, NotificationLikeType, OrderFulfillment, Mutes, Appeals, Posts,
  PostModerationEnums, PostMedia, PostMediaPkRename, JsonbSnakeCase, MediaJobsTable,
  MediaJobsPostMediaKind, RecordTranscodeSource, ContentDeletedBy >>

================================================================================
