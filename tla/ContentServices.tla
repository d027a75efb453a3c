--------------------------- MODULE ContentServices ---------------------------
(***************************************************************************)
(* The services of the content pages and of the addresses, each handler in *)
(* terms of the protocols of Collections.                                  *)
(***************************************************************************)
EXTENDS Collections

(***************************************************************************)
(* BlogService: the slug is made once and outlives the name.  So in the    *)
(* four services after it; only blogs and banners store it, see Stored.    *)
(***************************************************************************)
AddBlog(a) == AddAtOnce(a, "blog", NamedForms)
InsertManyBlog(a) == InsertMany(a, "blog", NamedForms)
GetAllBlogs == GetAll("blog")
UpdateBlogById(a) == UpdateFound(a, "blog")
UpdateMultipleBlogById(a) == UpdateManyNames(a, "blog")
DeleteBlogById(a) == DeleteFound(a, "blog", FALSE, "idle")
DeleteMultipleBlogById(a) ==
    DeleteAtOnce(a, "blog", SUBSET Of("blog"), "idle")
BlogNext(a) ==
    \/ AddBlog(a)
    \/ InsertManyBlog(a)
    \/ GetAllBlogs
    \/ UpdateBlogById(a)
    \/ UpdateMultipleBlogById(a)
    \/ DeleteBlogById(a)
    \/ DeleteMultipleBlogById(a)

(***************************************************************************)
(* BannerCaroselService                                                    *)
(***************************************************************************)
AddBannerCarosel(a) == AddAtOnce(a, "banner", NamedForms)
InsertManyBannerCarosel(a) == InsertMany(a, "banner", NamedForms)
GetAllBannerCarosels == GetAll("banner")
UpdateBannerCaroselById(a) == UpdateFound(a, "banner")
UpdateMultipleBannerCaroselById(a) == UpdateManyNames(a, "banner")
DeleteBannerCaroselById(a) == DeleteFound(a, "banner", FALSE, "idle")
DeleteMultipleBannerCaroselById(a) ==
    DeleteAtOnce(a, "banner", SUBSET Of("banner"), "idle")
BannerCaroselNext(a) ==
    \/ AddBannerCarosel(a)
    \/ InsertManyBannerCarosel(a)
    \/ GetAllBannerCarosels
    \/ UpdateBannerCaroselById(a)
    \/ UpdateMultipleBannerCaroselById(a)
    \/ DeleteBannerCaroselById(a)
    \/ DeleteMultipleBannerCaroselById(a)

(***************************************************************************)
(* CarouselService                                                         *)
(***************************************************************************)
AddCarousel(a) == AddAtOnce(a, "carousel", NamedForms)
InsertManyCarousel(a) == InsertMany(a, "carousel", NamedForms)
GetAllCarousels == GetAll("carousel")
UpdateCarouselById(a) == UpdateFound(a, "carousel")
UpdateMultipleCarouselById(a) == UpdateManyNames(a, "carousel")
DeleteCarouselById(a) == DeleteFound(a, "carousel", FALSE, "idle")
DeleteMultipleCarouselById(a) ==
    DeleteAtOnce(a, "carousel", SUBSET Of("carousel"), "idle")
CarouselNext(a) ==
    \/ AddCarousel(a)
    \/ InsertManyCarousel(a)
    \/ GetAllCarousels
    \/ UpdateCarouselById(a)
    \/ UpdateMultipleCarouselById(a)
    \/ DeleteCarouselById(a)
    \/ DeleteMultipleCarouselById(a)

(***************************************************************************)
(* ProfileService                                                          *)
(***************************************************************************)
AddProfile(a) == AddAtOnce(a, "profile", NamedForms)
InsertManyProfile(a) == InsertMany(a, "profile", NamedForms)
GetAllProfiles == GetAll("profile")
UpdateProfileById(a) == UpdateFound(a, "profile")
UpdateMultipleProfileById(a) == UpdateManyNames(a, "profile")
DeleteProfileById(a) == DeleteFound(a, "profile", FALSE, "idle")
DeleteMultipleProfileById(a) ==
    DeleteAtOnce(a, "profile", SUBSET Of("profile"), "idle")
ProfileNext(a) ==
    \/ AddProfile(a)
    \/ InsertManyProfile(a)
    \/ GetAllProfiles
    \/ UpdateProfileById(a)
    \/ UpdateMultipleProfileById(a)
    \/ DeleteProfileById(a)
    \/ DeleteMultipleProfileById(a)

(***************************************************************************)
(* CouponService: its administration; checkCouponAvailability is in        *)
(* Checkout.                                                               *)
(***************************************************************************)
AddCoupon(a) == AddAtOnce(a, "coupon", NamedForms)
InsertManyCoupon(a) == InsertMany(a, "coupon", NamedForms)
GetAllCoupons == GetAll("coupon")
UpdateCouponById(a) == UpdateFound(a, "coupon")
UpdateMultipleCouponById(a) == UpdateManyNames(a, "coupon")
DeleteCouponById(a) == DeleteFound(a, "coupon", FALSE, "idle")
DeleteMultipleCouponById(a) ==
    DeleteAtOnce(a, "coupon", SUBSET Of("coupon"), "idle")
CouponNext(a) ==
    \/ AddCoupon(a)
    \/ InsertManyCoupon(a)
    \/ GetAllCoupons
    \/ UpdateCouponById(a)
    \/ UpdateMultipleCouponById(a)
    \/ DeleteCouponById(a)
    \/ DeleteMultipleCouponById(a)

(***************************************************************************)
(* GalleryService: a new name makes a slug that the schema does not store. *)
(***************************************************************************)
AddGallery(a) == AddAtOnce(a, "gallery", NamedForms)
InsertManyGallery(a) == InsertMany(a, "gallery", NamedForms)
GetAllGalleries == GetAll("gallery")
UpdateGalleryById(a) == UpdateRenaming(a, "gallery")
UpdateMultipleGalleryById(a) == UpdateManyNames(a, "gallery")
DeleteGalleryById(a) == DeleteFound(a, "gallery", FALSE, "idle")
DeleteMultipleGalleryById(a) ==
    DeleteAtOnce(a, "gallery", SUBSET Of("gallery"), "idle")
GalleryNext(a) ==
    \/ AddGallery(a)
    \/ InsertManyGallery(a)
    \/ GetAllGalleries
    \/ UpdateGalleryById(a)
    \/ UpdateMultipleGalleryById(a)
    \/ DeleteGalleryById(a)
    \/ DeleteMultipleGalleryById(a)

(***************************************************************************)
(* FileFolderService                                                       *)
(***************************************************************************)
AddFileFolder(a) == AddAtOnce(a, "fileFolder", NamedForms)
InsertManyFileFolder(a) == InsertMany(a, "fileFolder", NamedForms)
GetAllFileFolders == GetAll("fileFolder")
UpdateFileFolderById(a) == UpdateRenaming(a, "fileFolder")
UpdateMultipleFileFolderById(a) == UpdateManyNames(a, "fileFolder")
DeleteFileFolderById(a) == DeleteFound(a, "fileFolder", FALSE, "idle")
DeleteMultipleFileFolderById(a) ==
    DeleteAtOnce(a, "fileFolder", SUBSET Of("fileFolder"), "idle")
FileFolderNext(a) ==
    \/ AddFileFolder(a)
    \/ InsertManyFileFolder(a)
    \/ GetAllFileFolders
    \/ UpdateFileFolderById(a)
    \/ UpdateMultipleFileFolderById(a)
    \/ DeleteFileFolderById(a)
    \/ DeleteMultipleFileFolderById(a)

(***************************************************************************)
(* DiscountPercentService: its schema stores no slug, and the products it  *)
(* resets have no such field.  A name stands for its discountType.         *)
(***************************************************************************)
AddDiscountPercent(a) == AddAtOnce(a, "discountPercent", NamedForms)
InsertManyDiscountPercent(a) == InsertMany(a, "discountPercent", NamedForms)
GetAllDiscountPercents == GetAll("discountPercent")
UpdateDiscountPercentById(a) == UpdateRenaming(a, "discountPercent")
UpdateMultipleDiscountPercentById(a) == UpdateManyNames(a, "discountPercent")
DeleteDiscountPercentById(a) ==
    DeleteFound(a, "discountPercent", TRUE, "heir")
DeleteMultipleDiscountPercentById(a) ==
    DeleteManyFound(a, "discountPercent", "heir")
DiscountPercentNext(a) ==
    \/ AddDiscountPercent(a)
    \/ InsertManyDiscountPercent(a)
    \/ GetAllDiscountPercents
    \/ UpdateDiscountPercentById(a)
    \/ UpdateMultipleDiscountPercentById(a)
    \/ DeleteDiscountPercentById(a)
    \/ DeleteMultipleDiscountPercentById(a)

(***************************************************************************)
(* ReviewService: no slug, no look before a write.                         *)
(***************************************************************************)
AddReview(a) == AddAtOnce(a, "review", NameForms)
AddReviewByAdmin(a) == AddAtOnce(a, "review", NameForms)
GetAllReviewsByQuery == GetAll("review")
UpdateReviewById(a) == UpdateAtOnce(a, "review")
DeleteReviewById(a) ==
    DeleteAtOnce(a, "review", Singletons(Of("review")), "idle")
DeleteMultipleReviewById(a) ==
    DeleteAtOnce(a, "review", SUBSET Of("review"), "idle")
ReviewNext(a) ==
    \/ AddReview(a)
    \/ AddReviewByAdmin(a)
    \/ GetAllReviewsByQuery
    \/ UpdateReviewById(a)
    \/ DeleteReviewById(a)
    \/ DeleteMultipleReviewById(a)

(***************************************************************************)
(* ReportService                                                           *)
(***************************************************************************)
AddReport(a) == AddAtOnce(a, "report", NameForms)
AddReportByAdmin(a) == AddAtOnce(a, "report", NameForms)
GetAllReportsByQuery == GetAll("report")
UpdateReportById(a) == UpdateAtOnce(a, "report")
DeleteReportById(a) ==
    DeleteAtOnce(a, "report", Singletons(Of("report")), "idle")
DeleteMultipleReportById(a) ==
    DeleteAtOnce(a, "report", SUBSET Of("report"), "idle")
ReportNext(a) ==
    \/ AddReport(a)
    \/ AddReportByAdmin(a)
    \/ GetAllReportsByQuery
    \/ UpdateReportById(a)
    \/ DeleteReportById(a)
    \/ DeleteMultipleReportById(a)

(***************************************************************************)
(* VerifiedService                                                         *)
(***************************************************************************)
AddVerified(a) == AddAtOnce(a, "verified", NameForms)
AddVerifiedByAdmin(a) == AddAtOnce(a, "verified", NameForms)
GetAllVerifiedsByQuery == GetAll("verified")
UpdateVerifiedById(a) == UpdateAtOnce(a, "verified")
DeleteVerifiedById(a) ==
    DeleteAtOnce(a, "verified", Singletons(Of("verified")), "idle")
DeleteMultipleVerifiedById(a) ==
    DeleteAtOnce(a, "verified", SUBSET Of("verified"), "idle")
VerifiedNext(a) ==
    \/ AddVerified(a)
    \/ AddVerifiedByAdmin(a)
    \/ GetAllVerifiedsByQuery
    \/ UpdateVerifiedById(a)
    \/ DeleteVerifiedById(a)
    \/ DeleteMultipleVerifiedById(a)

(***************************************************************************)
(* DivisionService: the handler looks for readOnly, which its schema       *)
(* lacks, and leaves the products alone.  So in the two after it.          *)
(***************************************************************************)
AddDivision(a) == AddAtOnce(a, "division", NameForms)
InsertManyDivision(a) == InsertMany(a, "division", NameForms)
GetAllDivisions == GetAll("division")
UpdateDivisionById(a) == UpdateAtOnce(a, "division")
UpdateMultipleDivisionById(a) == UpdateManyNames(a, "division")
DeleteDivisionById(a) == DeleteFound(a, "division", TRUE, "idle")
DeleteMultipleDivisionById(a) ==
    DeleteAtOnce(a, "division", SUBSET Of("division"), "idle")
DivisionNext(a) ==
    \/ AddDivision(a)
    \/ InsertManyDivision(a)
    \/ GetAllDivisions
    \/ UpdateDivisionById(a)
    \/ UpdateMultipleDivisionById(a)
    \/ DeleteDivisionById(a)
    \/ DeleteMultipleDivisionById(a)

(***************************************************************************)
(* AreaService                                                             *)
(***************************************************************************)
AddArea(a) == AddAtOnce(a, "area", NameForms)
InsertManyArea(a) == InsertMany(a, "area", NameForms)
GetAllAreas == GetAll("area")
UpdateAreaById(a) == UpdateAtOnce(a, "area")
UpdateMultipleAreaById(a) == UpdateManyNames(a, "area")
DeleteAreaById(a) == DeleteFound(a, "area", TRUE, "idle")
DeleteMultipleAreaById(a) ==
    DeleteAtOnce(a, "area", SUBSET Of("area"), "idle")
AreaNext(a) ==
    \/ AddArea(a)
    \/ InsertManyArea(a)
    \/ GetAllAreas
    \/ UpdateAreaById(a)
    \/ UpdateMultipleAreaById(a)
    \/ DeleteAreaById(a)
    \/ DeleteMultipleAreaById(a)

(***************************************************************************)
(* ZoneService                                                             *)
(***************************************************************************)
AddZone(a) == AddAtOnce(a, "zone", NameForms)
InsertManyZone(a) == InsertMany(a, "zone", NameForms)
GetAllZones == GetAll("zone")
UpdateZoneById(a) == UpdateAtOnce(a, "zone")
UpdateMultipleZoneById(a) == UpdateManyNames(a, "zone")
DeleteZoneById(a) == DeleteFound(a, "zone", TRUE, "idle")
DeleteMultipleZoneById(a) ==
    DeleteAtOnce(a, "zone", SUBSET Of("zone"), "idle")
ZoneNext(a) ==
    \/ AddZone(a)
    \/ InsertManyZone(a)
    \/ GetAllZones
    \/ UpdateZoneById(a)
    \/ UpdateMultipleZoneById(a)
    \/ DeleteZoneById(a)
    \/ DeleteMultipleZoneById(a)

(***************************************************************************)
(* AdditionalPageService: a page is known by its slug.                     *)
(***************************************************************************)
\* findOne({slug}): a page that is there is updated, which changes no slug.
AddAdditionalPage(a) ==
    /\ MayCall(a, "additionalPage")
    /\ Room > 0
    /\ \E f \in SlugForms("additionalPage") :
          IF SlugTaken("additionalPage", f.slug)
            THEN UNCHANGED calls
            ELSE Goto(a, [Idle EXCEPT !.pc = "save", !.form = f,
                                      !.kind = "additionalPage"])
    /\ UNCHANGED <<world, docs, born, refs, reader>>
DeleteAdditionalPageBySlug(a) ==
    DeleteAtOnce(a, "additionalPage", Singletons(Of("additionalPage")), "idle")
AdditionalPageNext(a) ==
    \/ AddAdditionalPage(a)
    \/ DeleteAdditionalPageBySlug(a)

ContentNext(a) ==
    \/ BlogNext(a)
    \/ BannerCaroselNext(a)
    \/ CarouselNext(a)
    \/ ProfileNext(a)
    \/ CouponNext(a)
    \/ GalleryNext(a)
    \/ FileFolderNext(a)
    \/ DiscountPercentNext(a)
    \/ ReviewNext(a)
    \/ ReportNext(a)
    \/ VerifiedNext(a)
    \/ DivisionNext(a)
    \/ AreaNext(a)
    \/ ZoneNext(a)
    \/ AdditionalPageNext(a)
=============================================================================
