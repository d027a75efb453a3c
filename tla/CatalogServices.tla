--------------------------- MODULE CatalogServices ---------------------------
(***************************************************************************)
(* The catalog's services, each handler in terms of the protocols of       *)
(* Collections.  The names are those of the handlers.                      *)
(***************************************************************************)
EXTENDS Collections

(***************************************************************************)
(* CategoryService: a deleted category hands its sub-categories and        *)
(* products to the read-only one.                                          *)
(***************************************************************************)
AddCategory(a) == AddCheckingSlug(a, "category")
InsertManyCategory(a) == InsertMany(a, "category", SlugForms("category"))
GetAllCategories == GetAll("category")
UpdateCategoryById(a) == UpdateCheckingSlug(a, "category")
UpdateMultipleCategoryById(a) == UpdateManyElse(a, "category")
DeleteCategoryById(a) == DeleteFound(a, "category", TRUE, "heir")
DeleteMultipleCategoryById(a) == DeleteManyFound(a, "category", "heir")
CategoryNext(a) ==
    \/ AddCategory(a)
    \/ InsertManyCategory(a)
    \/ GetAllCategories
    \/ UpdateCategoryById(a)
    \/ UpdateMultipleCategoryById(a)
    \/ DeleteCategoryById(a)
    \/ DeleteMultipleCategoryById(a)

(***************************************************************************)
(* SubCategoryService: the products go to the read-only sub-category.      *)
(***************************************************************************)
AddSubCategory(a) == AddCheckingSlug(a, "subCategory")
InsertManySubCategory(a) ==
    InsertMany(a, "subCategory", SlugForms("subCategory"))
GetAllSubCategories == GetAll("subCategory")
UpdateSubCategoryById(a) == UpdateCheckingSlug(a, "subCategory")
UpdateMultipleSubCategoryById(a) == UpdateManyElse(a, "subCategory")
DeleteSubCategoryById(a) == DeleteFound(a, "subCategory", TRUE, "heir")
DeleteMultipleSubCategoryById(a) == DeleteManyFound(a, "subCategory", "heir")
SubCategoryNext(a) ==
    \/ AddSubCategory(a)
    \/ InsertManySubCategory(a)
    \/ GetAllSubCategories
    \/ UpdateSubCategoryById(a)
    \/ UpdateMultipleSubCategoryById(a)
    \/ DeleteSubCategoryById(a)
    \/ DeleteMultipleSubCategoryById(a)

(***************************************************************************)
(* BrandService: a new name gets a new slug.                               *)
(***************************************************************************)
AddBrand(a) == AddAtOnce(a, "brand", NamedForms)
InsertManyBrand(a) == InsertMany(a, "brand", NamedForms)
GetAllBrands == GetAll("brand")
UpdateBrandById(a) == UpdateRenaming(a, "brand")
UpdateMultipleBrandById(a) == UpdateManyNames(a, "brand")
DeleteBrandById(a) == DeleteFound(a, "brand", TRUE, "heir")
DeleteMultipleBrandById(a) == DeleteManyFound(a, "brand", "heir")
BrandNext(a) ==
    \/ AddBrand(a)
    \/ InsertManyBrand(a)
    \/ GetAllBrands
    \/ UpdateBrandById(a)
    \/ UpdateMultipleBrandById(a)
    \/ DeleteBrandById(a)
    \/ DeleteMultipleBrandById(a)

(***************************************************************************)
(* TagService: nothing protects a document, and no default takes its place *)
(* in the products.  So it is in the six services after it, which do not   *)
(* even take it out of them, see PullFromProducts.                         *)
(***************************************************************************)
AddTag(a) == AddCheckingSlug(a, "tag")
InsertManyTag(a) == InsertMany(a, "tag", SlugForms("tag"))
GetAllTags == GetAll("tag")
UpdateTagById(a) == UpdateCheckingSlug(a, "tag")
UpdateMultipleTagById(a) == UpdateManyElse(a, "tag")
DeleteTagById(a) == DeleteFound(a, "tag", FALSE, "pull")
DeleteMultipleTagById(a) == DeleteAtOnce(a, "tag", SUBSET Of("tag"), "pull")
TagNext(a) ==
    \/ AddTag(a)
    \/ InsertManyTag(a)
    \/ GetAllTags
    \/ UpdateTagById(a)
    \/ UpdateMultipleTagById(a)
    \/ DeleteTagById(a)
    \/ DeleteMultipleTagById(a)

(***************************************************************************)
(* TypeService                                                             *)
(***************************************************************************)
AddType(a) == AddCheckingSlug(a, "type")
InsertManyType(a) == InsertMany(a, "type", SlugForms("type"))
GetAllTypes == GetAll("type")
UpdateTypeById(a) == UpdateCheckingSlug(a, "type")
UpdateMultipleTypeById(a) == UpdateManyElse(a, "type")
DeleteTypeById(a) == DeleteFound(a, "type", FALSE, "pull")
DeleteMultipleTypeById(a) ==
    DeleteAtOnce(a, "type", SUBSET Of("type"), "pull")
TypeNext(a) ==
    \/ AddType(a)
    \/ InsertManyType(a)
    \/ GetAllTypes
    \/ UpdateTypeById(a)
    \/ UpdateMultipleTypeById(a)
    \/ DeleteTypeById(a)
    \/ DeleteMultipleTypeById(a)

(***************************************************************************)
(* RegionService                                                           *)
(***************************************************************************)
AddRegion(a) == AddCheckingSlug(a, "region")
InsertManyRegion(a) == InsertMany(a, "region", SlugForms("region"))
GetAllRegions == GetAll("region")
UpdateRegionById(a) == UpdateCheckingSlug(a, "region")
UpdateMultipleRegionById(a) == UpdateManyElse(a, "region")
DeleteRegionById(a) == DeleteFound(a, "region", FALSE, "pull")
DeleteMultipleRegionById(a) ==
    DeleteAtOnce(a, "region", SUBSET Of("region"), "pull")
RegionNext(a) ==
    \/ AddRegion(a)
    \/ InsertManyRegion(a)
    \/ GetAllRegions
    \/ UpdateRegionById(a)
    \/ UpdateMultipleRegionById(a)
    \/ DeleteRegionById(a)
    \/ DeleteMultipleRegionById(a)

(***************************************************************************)
(* OrientationService                                                      *)
(***************************************************************************)
AddOrientation(a) == AddCheckingSlug(a, "orientation")
InsertManyOrientation(a) ==
    InsertMany(a, "orientation", SlugForms("orientation"))
GetAllOrientations == GetAll("orientation")
UpdateOrientationById(a) == UpdateCheckingSlug(a, "orientation")
UpdateMultipleOrientationById(a) == UpdateManyElse(a, "orientation")
DeleteOrientationById(a) == DeleteFound(a, "orientation", FALSE, "pull")
DeleteMultipleOrientationById(a) ==
    DeleteAtOnce(a, "orientation", SUBSET Of("orientation"), "pull")
OrientationNext(a) ==
    \/ AddOrientation(a)
    \/ InsertManyOrientation(a)
    \/ GetAllOrientations
    \/ UpdateOrientationById(a)
    \/ UpdateMultipleOrientationById(a)
    \/ DeleteOrientationById(a)
    \/ DeleteMultipleOrientationById(a)

(***************************************************************************)
(* IntimateHairService                                                     *)
(***************************************************************************)
AddIntimateHair(a) == AddCheckingSlug(a, "intimateHair")
InsertManyIntimateHair(a) ==
    InsertMany(a, "intimateHair", SlugForms("intimateHair"))
GetAllIntimateHairs == GetAll("intimateHair")
UpdateIntimateHairById(a) == UpdateCheckingSlug(a, "intimateHair")
UpdateMultipleIntimateHairById(a) == UpdateManyElse(a, "intimateHair")
DeleteIntimateHairById(a) == DeleteFound(a, "intimateHair", FALSE, "pull")
DeleteMultipleIntimateHairById(a) ==
    DeleteAtOnce(a, "intimateHair", SUBSET Of("intimateHair"), "pull")
IntimateHairNext(a) ==
    \/ AddIntimateHair(a)
    \/ InsertManyIntimateHair(a)
    \/ GetAllIntimateHairs
    \/ UpdateIntimateHairById(a)
    \/ UpdateMultipleIntimateHairById(a)
    \/ DeleteIntimateHairById(a)
    \/ DeleteMultipleIntimateHairById(a)

(***************************************************************************)
(* HairColorService                                                        *)
(***************************************************************************)
AddHairColor(a) == AddCheckingSlug(a, "hairColor")
InsertManyHairColor(a) == InsertMany(a, "hairColor", SlugForms("hairColor"))
GetAllHairColors == GetAll("hairColor")
UpdateHairColorById(a) == UpdateCheckingSlug(a, "hairColor")
UpdateMultipleHairColorById(a) == UpdateManyElse(a, "hairColor")
DeleteHairColorById(a) == DeleteFound(a, "hairColor", FALSE, "pull")
DeleteMultipleHairColorById(a) ==
    DeleteAtOnce(a, "hairColor", SUBSET Of("hairColor"), "pull")
HairColorNext(a) ==
    \/ AddHairColor(a)
    \/ InsertManyHairColor(a)
    \/ GetAllHairColors
    \/ UpdateHairColorById(a)
    \/ UpdateMultipleHairColorById(a)
    \/ DeleteHairColorById(a)
    \/ DeleteMultipleHairColorById(a)

(***************************************************************************)
(* BodyTypeService                                                         *)
(***************************************************************************)
AddBodyType(a) == AddCheckingSlug(a, "bodyType")
InsertManyBodyType(a) == InsertMany(a, "bodyType", SlugForms("bodyType"))
GetAllBodyTypes == GetAll("bodyType")
UpdateBodyTypeById(a) == UpdateCheckingSlug(a, "bodyType")
UpdateMultipleBodyTypeById(a) == UpdateManyElse(a, "bodyType")
DeleteBodyTypeById(a) == DeleteFound(a, "bodyType", FALSE, "pull")
DeleteMultipleBodyTypeById(a) ==
    DeleteAtOnce(a, "bodyType", SUBSET Of("bodyType"), "pull")
BodyTypeNext(a) ==
    \/ AddBodyType(a)
    \/ InsertManyBodyType(a)
    \/ GetAllBodyTypes
    \/ UpdateBodyTypeById(a)
    \/ UpdateMultipleBodyTypeById(a)
    \/ DeleteBodyTypeById(a)
    \/ DeleteMultipleBodyTypeById(a)

(***************************************************************************)
(* AuthorService: a bulk update keeps the slug it is given, and a delete   *)
(* leaves the products alone.  So in the service after it.                 *)
(***************************************************************************)
AddAuthor(a) == AddCheckingSlug(a, "author")
InsertManyAuthor(a) == InsertMany(a, "author", SlugForms("author"))
GetAllAuthors == GetAll("author")
UpdateAuthorById(a) == UpdateCheckingSlug(a, "author")
UpdateMultipleAuthorById(a) == UpdateManySlugs(a, "author")
DeleteAuthorById(a) == DeleteFound(a, "author", FALSE, "idle")
DeleteMultipleAuthorById(a) ==
    DeleteAtOnce(a, "author", SUBSET Of("author"), "idle")
AuthorNext(a) ==
    \/ AddAuthor(a)
    \/ InsertManyAuthor(a)
    \/ GetAllAuthors
    \/ UpdateAuthorById(a)
    \/ UpdateMultipleAuthorById(a)
    \/ DeleteAuthorById(a)
    \/ DeleteMultipleAuthorById(a)

(***************************************************************************)
(* PublisherService                                                        *)
(***************************************************************************)
AddPublisher(a) == AddCheckingSlug(a, "publisher")
InsertManyPublisher(a) == InsertMany(a, "publisher", SlugForms("publisher"))
GetAllPublishers == GetAll("publisher")
UpdatePublisherById(a) == UpdateCheckingSlug(a, "publisher")
UpdateMultiplePublisherById(a) == UpdateManySlugs(a, "publisher")
DeletePublisherById(a) == DeleteFound(a, "publisher", FALSE, "idle")
DeleteMultiplePublisherById(a) ==
    DeleteAtOnce(a, "publisher", SUBSET Of("publisher"), "idle")
PublisherNext(a) ==
    \/ AddPublisher(a)
    \/ InsertManyPublisher(a)
    \/ GetAllPublishers
    \/ UpdatePublisherById(a)
    \/ UpdateMultiplePublisherById(a)
    \/ DeletePublisherById(a)
    \/ DeleteMultiplePublisherById(a)

CatalogNext(a) ==
    \/ CategoryNext(a)
    \/ SubCategoryNext(a)
    \/ BrandNext(a)
    \/ TagNext(a)
    \/ TypeNext(a)
    \/ RegionNext(a)
    \/ OrientationNext(a)
    \/ IntimateHairNext(a)
    \/ HairColorNext(a)
    \/ BodyTypeNext(a)
    \/ AuthorNext(a)
    \/ PublisherNext(a)
=============================================================================
